------------------------ MODULE KafkaConsumer_proofs ------------------------
(***************************************************************************)
(* The safety of KafkaConsumer, for any number of messages, handlers,      *)
(* retries, workers, starts and crashes.                                   *)
(***************************************************************************)
EXTENDS KafkaConsumer, TLAPS

Jobs == [pc : {"idle", "next", "call", "dlq", "panic", "commit"},
         msg : 0 .. N, handler : Nat, attempt : 0 .. MaxRetries, bad : BOOLEAN]

(* The types of everything but the jobs.                                   *)
Types ==
    /\ mode \in {"loop", "pool"} /\ dlq \in BOOLEAN
    /\ committed \in 1 .. N + 1
    /\ position \in 1 .. N + 1
    /\ stash \in 0 .. N
    /\ fetcher \in {"off", "top", "fetching"}
    /\ queue \in Seq(Offsets)
    /\ ctxDone \in BOOLEAN
    /\ closing \in {"no", "reader", "waiting", "done"}
    /\ timedOut \in BOOLEAN
    /\ process \in {"up", "panicked"}
    /\ settled \subseteq Pairs
    /\ givenUp \subseteq Offsets /\ dlqFailed \subseteq Offsets
    /\ starts \in 0 .. MaxStarts /\ crashes \in 0 .. MaxCrashes

(* A job is at one of its message's handlers; unless something has failed, *)
(* every handler before it is settled; at the commit all of them are.      *)
GoodJob(j) ==
    /\ j \in Jobs
    /\ j.pc # "idle" => j.msg \in Offsets /\ j.handler \in 1 .. Handlers[j.msg]
    /\ j.pc = "next" /\ dlq => j.attempt < MaxRetries \/ MaxRetries = 0
    /\ j.pc = "call" /\ dlq => j.attempt < MaxRetries
    /\ j.pc # "idle" /\ ~j.bad => \A h \in 1 .. j.handler - 1 : <<j.msg, h>> \in settled
    /\ j.pc = "commit" => AllSettled(j.msg)

JobsInv == job \in [Procs -> Jobs] /\ \A p \in Procs : GoodJob(job[p])

Passed(m) == AllSettled(m) \/ m \in givenUp

(* In the single-goroutine mode the loop is at the last message fetched,   *)
(* and neither the group's offset nor what is stashed for it is beyond a   *)
(* message that was neither settled nor given up.                          *)
LoopInv ==
    mode = "loop" =>
        /\ queue = <<>>
        /\ \A w \in Workers : Idle(w)
        /\ fetcher = "fetching" => Idle(Loop)
        /\ ~Idle(Loop) => position = job[Loop].msg + 1
        /\ committed <= position /\ stash < position
        /\ \A m \in Offsets : m < committed \/ m <= stash => Passed(m)
        /\ \A m \in Offsets :
               m < position => Passed(m) \/ (~Idle(Loop) /\ job[Loop].msg = m)

IInv ==
    /\ Types /\ JobsInv /\ LoopInv
    /\ CloseWaits /\ PanicsOnlyAfterTimeout
-----------------------------------------------------------------------------
LEMMA MaxOfTwo ==
    ASSUME NEW m \in Nat, NEW n \in Nat
    PROVE  Max({m, n}) = IF m >= n THEN m ELSE n
<1> DEFINE big == IF m >= n THEN m ELSE n
<1>1. big \in {m, n} /\ \A y \in {m, n} : big >= y
  OBVIOUS
<1>2. \A x \in {m, n} : (\A y \in {m, n} : x >= y) => x = big
  OBVIOUS
<1> HIDE DEF big
<1>3. Max({m, n}) = big
  BY <1>1, <1>2 DEF Max
<1> QED
  BY <1>3 DEF big

(* What any step of a goroutine does with its message: it goes on with it, *)
(* gives it up, or stashes its offset when all its handlers are settled.   *)
JobStep(p) ==
    /\ process = "up" /\ ~Idle(p)
    /\ job' \in [Procs -> Jobs] /\ \A q \in Procs \ {p} : job'[q] = job[q]
    /\ GoodJob(job[p])'
    /\ \/ ~Idle(p)' /\ job'[p].msg = job[p].msg /\ UNCHANGED <<givenUp, stash>>
       \/ Idle(p)' /\ givenUp' = givenUp \cup {job[p].msg} /\ UNCHANGED stash
       \/ /\ Idle(p)' /\ AllSettled(job[p].msg)
          /\ UNCHANGED givenUp /\ stash' = Max({stash, job[p].msg})
    /\ settled \subseteq settled' /\ settled' \subseteq Pairs
    /\ dlqFailed' \subseteq Offsets
    /\ process' = "up" \/ (process' = "panicked" /\ closing = "done")
    /\ UNCHANGED <<config, committed, position, lifeVars, fetcher, queue>>

(* The job that follows a handler is good, if the handler is settled or    *)
(* its failure is remembered.                                              *)
LEMMA AfterGood ==
    ASSUME NEW p \in Procs, GoodJob(job[p]), job[p].pc \in {"call", "dlq"},
           NEW bad \in BOOLEAN, job[p].bad => bad,
           ~bad => <<job[p].msg, job[p].handler>> \in settled',
           settled \subseteq settled', UNCHANGED dlq,
           job'[p] = After(p, bad)
    PROVE  /\ GoodJob(job[p])'
           /\ Idle(p)' => job'[p] = NoJob
           /\ ~Idle(p)' => job'[p].msg = job[p].msg /\ job'[p] # NoJob
<1>1. /\ job[p] \in Jobs /\ job[p].msg \in Offsets
      /\ job[p].handler \in 1 .. Handlers[job[p].msg]
      /\ ~job[p].bad => \A h \in 1 .. job[p].handler - 1 : <<job[p].msg, h>> \in settled
      /\ Handlers[job[p].msg] \in Nat /\ MaxRetries \in Nat
  BY KafkaAssumption DEF GoodJob, Offsets
<1>2. /\ job[p].msg \in 0 .. N /\ job[p].handler \in Nat /\ job[p].attempt \in 0 .. MaxRetries
      /\ job[p].bad \in BOOLEAN
  BY <1>1 DEF Jobs
<1>3. CASE job[p].handler < Handlers[job[p].msg]
  <2>1. job'[p] = [job[p] EXCEPT !.pc = "next", !.handler = job[p].handler + 1,
                                 !.attempt = 0, !.bad = bad]
    BY <1>3 DEF After
  <2>2. job'[p] = [pc |-> "next", msg |-> job[p].msg, handler |-> job[p].handler + 1,
                   attempt |-> 0, bad |-> bad]
    BY <1>1, <2>1 DEF Jobs
  <2>3. job'[p] \in Jobs
    BY <1>1, <1>2, <2>2 DEF Jobs
  <2>4. ~bad => \A h \in 1 .. job[p].handler : <<job[p].msg, h>> \in settled'
    BY <1>1, <1>2
  <2>5. job'[p].handler \in 1 .. Handlers[job'[p].msg] /\ job'[p].handler - 1 = job[p].handler
    BY <1>1, <1>2, <1>3, <2>2
  <2>6. ~job'[p].bad => \A h \in 1 .. job'[p].handler - 1 : <<job'[p].msg, h>> \in settled'
    BY <2>2, <2>4, <2>5
  <2>7. GoodJob(job[p])'
    BY <1>1, <2>2, <2>3, <2>5, <2>6 DEF GoodJob
  <2> QED
    BY <2>2, <2>7 DEF Idle, NoJob
<1>4. CASE ~(job[p].handler < Handlers[job[p].msg])
  <2>1. job[p].handler = Handlers[job[p].msg]
    BY <1>1, <1>4
  <2>2. CASE bad
    <3>1. job'[p] = NoJob
      BY <1>4, <2>2 DEF After
    <3> QED
      BY <3>1, KafkaAssumption DEF GoodJob, NoJob, Jobs, Idle
  <2>3. CASE ~bad
    <3>1. job'[p] = [job[p] EXCEPT !.pc = "commit"]
      BY <1>4, <2>3 DEF After
    <3>2. /\ job'[p] \in Jobs /\ job'[p].pc = "commit" /\ job'[p].msg = job[p].msg
          /\ job'[p].handler = job[p].handler /\ job'[p].bad = job[p].bad
      BY <1>1, <3>1 DEF Jobs
    <3>3. \A h \in 1 .. Handlers[job[p].msg] : <<job[p].msg, h>> \in settled'
      BY <1>1, <1>2, <2>1, <2>3
    <3>4. AllSettled(job[p].msg)'
      BY <3>2, <3>3 DEF AllSettled
    <3>5. \A h \in 1 .. job'[p].handler - 1 : <<job'[p].msg, h>> \in settled'
      BY <1>1, <1>2, <2>1, <3>2, <3>3
    <3>6. GoodJob(job[p])'
      BY <1>1, <3>2, <3>4, <3>5 DEF GoodJob
    <3> QED
      BY <3>2, <3>6 DEF Idle, NoJob
  <2> QED
    BY <2>2, <2>3
<1> QED
  BY <1>3, <1>4

(* What a step of a goroutine that lets go of its message does.            *)
LEMMA DropStep ==
    ASSUME NEW p \in Procs, job \in [Procs -> Jobs], Drop(p)
    PROVE  /\ job' \in [Procs -> Jobs] /\ \A q \in Procs \ {p} : job'[q] = job[q]
           /\ GoodJob(job[p])' /\ Idle(p)' /\ givenUp' = givenUp \cup {job[p].msg}
<1>1. NoJob \in Jobs
  BY KafkaAssumption DEF NoJob, Jobs
<1>2. job' = [job EXCEPT ![p] = NoJob] /\ givenUp' = givenUp \cup {job[p].msg}
  BY DEF Drop
<1>3. job' \in [Procs -> Jobs] /\ job'[p] = NoJob /\ \A q \in Procs \ {p} : job'[q] = job[q]
  BY <1>1, <1>2
<1>4. GoodJob(job[p])'
  BY <1>1, <1>3 DEF GoodJob, NoJob
<1> QED
  BY <1>2, <1>3, <1>4 DEF Idle, NoJob

(* ... and of one that goes to the next handler, or finishes.              *)
LEMMA FinishStep ==
    ASSUME NEW p \in Procs, JobsInv, job[p].pc \in {"call", "dlq"},
           NEW bad \in BOOLEAN, job[p].bad => bad,
           ~bad => <<job[p].msg, job[p].handler>> \in settled',
           settled \subseteq settled', UNCHANGED dlq,
           Finish(p, bad)
    PROVE  /\ job' \in [Procs -> Jobs] /\ \A q \in Procs \ {p} : job'[q] = job[q]
           /\ GoodJob(job[p])'
           /\ \/ ~Idle(p)' /\ job'[p].msg = job[p].msg /\ UNCHANGED givenUp
              \/ Idle(p)' /\ givenUp' = givenUp \cup {job[p].msg}
<1>1. job \in [Procs -> Jobs] /\ GoodJob(job[p])
  BY DEF JobsInv
<1>2. /\ job' = [job EXCEPT ![p] = After(p, bad)]
      /\ givenUp' = IF job'[p] = NoJob THEN givenUp \cup {job[p].msg} ELSE givenUp
  BY DEF Finish
<1>3. job'[p] = After(p, bad) /\ \A q \in Procs \ {p} : job'[q] = job[q]
  BY <1>1, <1>2
<1>4. /\ GoodJob(job[p])'
      /\ Idle(p)' => job'[p] = NoJob
      /\ ~Idle(p)' => job'[p].msg = job[p].msg /\ job'[p] # NoJob
  BY <1>1, <1>3, AfterGood
<1>5. job'[p] \in Jobs
  BY <1>4 DEF GoodJob
<1>6. job' \in [Procs -> Jobs]
  BY <1>1, <1>2, <1>3, <1>5
<1> QED
  BY <1>2, <1>3, <1>4, <1>6

(* Each of the twelve actions of a goroutine is such a step.               *)
LEMMA ProcStep ==
    ASSUME IInv, NEW p \in Procs, ProcNext(p)
    PROVE  JobStep(p)
<1>1. /\ job \in [Procs -> Jobs] /\ GoodJob(job[p]) /\ job[p] \in Jobs
      /\ settled \subseteq Pairs /\ dlqFailed \subseteq Offsets
      /\ MaxRetries \in Nat
  BY KafkaAssumption DEF IInv, Types, JobsInv, GoodJob
<1>2. /\ job[p].msg \in 0 .. N /\ job[p].handler \in Nat /\ job[p].attempt \in 0 .. MaxRetries
      /\ job[p].bad \in BOOLEAN
  BY <1>1 DEF Jobs
<1>3. SendError => process' = "up" \/ (process' = "panicked" /\ closing = "done")
  BY DEF SendError
<1>4. job[p].pc # "idle" => job[p].msg \in Offsets /\ <<job[p].msg, job[p].handler>> \in Pairs
  BY <1>1 DEF GoodJob, Pairs
<1>5. CASE NoHandler(p)
  <2>1. /\ job' \in [Procs -> Jobs] /\ \A q \in Procs \ {p} : job'[q] = job[q]
        /\ GoodJob(job[p])' /\ Idle(p)' /\ givenUp' = givenUp \cup {job[p].msg}
    BY <1>1, <1>5, DropStep DEF NoHandler
  <2> QED
    BY <1>1, <1>5, <2>1 DEF NoHandler, JobStep, Idle, readerVars
<1>6. CASE Abandon(p)
  <2>1. /\ job' \in [Procs -> Jobs] /\ \A q \in Procs \ {p} : job'[q] = job[q]
        /\ GoodJob(job[p])' /\ Idle(p)' /\ givenUp' = givenUp \cup {job[p].msg}
    BY <1>1, <1>6, DropStep DEF Abandon
  <2> QED
    BY <1>1, <1>3, <1>6, <2>1 DEF Abandon, JobStep, Idle, readerVars
<1>7. CASE Call(p)
  <2>1. /\ job[p].pc = "next" /\ UNCHANGED <<settled, dlq>>
        /\ job' = [job EXCEPT ![p].pc = IF dlq /\ MaxRetries = 0 THEN "dlq" ELSE "call"]
    BY <1>7 DEF Call, config
  <2>2. job'[p] = [pc |-> IF dlq /\ MaxRetries = 0 THEN "dlq" ELSE "call",
                   msg |-> job[p].msg, handler |-> job[p].handler,
                   attempt |-> job[p].attempt, bad |-> job[p].bad]
    BY <1>1, <2>1 DEF Jobs
  <2>3. job'[p] \in Jobs
    BY <1>1, <1>2, <2>2 DEF Jobs
  <2>4. job' \in [Procs -> Jobs] /\ \A q \in Procs \ {p} : job'[q] = job[q]
    BY <1>1, <2>1, <2>2, <2>3
  <2>5. GoodJob(job[p])'
    BY <1>1, <1>2, <2>1, <2>2, <2>3 DEF GoodJob
  <2> QED
    BY <1>1, <1>7, <2>2, <2>4, <2>5 DEF Call, JobStep, Idle, readerVars
<1>8. CASE HandlerOk(p)
  <2>1. settled' = settled \cup {<<job[p].msg, job[p].handler>>}
    BY <1>8 DEF HandlerOk, Settle
  <2>2. settled \subseteq settled' /\ settled' \subseteq Pairs
    BY <1>1, <1>4, <1>8, <2>1 DEF HandlerOk
  <2>3. /\ job' \in [Procs -> Jobs] /\ \A q \in Procs \ {p} : job'[q] = job[q]
        /\ GoodJob(job[p])'
        /\ \/ ~Idle(p)' /\ job'[p].msg = job[p].msg /\ UNCHANGED givenUp
           \/ Idle(p)' /\ givenUp' = givenUp \cup {job[p].msg}
    BY <1>1, <1>2, <1>8, <2>1, FinishStep DEF HandlerOk, config, IInv
  <2> QED
    BY <1>1, <1>8, <2>2, <2>3 DEF HandlerOk, JobStep, Idle, readerVars
<1>9. CASE HandlerFails(p)
  <2>1. /\ job' \in [Procs -> Jobs] /\ \A q \in Procs \ {p} : job'[q] = job[q]
        /\ GoodJob(job[p])'
        /\ \/ ~Idle(p)' /\ job'[p].msg = job[p].msg /\ UNCHANGED givenUp
           \/ Idle(p)' /\ givenUp' = givenUp \cup {job[p].msg}
    BY <1>1, <1>2, <1>9, FinishStep DEF HandlerFails, config, IInv
  <2> QED
    BY <1>1, <1>3, <1>9, <2>1 DEF HandlerFails, JobStep, Idle, readerVars
<1>10. CASE HandlerRetries(p)
  <2> DEFINE last == job[p].attempt + 1 = MaxRetries
  <2>1. /\ job[p].pc = "call" /\ dlq /\ UNCHANGED <<settled, dlq>>
        /\ job' = [job EXCEPT ![p].pc = IF last THEN "dlq" ELSE "next",
                              ![p].attempt = @ + 1]
    BY <1>10 DEF HandlerRetries, config
  <2>2. job'[p] = [pc |-> IF last THEN "dlq" ELSE "next",
                   msg |-> job[p].msg, handler |-> job[p].handler,
                   attempt |-> job[p].attempt + 1, bad |-> job[p].bad]
    BY <1>1, <2>1 DEF Jobs
  <2>3. job[p].attempt < MaxRetries
    BY <1>1, <2>1 DEF GoodJob
  <2>4. job'[p] \in Jobs
    BY <1>1, <1>2, <2>2, <2>3 DEF Jobs
  <2>5. job' \in [Procs -> Jobs] /\ \A q \in Procs \ {p} : job'[q] = job[q]
    BY <1>1, <2>1, <2>2, <2>4
  <2>6. GoodJob(job[p])'
    BY <1>1, <1>2, <2>1, <2>2, <2>3, <2>4 DEF GoodJob
  <2> QED
    BY <1>1, <1>10, <2>2, <2>5, <2>6 DEF HandlerRetries, JobStep, Idle, readerVars
<1>11. CASE HandlerPanics(p)
  <2>1. CASE dlq
    <3>1. /\ job[p].pc = "call" /\ UNCHANGED <<settled, dlq>>
          /\ job' = [job EXCEPT ![p].pc = "panic"]
      BY <1>11, <2>1 DEF HandlerPanics, config
    <3>2. job'[p] = [pc |-> "panic", msg |-> job[p].msg, handler |-> job[p].handler,
                     attempt |-> job[p].attempt, bad |-> job[p].bad]
      BY <1>1, <3>1 DEF Jobs
    <3>3. job'[p] \in Jobs
      BY <1>1, <1>2, <3>2 DEF Jobs
    <3>4. job' \in [Procs -> Jobs] /\ \A q \in Procs \ {p} : job'[q] = job[q]
      BY <1>1, <3>1, <3>2, <3>3
    <3>5. GoodJob(job[p])'
      BY <1>1, <1>2, <3>1, <3>2, <3>3 DEF GoodJob
    <3> QED
      BY <1>1, <1>11, <2>1, <3>2, <3>4, <3>5 DEF HandlerPanics, JobStep, Idle, readerVars
  <2>2. CASE ~dlq
    <3>1. /\ job' \in [Procs -> Jobs] /\ \A q \in Procs \ {p} : job'[q] = job[q]
          /\ GoodJob(job[p])' /\ Idle(p)' /\ givenUp' = givenUp \cup {job[p].msg}
      BY <1>1, <1>11, <2>2, DropStep DEF HandlerPanics
    <3> QED
      BY <1>1, <1>3, <1>11, <2>2, <3>1 DEF HandlerPanics, JobStep, Idle, readerVars
  <2> QED
    BY <2>1, <2>2
<1>12. CASE SentToDLQ(p)
  <2>1. settled' = settled \cup {<<job[p].msg, job[p].handler>>}
    BY <1>12 DEF SentToDLQ, Settle
  <2>2. settled \subseteq settled' /\ settled' \subseteq Pairs
    BY <1>1, <1>4, <1>12, <2>1 DEF SentToDLQ
  <2>3. /\ job' \in [Procs -> Jobs] /\ \A q \in Procs \ {p} : job'[q] = job[q]
        /\ GoodJob(job[p])'
        /\ \/ ~Idle(p)' /\ job'[p].msg = job[p].msg /\ UNCHANGED givenUp
           \/ Idle(p)' /\ givenUp' = givenUp \cup {job[p].msg}
    BY <1>1, <1>2, <1>12, <2>1, FinishStep DEF SentToDLQ, config, IInv
  <2> QED
    BY <1>1, <1>12, <2>2, <2>3 DEF SentToDLQ, JobStep, Idle, readerVars
<1>13. CASE DLQFails(p)
  <2>1. /\ job' \in [Procs -> Jobs] /\ \A q \in Procs \ {p} : job'[q] = job[q]
        /\ GoodJob(job[p])'
        /\ \/ ~Idle(p)' /\ job'[p].msg = job[p].msg /\ UNCHANGED givenUp
           \/ Idle(p)' /\ givenUp' = givenUp \cup {job[p].msg}
    BY <1>1, <1>2, <1>13, FinishStep DEF DLQFails, config, IInv
  <2> QED
    BY <1>1, <1>3, <1>4, <1>13, <2>1 DEF DLQFails, JobStep, Idle, readerVars
<1>14. CASE PanicHandled(p)
  <2>1. /\ job' \in [Procs -> Jobs] /\ \A q \in Procs \ {p} : job'[q] = job[q]
        /\ GoodJob(job[p])' /\ Idle(p)' /\ givenUp' = givenUp \cup {job[p].msg}
    BY <1>1, <1>14, DropStep DEF PanicHandled
  <2>2. /\ settled \subseteq settled' /\ settled' \subseteq Pairs /\ dlqFailed' \subseteq Offsets
    BY <1>1, <1>4, <1>14 DEF PanicHandled, Settle
  <2> QED
    BY <1>1, <1>3, <1>14, <2>1, <2>2 DEF PanicHandled, JobStep, Idle, readerVars
<1>15. CASE Commit(p)
  <2>1. NoJob \in Jobs
    BY KafkaAssumption DEF NoJob, Jobs
  <2>2. job' = [job EXCEPT ![p] = NoJob]
    BY <1>15 DEF Commit
  <2>3. job' \in [Procs -> Jobs] /\ job'[p] = NoJob /\ \A q \in Procs \ {p} : job'[q] = job[q]
    BY <1>1, <2>1, <2>2
  <2>4. GoodJob(job[p])' /\ Idle(p)'
    BY <2>1, <2>3 DEF GoodJob, NoJob, Idle
  <2>5. AllSettled(job[p].msg)
    BY <1>1, <1>15 DEF GoodJob, Commit
  <2> QED
    BY <1>1, <1>15, <2>3, <2>4, <2>5 DEF Commit, JobStep, Idle
<1>16. CASE CommitFails(p)
  <2>1. /\ job' \in [Procs -> Jobs] /\ \A q \in Procs \ {p} : job'[q] = job[q]
        /\ GoodJob(job[p])' /\ Idle(p)' /\ givenUp' = givenUp \cup {job[p].msg}
    BY <1>1, <1>16, DropStep DEF CommitFails
  <2> QED
    BY <1>1, <1>3, <1>16, <2>1 DEF CommitFails, JobStep, Idle, readerVars
<1> QED
  BY <1>5, <1>6, <1>7, <1>8, <1>9, <1>10, <1>11, <1>12, <1>13, <1>14, <1>15, <1>16 DEF ProcNext
-----------------------------------------------------------------------------
(* A job that is left alone stays good, as settled only grows.             *)
LEMMA StaysGood ==
    ASSUME NEW q \in Procs, GoodJob(job[q]), job'[q] = job[q],
           settled \subseteq settled', UNCHANGED dlq
    PROVE  GoodJob(job[q])'
<1>1. AllSettled(job[q].msg) => AllSettled(job[q].msg)'
  BY DEF AllSettled
<1> QED
  BY <1>1 DEF GoodJob

LEMMA JobsKept ==
    ASSUME JobsInv, UNCHANGED <<job, dlq, settled>>
    PROVE  JobsInv'
BY StaysGood DEF JobsInv

(* What Take and Fetch do: an idle goroutine begins a message.             *)
LEMMA BeginStep ==
    ASSUME NEW p \in Procs, NEW m \in Offsets, JobsInv, Begin(p, m),
           UNCHANGED <<dlq, settled>>
    PROVE  /\ JobsInv' /\ \A q \in Procs \ {p} : job'[q] = job[q]
           /\ ~Idle(p)' /\ job'[p].msg = m
<1>1. /\ Handlers[m] \in Nat \ {0} /\ MaxRetries \in Nat /\ m \in 0 .. N
      /\ job \in [Procs -> Jobs]
  BY KafkaAssumption DEF Offsets, JobsInv
<1> DEFINE j == [pc |-> "next", msg |-> m, handler |-> 1, attempt |-> 0, bad |-> FALSE]
<1>2. job' = [job EXCEPT ![p] = j]
  BY DEF Begin
<1>3. j \in Jobs
  BY <1>1 DEF Jobs
<1>4. job'[p] = j /\ job' \in [Procs -> Jobs] /\ \A q \in Procs \ {p} : job'[q] = job[q]
  BY <1>1, <1>2, <1>3
<1>5. GoodJob(job[p])'
  BY <1>1, <1>3, <1>4 DEF GoodJob
<1>6. \A q \in Procs : GoodJob(job[q])'
  BY <1>4, <1>5, StaysGood DEF JobsInv
<1> QED
  BY <1>4, <1>6 DEF JobsInv, Idle

(* A Close that did not give up excludes every goroutine's step.           *)
LEMMA ProcKeeps ==
    ASSUME IInv, NEW p \in Procs, JobStep(p)
    PROVE  IInv'
<1>1. Types /\ JobsInv /\ LoopInv /\ CloseWaits /\ PanicsOnlyAfterTimeout
  BY DEF IInv
<1>2. /\ job[p] \in Jobs /\ job[p].msg \in Offsets /\ N \in Nat
      /\ job' \in [Procs -> Jobs]
      /\ \A q \in Procs \ {p} : job'[q] = job[q]
  BY <1>1, KafkaAssumption DEF JobStep, JobsInv, GoodJob, Idle
<1>3. job[p].msg \in Nat /\ job[p].msg <= N /\ stash \in Nat /\ stash <= N
  BY <1>1, <1>2 DEF Types, Offsets
<1>4. Max({stash, job[p].msg}) = IF stash >= job[p].msg THEN stash ELSE job[p].msg
  BY <1>3, MaxOfTwo
<1>5. stash' \in 0 .. N /\ givenUp' \subseteq Offsets /\ givenUp \subseteq givenUp'
  BY <1>1, <1>2, <1>3, <1>4 DEF JobStep, Types
<1>6. Types'
  BY <1>1, <1>5 DEF Types, JobStep, config, lifeVars
<1>7. JobsInv'
  BY <1>1, <1>2, StaysGood DEF JobsInv, JobStep, config
<1>8. closing # "done" \/ timedOut
  BY <1>1 DEF CloseWaits, Joined, JobStep
<1>9. CloseWaits' /\ PanicsOnlyAfterTimeout'
  BY <1>8 DEF CloseWaits, PanicsOnlyAfterTimeout, JobStep, lifeVars
<1>10. LoopInv'
  <2> SUFFICES ASSUME mode' = "loop"
               PROVE  LoopInv'
    BY DEF LoopInv
  <2>1. mode = "loop" /\ UNCHANGED <<queue, fetcher, committed, position>>
    BY DEF JobStep, config
  <2>2. p = Loop /\ ~Idle(Loop) /\ queue = <<>> /\ position = job[Loop].msg + 1
        /\ \A w \in Workers : Idle(w)
    BY <1>1, <2>1 DEF LoopInv, JobStep, Procs
  <2>3. \A w \in Workers : Idle(w)'
    BY <1>2, <2>2, KafkaAssumption DEF Idle, Procs
  <2>4. \A m \in Offsets : Passed(m) => Passed(m)'
    BY <1>5 DEF Passed, AllSettled, JobStep
  <2>5. fetcher # "fetching"
    BY <1>1, <2>1, <2>2 DEF LoopInv
  <2>6. \A m \in Offsets : (m < committed \/ m <= stash) => Passed(m)
    BY <1>1, <2>1 DEF LoopInv
  <2>7. \A m \in Offsets : m < position => Passed(m) \/ job[Loop].msg = m
    BY <1>1, <2>1 DEF LoopInv
  <2>8. committed <= position /\ stash < position
    BY <1>1, <2>1 DEF LoopInv
  <2>9. CASE ~Idle(p)' /\ job'[p].msg = job[p].msg /\ UNCHANGED <<givenUp, stash>>
    BY <2>1, <2>2, <2>3, <2>4, <2>5, <2>6, <2>7, <2>8, <2>9 DEF LoopInv
  <2>10. CASE Idle(p)' /\ givenUp' = givenUp \cup {job[p].msg} /\ UNCHANGED stash
    <3>1. \A m \in Offsets : job[Loop].msg = m => Passed(m)'
      BY <2>2, <2>10 DEF Passed
    <3>2. \A m \in Offsets : m < position => Passed(m)'
      BY <2>4, <2>7, <3>1
    <3>3. \A m \in Offsets : (m < committed \/ m <= stash) => Passed(m)'
      BY <2>4, <2>6
    <3> QED
      BY <2>1, <2>2, <2>3, <2>5, <2>8, <2>10, <3>2, <3>3 DEF LoopInv
  <2>11. CASE /\ Idle(p)' /\ AllSettled(job[p].msg)
              /\ UNCHANGED givenUp /\ stash' = Max({stash, job[p].msg})
    <3>1. Passed(job[Loop].msg)
      BY <2>2, <2>11 DEF Passed
    <3>2. \A m \in Offsets : m < position => Passed(m)'
      BY <2>4, <2>7, <3>1
    <3>3. stash' < position
      BY <1>3, <1>4, <2>2, <2>8, <2>11
    <3>4. committed \in Nat /\ position \in Nat /\ stash' \in Nat /\ Offsets \subseteq Nat
      BY <1>1, <1>2, <1>5 DEF Types, Offsets
    <3>5. \A m \in Offsets : (m < committed \/ m <= stash') => m < position
      BY <2>8, <3>3, <3>4
    <3> QED
      BY <2>1, <2>2, <2>3, <2>5, <2>8, <2>11, <3>2, <3>3, <3>5 DEF LoopInv
  <2> QED
    BY <2>9, <2>10, <2>11 DEF JobStep
<1> QED
  BY <1>6, <1>7, <1>9, <1>10 DEF IInv
-----------------------------------------------------------------------------
LEMMA InitIInv == Init => IInv
<1> SUFFICES ASSUME Init
             PROVE  IInv
  OBVIOUS
<1>1. N \in Nat \ {0} /\ MaxRetries \in Nat /\ MaxStarts \in Nat /\ MaxCrashes \in Nat
  BY KafkaAssumption
<1>2. Types
  <2>1. <<>> \in Seq(Offsets)
    OBVIOUS
  <2>2. queue \in Seq(Offsets)
    BY <2>1 DEF Init
  <2>3. /\ committed \in 1 .. N + 1 /\ position \in 1 .. N + 1 /\ stash \in 0 .. N
        /\ starts \in 0 .. MaxStarts /\ crashes \in 0 .. MaxCrashes
    BY <1>1 DEF Init
  <2> QED
    BY <2>2, <2>3 DEF Init, Types
<1>3. NoJob \in Jobs
  BY <1>1 DEF NoJob, Jobs
<1>4. \A p \in Procs : job[p] = NoJob
  BY DEF Init
<1>5. JobsInv
  BY <1>3, <1>4 DEF Init, JobsInv, GoodJob, NoJob
<1>6. LoopInv
  BY <1>1, <1>4 DEF Init, LoopInv, Idle, NoJob, Procs, Offsets
<1>7. CloseWaits /\ PanicsOnlyAfterTimeout
  BY DEF Init, CloseWaits, PanicsOnlyAfterTimeout
<1> QED
  BY <1>2, <1>5, <1>6, <1>7 DEF IInv

LEMMA StepIInv ==
    ASSUME IInv, [Next]_vars
    PROVE  IInv'
<1>1. Types /\ JobsInv /\ LoopInv /\ CloseWaits /\ PanicsOnlyAfterTimeout
  BY DEF IInv
<1>2. N \in Nat \ {0} /\ MaxRetries \in Nat /\ MaxStarts \in Nat /\ MaxCrashes \in Nat
  BY KafkaAssumption
<1>3. Loop \in Procs /\ Workers \subseteq Procs
  BY DEF Procs
<1>4. closing = "done" /\ ~timedOut =>
          fetcher = "off" /\ queue = <<>> /\ \A p \in Procs : Idle(p)
  BY <1>1 DEF CloseWaits, Joined
<1>5. CASE Consume
  <2>1. Types'
    <3>1. starts' \in 0 .. MaxStarts
      BY <1>1, <1>2, <1>5 DEF Consume, Types
    <3> QED
      BY <1>1, <1>5, <3>1 DEF Consume, Types, config, readerVars
  <2>2. JobsInv'
    BY <1>1, <1>5, JobsKept DEF Consume, config
  <2>3. LoopInv'
    BY <1>1, <1>2, <1>5 DEF Consume, LoopInv, Types, Idle, Passed, AllSettled, Offsets, config, readerVars
  <2>4. CloseWaits' /\ PanicsOnlyAfterTimeout'
    BY <1>1, <1>4, <1>5 DEF Consume, CloseWaits, PanicsOnlyAfterTimeout, Joined, Idle, Types, lifeVars
  <2> QED
    BY <2>1, <2>2, <2>3, <2>4 DEF IInv
<1>6. CASE Cancel
  <2>1. Types'
    BY <1>1, <1>2, <1>6 DEF Cancel, Types, config, readerVars, lifeVars
  <2>2. JobsInv'
    BY <1>1, <1>6, JobsKept DEF Cancel, config
  <2>3. LoopInv'
    BY <1>1, <1>2, <1>6 DEF Cancel, LoopInv, Types, Idle, Passed, AllSettled, Offsets, config, readerVars
  <2>4. CloseWaits' /\ PanicsOnlyAfterTimeout'
    BY <1>1, <1>4, <1>6 DEF Cancel, CloseWaits, PanicsOnlyAfterTimeout, Joined, Idle, Types, lifeVars
  <2> QED
    BY <2>1, <2>2, <2>3, <2>4 DEF IInv
<1>7. CASE FetchTop
  <2>1. Types'
    BY <1>1, <1>2, <1>7 DEF FetchTop, Types, config, readerVars, lifeVars
  <2>2. JobsInv'
    BY <1>1, <1>7, JobsKept DEF FetchTop, config
  <2>3. LoopInv'
    BY <1>1, <1>2, <1>7 DEF FetchTop, LoopInv, Types, Idle, Passed, AllSettled, Offsets, config, readerVars
  <2>4. CloseWaits' /\ PanicsOnlyAfterTimeout'
    BY <1>1, <1>4, <1>7 DEF FetchTop, CloseWaits, PanicsOnlyAfterTimeout, Joined, Idle, Types, lifeVars
  <2> QED
    BY <2>1, <2>2, <2>3, <2>4 DEF IInv
<1>8. CASE Fetch
  <2>1. /\ fetcher = "fetching" /\ fetcher' = "top" /\ closing # "done"
        /\ position \in Offsets /\ position' = position + 1
        /\ UNCHANGED <<config, committed, stash, lifeVars, process, settled, givenUp, dlqFailed>>
    BY <1>1, <1>2, <1>8 DEF Fetch, ReaderOpen, Types, Offsets
  <2>2. CloseWaits' /\ PanicsOnlyAfterTimeout'
    BY <1>1, <2>1 DEF CloseWaits, PanicsOnlyAfterTimeout, lifeVars
  <2>3. CASE mode = "loop"
    <3>1. Begin(Loop, position) /\ UNCHANGED queue
      BY <1>8, <2>3 DEF Fetch
    <3>2. /\ JobsInv' /\ \A q \in Procs \ {Loop} : job'[q] = job[q]
          /\ ~Idle(Loop)' /\ job'[Loop].msg = position
      BY <1>1, <1>3, <2>1, <3>1, BeginStep DEF config
    <3>3. Types'
      BY <1>1, <1>2, <2>1, <3>1 DEF Types, Offsets, config, lifeVars
    <3>4. Idle(Loop) /\ queue = <<>> /\ \A w \in Workers : Idle(w)
      BY <1>1, <2>1, <2>3 DEF LoopInv
    <3>5. \A w \in Workers : Idle(w)'
      BY <1>3, <3>2, <3>4, KafkaAssumption DEF Idle
    <3>6. /\ committed <= position /\ stash < position
          /\ \A m \in Offsets : m < committed \/ m <= stash => Passed(m)
          /\ \A m \in Offsets : m < position => Passed(m)
      BY <1>1, <2>3, <3>4 DEF LoopInv
    <3>7. \A m \in Offsets : Passed(m) => Passed(m)'
      BY <2>1 DEF Passed, AllSettled
    <3>8. committed \in Nat /\ position \in Nat /\ stash \in Nat /\ Offsets \subseteq Nat
      BY <1>1, <1>2 DEF Types, Offsets
    <3>9. \A m \in Offsets : m < position' => m < position \/ m = position
      BY <2>1, <3>8
    <3>10. committed' <= position' /\ stash' < position'
      BY <2>1, <3>6, <3>8
    <3>11. \A m \in Offsets : (m < committed' \/ m <= stash') => Passed(m)'
      BY <2>1, <3>6, <3>7
    <3>12. \A m \in Offsets : m < position' => Passed(m)' \/ (~Idle(Loop)' /\ job'[Loop].msg = m)
      BY <3>2, <3>6, <3>7, <3>9
    <3>13. LoopInv'
      BY <2>1, <3>1, <3>2, <3>4, <3>5, <3>10, <3>11, <3>12 DEF LoopInv
    <3> QED
      BY <2>2, <3>2, <3>3, <3>13 DEF IInv
  <2>4. CASE mode # "loop"
    <3>1. queue' = Append(queue, position) /\ UNCHANGED job
      BY <1>8, <2>4 DEF Fetch
    <3>2. Types'
      BY <1>1, <1>2, <2>1, <3>1 DEF Types, Offsets, config, lifeVars
    <3>3. JobsInv'
      BY <1>1, <2>1, <3>1, JobsKept DEF config
    <3>4. LoopInv'
      BY <2>1, <2>4 DEF LoopInv, config
    <3> QED
      BY <2>2, <3>2, <3>3, <3>4 DEF IInv
  <2> QED
    BY <2>3, <2>4
<1>9. CASE FetchFails
  <2>1. Types'
    BY <1>1, <1>2, <1>9 DEF FetchFails, Types, config, readerVars, lifeVars, SendError
  <2>2. JobsInv'
    BY <1>1, <1>9, JobsKept DEF FetchFails, config
  <2>3. LoopInv'
    BY <1>1, <1>2, <1>9 DEF FetchFails, LoopInv, Types, Idle, Passed, AllSettled, Offsets, config, readerVars
  <2>4. CloseWaits' /\ PanicsOnlyAfterTimeout'
    BY <1>1, <1>4, <1>9 DEF FetchFails, CloseWaits, PanicsOnlyAfterTimeout, Joined, Idle, Types, lifeVars, SendError, ReaderOpen
  <2> QED
    BY <2>1, <2>2, <2>3, <2>4 DEF IInv
<1>10. ASSUME NEW w \in Workers, Take(w)
      PROVE  IInv'
  <2>1. /\ Begin(w, Head(queue)) /\ queue' = Tail(queue) /\ queue # <<>> /\ Idle(w)
        /\ UNCHANGED <<config, readerVars, lifeVars, fetcher, process, settled, givenUp, dlqFailed>>
    BY <1>10 DEF Take
  <2>2. queue \in Seq(Offsets)
    BY <1>1 DEF Types
  <2>3. Head(queue) \in Offsets /\ queue' \in Seq(Offsets)
    BY <2>1, <2>2
  <2>4. Types'
    BY <1>1, <2>1, <2>3 DEF Types, config, readerVars, lifeVars
  <2>5. JobsInv'
    BY <1>1, <1>3, <2>1, <2>3, BeginStep DEF config
  <2>6. LoopInv'
    BY <1>1, <2>1 DEF LoopInv, config
  <2>7. CloseWaits' /\ PanicsOnlyAfterTimeout'
    BY <1>1, <1>4, <2>1 DEF CloseWaits, PanicsOnlyAfterTimeout, lifeVars
  <2> QED
    BY <2>4, <2>5, <2>6, <2>7 DEF IInv
<1>11. CASE LeaveQueue
  <2>1. queue \in Seq(Offsets) /\ queue # <<>> /\ queue' = <<>>
    BY <1>1, <1>11 DEF LeaveQueue, Types
  <2>2. ToSet(queue) \subseteq Offsets
    BY <2>1 DEF ToSet
  <2>3. Types'
    BY <1>1, <1>11, <2>1, <2>2 DEF LeaveQueue, Types, config, readerVars, lifeVars
  <2>4. JobsInv'
    BY <1>1, <1>11, JobsKept DEF LeaveQueue, config
  <2>5. LoopInv'
    BY <1>1, <1>11, <2>1 DEF LeaveQueue, LoopInv, config
  <2>6. CloseWaits' /\ PanicsOnlyAfterTimeout'
    BY <1>1, <1>4, <1>11 DEF LeaveQueue, CloseWaits, PanicsOnlyAfterTimeout, lifeVars
  <2> QED
    BY <2>3, <2>4, <2>5, <2>6 DEF IInv
<1>12. ASSUME NEW p \in Procs, ProcNext(p)
      PROVE  IInv'
  BY <1>12, ProcStep, ProcKeeps
<1>13. CASE Flush
  <2>1. Types'
    BY <1>1, <1>2, <1>13 DEF Flush, Types, config, readerVars, lifeVars
  <2>2. JobsInv'
    BY <1>1, <1>13, JobsKept DEF Flush, config
  <2>3. LoopInv'
    BY <1>1, <1>2, <1>13 DEF Flush, LoopInv, Types, Idle, Passed, AllSettled, Offsets, config, readerVars
  <2>4. CloseWaits' /\ PanicsOnlyAfterTimeout'
    BY <1>1, <1>4, <1>13 DEF Flush, CloseWaits, PanicsOnlyAfterTimeout, Joined, Idle, Types, lifeVars
  <2> QED
    BY <2>1, <2>2, <2>3, <2>4 DEF IInv
<1>14. CASE CloseStart
  <2>1. Types'
    BY <1>1, <1>2, <1>14 DEF CloseStart, Types, config, readerVars, lifeVars
  <2>2. JobsInv'
    BY <1>1, <1>14, JobsKept DEF CloseStart, config
  <2>3. LoopInv'
    BY <1>1, <1>2, <1>14 DEF CloseStart, LoopInv, Types, Idle, Passed, AllSettled, Offsets, config, readerVars
  <2>4. CloseWaits' /\ PanicsOnlyAfterTimeout'
    BY <1>1, <1>4, <1>14 DEF CloseStart, CloseWaits, PanicsOnlyAfterTimeout, Joined, Idle, Types, lifeVars
  <2> QED
    BY <2>1, <2>2, <2>3, <2>4 DEF IInv
<1>15. CASE CloseReader
  <2>1. Types'
    BY <1>1, <1>2, <1>15 DEF CloseReader, Types, config, readerVars, lifeVars
  <2>2. JobsInv'
    BY <1>1, <1>15, JobsKept DEF CloseReader, config
  <2>3. LoopInv'
    BY <1>1, <1>2, <1>15 DEF CloseReader, LoopInv, Types, Idle, Passed, AllSettled, Offsets, config, readerVars
  <2>4. CloseWaits' /\ PanicsOnlyAfterTimeout'
    BY <1>1, <1>4, <1>15 DEF CloseReader, CloseWaits, PanicsOnlyAfterTimeout, Joined, Idle, Types, lifeVars
  <2> QED
    BY <2>1, <2>2, <2>3, <2>4 DEF IInv
<1>16. CASE CloseJoined
  <2>1. Types'
    BY <1>1, <1>2, <1>16 DEF CloseJoined, Types, config, readerVars, lifeVars
  <2>2. JobsInv'
    BY <1>1, <1>16, JobsKept DEF CloseJoined, config
  <2>3. LoopInv'
    BY <1>1, <1>2, <1>16 DEF CloseJoined, LoopInv, Types, Idle, Passed, AllSettled, Offsets, config, readerVars
  <2>4. CloseWaits' /\ PanicsOnlyAfterTimeout'
    BY <1>1, <1>4, <1>16 DEF CloseJoined, CloseWaits, PanicsOnlyAfterTimeout, Joined, Idle, Types, lifeVars
  <2> QED
    BY <2>1, <2>2, <2>3, <2>4 DEF IInv
<1>17. CASE CloseTimeout
  <2>1. Types'
    BY <1>1, <1>2, <1>17 DEF CloseTimeout, Types, config, readerVars, lifeVars
  <2>2. JobsInv'
    BY <1>1, <1>17, JobsKept DEF CloseTimeout, config
  <2>3. LoopInv'
    BY <1>1, <1>2, <1>17 DEF CloseTimeout, LoopInv, Types, Idle, Passed, AllSettled, Offsets, config, readerVars
  <2>4. CloseWaits' /\ PanicsOnlyAfterTimeout'
    BY <1>1, <1>4, <1>17 DEF CloseTimeout, CloseWaits, PanicsOnlyAfterTimeout, Joined, Idle, Types, lifeVars
  <2> QED
    BY <2>1, <2>2, <2>3, <2>4 DEF IInv
<1>18. CASE Crash
  <2>1. /\ position' = committed /\ stash' = 0 /\ fetcher' = "off" /\ queue' = <<>>
        /\ job' = [p \in Procs |-> NoJob]
        /\ closing' = "no" /\ givenUp' = {m \in givenUp : m < committed}
        /\ process = "up"
        /\ UNCHANGED <<config, committed, process, starts, settled, dlqFailed>>
    BY <1>18 DEF Crash
  <2>2. Types'
    <3>1. crashes' \in 0 .. MaxCrashes
      BY <1>1, <1>2, <1>18 DEF Crash, Types
    <3>2. <<>> \in Seq(Offsets)
      OBVIOUS
    <3>3. queue' \in Seq(Offsets)
      BY <2>1, <3>2
    <3>4. position' \in 1 .. N + 1 /\ stash' \in 0 .. N /\ givenUp' \subseteq Offsets
      BY <1>1, <1>2, <2>1 DEF Types
    <3> QED
      BY <1>1, <1>18, <3>1, <3>3, <3>4 DEF Crash, Types, config
  <2>3. NoJob \in Jobs
    BY <1>2 DEF NoJob, Jobs
  <2>4. \A p \in Procs : job'[p] = NoJob /\ Idle(p)'
    BY <2>1 DEF Idle, NoJob
  <2>5. JobsInv'
    BY <2>1, <2>3, <2>4 DEF JobsInv, GoodJob, NoJob
  <2>6. LoopInv'
    <3> SUFFICES ASSUME mode' = "loop"
                 PROVE  LoopInv'
      BY DEF LoopInv
    <3>1. \A m \in Offsets : m < committed => Passed(m)
      BY <1>1, <2>1 DEF LoopInv, config
    <3>2. \A m \in Offsets : m < committed => Passed(m)'
      BY <2>1, <3>1 DEF Passed, AllSettled
    <3>3. committed \in Nat \ {0} /\ Offsets \subseteq Nat \ {0}
      BY <1>1, <1>2 DEF Types, Offsets
    <3>4. \A m \in Offsets : ~(m <= stash')
      BY <2>1, <3>3
    <3> QED
      BY <1>3, <2>1, <2>4, <3>2, <3>3, <3>4 DEF LoopInv
  <2>7. CloseWaits' /\ PanicsOnlyAfterTimeout'
    BY <2>1 DEF CloseWaits, PanicsOnlyAfterTimeout
  <2> QED
    BY <2>2, <2>5, <2>6, <2>7 DEF IInv
<1>19. CASE UNCHANGED vars
  <2>1. Types' /\ LoopInv' /\ CloseWaits' /\ PanicsOnlyAfterTimeout'
    BY <1>1, <1>19 DEF Types, LoopInv, CloseWaits, PanicsOnlyAfterTimeout, Joined, Idle, Passed,
        AllSettled, vars, config, readerVars, lifeVars
  <2>2. JobsInv'
    BY <1>1, <1>19, JobsKept DEF vars, config
  <2> QED
    BY <2>1, <2>2 DEF IInv
<1> QED
  BY <1>5, <1>6, <1>7, <1>8, <1>9, <1>10, <1>11, <1>12, <1>13, <1>14, <1>15, <1>16, <1>17, <1>18, <1>19 DEF Next
-----------------------------------------------------------------------------
THEOREM IInvInvariant == Spec => []IInv
<1>1. IInv /\ [Next]_vars => IInv'
  BY StepIInv
<1> QED
  BY InitIInv, <1>1, PTL DEF Spec

(* Every state has its type: every goroutine's job is a pair of a message  *)
(* and one of its handlers, its retries are bounded by MaxRetries, and the *)
(* reader's offsets stay in the partition (new_consumer.go:174-286).       *)
THEOREM TypeCorrect == Spec => []TypeOK
<1>1. IInv => TypeOK
  <2> SUFFICES ASSUME IInv
               PROVE  TypeOK
    OBVIOUS
  <2>1. \A p \in Procs : job[p].pc # "idle" => <<job[p].msg, job[p].handler>> \in Pairs
    BY DEF IInv, JobsInv, GoodJob, Pairs
  <2> QED
    BY <2>1 DEF IInv, Types, JobsInv, Jobs, TypeOK
<1> QED
  BY IInvInvariant, <1>1, PTL

(* A goroutine that is about to commit a message has seen each of its      *)
(* handlers succeed or be dead-lettered, whatever the retries, the panics  *)
(* and the other goroutines did (new_consumer.go:396-469).                 *)
THEOREM CommitCorrect == Spec => []CommitsOnlySettled
<1>1. IInv => CommitsOnlySettled
  BY DEF IInv, JobsInv, GoodJob, CommitsOnlySettled
<1> QED
  BY IInvInvariant, <1>1, PTL

(* In the single-goroutine mode the group's offset passes no message that  *)
(* is merely in progress, through crashes, restarts and Close              *)
(* (new_consumer.go:269-286, 217-246).                                     *)
THEOREM SkipCorrect == Spec => []SkipsOnlyGivenUp
<1>1. IInv => SkipsOnlyGivenUp
  BY DEF IInv, LoopInv, Passed, SkipsOnlyGivenUp
<1> QED
  BY IInvInvariant, <1>1, PTL

(* Only a Close that gave up waiting makes a send on the closed errorCh    *)
(* possible (new_consumer.go:217-261).                                     *)
THEOREM PanicCorrect == Spec => []PanicsOnlyAfterTimeout
<1>1. IInv => PanicsOnlyAfterTimeout
  BY DEF IInv
<1> QED
  BY IInvInvariant, <1>1, PTL

(* A Close that did not give up leaves no goroutine and no message behind, *)
(* for ever: nothing can start afterwards (new_consumer.go:217-252).       *)
THEOREM CloseCorrect == Spec => []CloseWaits
<1>1. IInv => CloseWaits
  BY DEF IInv
<1> QED
  BY IInvInvariant, <1>1, PTL
=============================================================================
