--------------------------- MODULE KafkaConsumer ---------------------------
(***************************************************************************)
(* pkg/messaging/kafka: the consumer of one partition.  Consume runs one   *)
(* goroutine that fetches and processes; ConsumeWithWorkerPool runs a      *)
(* fetcher that feeds workers.  A message goes through its handlers, each  *)
(* retried and then dead-lettered when the DLQ is enabled, and is          *)
(* committed when all of them are satisfied.  Close waits for the          *)
(* goroutines, but not for ever, and then closes the error channel.        *)
(*                                                                         *)
(* kafka-go is outside: its Reader has a position of its own, and a commit *)
(* of offset m, flushed at once or after CommitInterval, makes m + 1 the   *)
(* group's offset, whatever was committed before.  The process may die at  *)
(* any moment and start again from the group's offset.                     *)
(***************************************************************************)
EXTENDS Integers, Sequences, SequencesExt, FiniteSetsExt

CONSTANTS
    N,           \* bound: messages in the partition, offsets 1 to N
    Handlers,    \* for each message: how many handlers its event type has
    MaxRetries,  \* dlqConfig.MaxRetries
    Workers,     \* the goroutines of the worker pool
    Loop,        \* the goroutine of Consume
    MaxStarts,   \* bound: calls of Consume or ConsumeWithWorkerPool
    MaxCrashes   \* bound: times the process dies

ASSUME KafkaAssumption ==
    /\ N \in Nat \ {0}
    /\ Handlers \in [1 .. N -> Nat \ {0}]
    /\ {MaxRetries, MaxStarts, MaxCrashes} \subseteq Nat
    /\ Workers # {} /\ Loop \notin Workers

Offsets == 1 .. N
Pairs == UNION {{m} \X (1 .. Handlers[m]) : m \in Offsets}
Procs == Workers \cup {Loop}

VARIABLES
    mode,      \* "loop": Consume; "pool": ConsumeWithWorkerPool
    dlq,       \* dlqConfig.Enabled
    committed, \* the group's offset: where a new reader starts
    position,  \* where the reader is
    stash,     \* the highest offset given to CommitMessages and not flushed
    fetcher,   \* where the goroutine that fetches is
    queue,     \* messageCh with what the fetcher holds
    job,       \* for each goroutine: the message it processes, and where
    ctxDone,   \* is the context given to Consume done?
    closing,   \* where Close is; consumer.closed is closing # "no"
    timedOut,  \* did Close give up waiting?
    process,   \* is the process up, or dead of a send on errorCh?
    settled,   \* pairs <<m, h>>: handler h succeeded on m, or m went to the DLQ
    givenUp,   \* messages whose processing ended without a commit
    dlqFailed, \* messages that could not be sent to the DLQ
    starts,
    crashes

config == <<mode, dlq>>
readerVars == <<committed, position, stash>>
lifeVars == <<ctxDone, closing, timedOut, starts, crashes>>
vars == <<config, readerVars, lifeVars, fetcher, queue, job, process, settled,
          givenUp, dlqFailed>>

NoJob == [pc |-> "idle", msg |-> 0, handler |-> 0, attempt |-> 0, bad |-> FALSE]

TypeOK ==
    /\ mode \in {"loop", "pool"} /\ dlq \in BOOLEAN
    /\ committed \in 1 .. N + 1
    /\ position \in 1 .. N + 1
    /\ stash \in 0 .. N
    /\ fetcher \in {"off", "top", "fetching"}
    /\ queue \in Seq(Offsets)
    /\ job \in [Procs -> [pc : {"idle", "next", "call", "dlq", "panic", "commit"},
                          msg : 0 .. N, handler : Nat, attempt : 0 .. MaxRetries,
                          bad : BOOLEAN]]
    /\ \A p \in Procs :
           job[p].pc # "idle" => <<job[p].msg, job[p].handler>> \in Pairs
    /\ ctxDone \in BOOLEAN
    /\ closing \in {"no", "reader", "waiting", "done"}
    /\ timedOut \in BOOLEAN
    /\ process \in {"up", "panicked"}
    /\ settled \subseteq Pairs
    /\ givenUp \subseteq Offsets /\ dlqFailed \subseteq Offsets
    /\ starts \in 0 .. MaxStarts /\ crashes \in 0 .. MaxCrashes

Init ==
    /\ mode \in {"loop", "pool"} /\ dlq \in BOOLEAN
    /\ committed = 1 /\ position = 1 /\ stash = 0
    /\ fetcher = "off" /\ queue = <<>>
    /\ job = [p \in Procs |-> NoJob]
    /\ ctxDone = FALSE
    /\ closing = "no" /\ timedOut = FALSE
    /\ process = "up"
    /\ settled = {} /\ givenUp = {} /\ dlqFailed = {}
    /\ starts = 0 /\ crashes = 0
-----------------------------------------------------------------------------
Idle(p) == job[p].pc = "idle"

(* Every goroutine counted by consumer.wg has called Done.                 *)
Joined == fetcher = "off" /\ queue = <<>> /\ \A p \in Procs : Idle(p)

(* sendError never blocks, but a send on the closed errorCh panics, and    *)
(* nothing recovers that panic.                                            *)
SendError == process' = IF closing = "done" THEN "panicked" ELSE "up"

(* The next handler of p's message, or what follows the last one.          *)
After(p, bad) ==
    LET j == job[p] IN
    IF j.handler < Handlers[j.msg]
    THEN [j EXCEPT !.pc = "next", !.handler = @ + 1, !.attempt = 0, !.bad = bad]
    ELSE IF bad THEN NoJob ELSE [j EXCEPT !.pc = "commit"]

Finish(p, bad) ==
    /\ job' = [job EXCEPT ![p] = After(p, bad)]
    /\ givenUp' = IF job'[p] = NoJob THEN givenUp \cup {job[p].msg} ELSE givenUp

Drop(p) ==
    /\ job' = [job EXCEPT ![p] = NoJob]
    /\ givenUp' = givenUp \cup {job[p].msg}

Settle(p) == settled' = settled \cup {<<job[p].msg, job[p].handler>>}
-----------------------------------------------------------------------------
(* Mistake: Consume does not look at closed.                               *)
ConsumeUnchecked ==
    /\ process = "up" /\ Joined
    /\ starts < MaxStarts
    /\ starts' = starts + 1
    /\ fetcher' = "top"
    /\ ctxDone' = FALSE
    /\ UNCHANGED <<config, readerVars, closing, timedOut, crashes, queue, job,
                   process, settled, givenUp, dlqFailed>>

(* Consume and ConsumeWithWorkerPool, with a context of their own; one at  *)
(* a time.  startMu orders the check of closed and wg.Add against Close.   *)
Consume ==
    /\ process = "up" /\ closing = "no" /\ Joined
    /\ starts < MaxStarts
    /\ starts' = starts + 1
    /\ fetcher' = "top"
    /\ ctxDone' = FALSE
    /\ UNCHANGED <<config, readerVars, closing, timedOut, crashes, queue, job,
                   process, settled, givenUp, dlqFailed>>

Cancel ==
    /\ process = "up" /\ fetcher # "off" /\ ~ctxDone
    /\ ctxDone' = TRUE
    /\ UNCHANGED <<config, readerVars, closing, timedOut, starts, crashes,
                   fetcher, queue, job, process, settled, givenUp, dlqFailed>>

Begin(p, m) ==
    job' = [job EXCEPT ![p] = [pc |-> "next", msg |-> m, handler |-> 1,
                               attempt |-> 0, bad |-> FALSE]]

(* The top of the fetching goroutine's loop; consumeLoop comes back to it  *)
(* when it has processed its message, and does not look at the context.    *)
FetchTop ==
    /\ process = "up" /\ fetcher = "top"
    /\ mode = "loop" => Idle(Loop)
    /\ fetcher' = IF closing # "no" \/ (mode = "pool" /\ ctxDone)
                  THEN "off" ELSE "fetching"
    /\ UNCHANGED <<config, readerVars, lifeVars, queue, job, process, settled,
                   givenUp, dlqFailed>>

ReaderOpen == closing \in {"no", "reader"}

(* Mistake: ReadMessage, which commits what it returns.                    *)
ReadMessage ==
    /\ process = "up" /\ fetcher = "fetching" /\ ReaderOpen
    /\ position <= N
    /\ position' = position + 1
    /\ stash' = position
    /\ fetcher' = "top"
    /\ IF mode = "loop"
       THEN Begin(Loop, position) /\ UNCHANGED queue
       ELSE /\ Len(queue) <= 2 * Cardinality(Workers)
            /\ queue' = Append(queue, position)
            /\ UNCHANGED job
    /\ UNCHANGED <<config, committed, lifeVars, process, settled, givenUp,
                   dlqFailed>>

(* reader.FetchMessage returns a message, which it may although the        *)
(* context is done or Close has begun.                                     *)
Fetch ==
    /\ process = "up" /\ fetcher = "fetching" /\ ReaderOpen
    /\ position <= N
    /\ position' = position + 1
    /\ fetcher' = "top"
    /\ IF mode = "loop"
       THEN Begin(Loop, position) /\ UNCHANGED queue
       ELSE /\ Len(queue) <= 2 * Cardinality(Workers)
            /\ queue' = Append(queue, position)
            /\ UNCHANGED job
    /\ UNCHANGED <<config, committed, stash, lifeVars, process, settled,
                   givenUp, dlqFailed>>

(* It fails: the context is done, or the reader was closed.  (Other errors *)
(* are reported, and the loop goes round.)                                 *)
FetchFails ==
    /\ process = "up" /\ fetcher = "fetching"
    /\ \/ ctxDone /\ fetcher' = "off" /\ UNCHANGED process
       \/ ~ctxDone /\ ~ReaderOpen /\ fetcher' = "top" /\ SendError
    /\ UNCHANGED <<config, readerVars, lifeVars, queue, job, settled, givenUp,
                   dlqFailed>>

Take(w) ==
    /\ process = "up" /\ Idle(w) /\ queue # <<>>
    /\ Begin(w, Head(queue))
    /\ queue' = Tail(queue)
    /\ UNCHANGED <<config, readerVars, lifeVars, fetcher, process, settled,
                   givenUp, dlqFailed>>

(* The workers saw the context done first: what is queued is left behind.  *)
LeaveQueue ==
    /\ process = "up" /\ fetcher = "off" /\ ctxDone /\ queue # <<>>
    /\ givenUp' = givenUp \cup ToSet(queue)
    /\ queue' = <<>>
    /\ UNCHANGED <<config, readerVars, lifeVars, fetcher, job, process, settled,
                   dlqFailed>>
-----------------------------------------------------------------------------
(* processMessage: no handler for the event type yet.                      *)
NoHandler(p) ==
    /\ process = "up" /\ job[p].pc = "next"
    /\ job[p].handler = 1 /\ job[p].attempt = 0
    /\ Drop(p)
    /\ UNCHANGED <<config, readerVars, lifeVars, fetcher, queue, process,
                   settled, dlqFailed>>

(* Before each handler, and before and between its retries, a done context *)
(* ends the processing; only the retries of the DLQ report it.             *)
Abandon(p) ==
    /\ process = "up" /\ job[p].pc = "next" /\ ctxDone
    /\ Drop(p)
    /\ \/ dlq /\ SendError
       \/ job[p].attempt = 0 /\ UNCHANGED process
    /\ UNCHANGED <<config, readerVars, lifeVars, fetcher, queue, settled,
                   dlqFailed>>

(* The next call of the handler; with MaxRetries = 0 there is none.        *)
Call(p) ==
    /\ process = "up" /\ job[p].pc = "next" /\ ~ctxDone
    /\ job' = [job EXCEPT ![p].pc = IF dlq /\ MaxRetries = 0 THEN "dlq" ELSE "call"]
    /\ UNCHANGED <<config, readerVars, lifeVars, fetcher, queue, process,
                   settled, givenUp, dlqFailed>>

HandlerOk(p) ==
    /\ process = "up" /\ job[p].pc = "call"
    /\ Settle(p)
    /\ Finish(p, job[p].bad)
    /\ UNCHANGED <<config, readerVars, lifeVars, fetcher, queue, process, dlqFailed>>

(* Without the DLQ a failure is reported and the next handler is called.   *)
HandlerFails(p) ==
    /\ process = "up" /\ job[p].pc = "call" /\ ~dlq
    /\ Finish(p, TRUE)
    /\ SendError
    /\ UNCHANGED <<config, readerVars, lifeVars, fetcher, queue, settled, dlqFailed>>

(* Mistake: one retry too many.                                            *)
HandlerRetriesOnceMore(p) ==
    /\ process = "up" /\ job[p].pc = "call" /\ dlq
    /\ LET last == job[p].attempt = MaxRetries IN
       job' = [job EXCEPT ![p].pc = IF last THEN "dlq" ELSE "next",
                          ![p].attempt = @ + 1]
    /\ UNCHANGED <<config, readerVars, lifeVars, fetcher, queue, process,
                   settled, givenUp, dlqFailed>>

(* With it the handler is called again, MaxRetries times in all.           *)
HandlerRetries(p) ==
    /\ process = "up" /\ job[p].pc = "call" /\ dlq
    /\ LET last == job[p].attempt + 1 = MaxRetries IN
       job' = [job EXCEPT ![p].pc = IF last THEN "dlq" ELSE "next",
                          ![p].attempt = @ + 1]
    /\ UNCHANGED <<config, readerVars, lifeVars, fetcher, queue, process,
                   settled, givenUp, dlqFailed>>

SentToDLQ(p) ==
    /\ process = "up" /\ job[p].pc = "dlq"
    /\ Settle(p)
    /\ Finish(p, job[p].bad)
    /\ UNCHANGED <<config, readerVars, lifeVars, fetcher, queue, process, dlqFailed>>

(* Mistake: the failure of the DLQ is reported and forgotten.              *)
DLQFailsForgotten(p) ==
    /\ process = "up" /\ job[p].pc = "dlq"
    /\ dlqFailed' = dlqFailed \cup {job[p].msg}
    /\ Finish(p, job[p].bad)
    /\ SendError
    /\ UNCHANGED <<config, readerVars, lifeVars, fetcher, queue, settled>>

DLQFails(p) ==
    /\ process = "up" /\ job[p].pc = "dlq"
    /\ dlqFailed' = dlqFailed \cup {job[p].msg}
    /\ Finish(p, TRUE)
    /\ SendError
    /\ UNCHANGED <<config, readerVars, lifeVars, fetcher, queue, settled>>

(* A worker recovers a panic of the handler.  handlePanic sends to the DLQ *)
(* when there is one, reports, and never commits.  (In consumeLoop nothing *)
(* recovers it: the process dies, which is Crash.)                         *)
HandlerPanics(p) ==
    /\ process = "up" /\ p # Loop /\ job[p].pc = "call"
    /\ IF dlq
       THEN /\ job' = [job EXCEPT ![p].pc = "panic"]
            /\ UNCHANGED <<process, givenUp>>
       ELSE Drop(p) /\ SendError
    /\ UNCHANGED <<config, readerVars, lifeVars, fetcher, queue, settled, dlqFailed>>

PanicHandled(p) ==
    /\ process = "up" /\ job[p].pc = "panic"
    /\ \/ Settle(p) /\ UNCHANGED dlqFailed
       \/ dlqFailed' = dlqFailed \cup {job[p].msg} /\ UNCHANGED settled
    /\ Drop(p)
    /\ SendError
    /\ UNCHANGED <<config, readerVars, lifeVars, fetcher, queue>>

(* CommitMessages hands the offset to the reader, or fails: on a closed    *)
(* reader, and it may on a done context.                                   *)
Commit(p) ==
    /\ process = "up" /\ job[p].pc = "commit"
    /\ closing \notin {"waiting", "done"}
    /\ stash' = Max({stash, job[p].msg})
    /\ job' = [job EXCEPT ![p] = NoJob]
    /\ UNCHANGED <<config, committed, position, lifeVars, fetcher, queue,
                   process, settled, givenUp, dlqFailed>>

CommitFails(p) ==
    /\ process = "up" /\ job[p].pc = "commit"
    /\ ctxDone \/ closing \in {"waiting", "done"}
    /\ Drop(p)
    /\ SendError
    /\ UNCHANGED <<config, readerVars, lifeVars, fetcher, queue, settled, dlqFailed>>

(* The library sends the stashed offset to the broker.                     *)
Flush ==
    /\ process = "up" /\ stash # 0
    /\ committed' = stash + 1
    /\ stash' = 0
    /\ UNCHANGED <<config, position, lifeVars, fetcher, queue, job, process,
                   settled, givenUp, dlqFailed>>
-----------------------------------------------------------------------------
(* Close: closed under startMu, then reader.Close, which flushes ...       *)
CloseStart ==
    /\ process = "up" /\ closing = "no"
    /\ closing' = "reader"
    /\ UNCHANGED <<config, readerVars, ctxDone, timedOut, starts, crashes,
                   fetcher, queue, job, process, settled, givenUp, dlqFailed>>

CloseReader ==
    /\ process = "up" /\ closing = "reader"
    /\ closing' = "waiting"
    /\ committed' = IF stash # 0 THEN stash + 1 ELSE committed
    /\ stash' = 0
    /\ UNCHANGED <<config, position, ctxDone, timedOut, starts, crashes,
                   fetcher, queue, job, process, settled, givenUp, dlqFailed>>

(* Mistake: no wg.Wait before close(errorCh).                              *)
CloseUnjoined ==
    /\ process = "up" /\ closing = "waiting"
    /\ closing' = "done"
    /\ UNCHANGED <<config, readerVars, ctxDone, timedOut, starts, crashes,
                   fetcher, queue, job, process, settled, givenUp, dlqFailed>>

(* ... then the wait for the goroutines, for 30 seconds at most, and       *)
(* close(errorCh).                                                         *)
CloseJoined ==
    /\ process = "up" /\ closing = "waiting" /\ Joined
    /\ closing' = "done"
    /\ UNCHANGED <<config, readerVars, ctxDone, timedOut, starts, crashes,
                   fetcher, queue, job, process, settled, givenUp, dlqFailed>>

CloseTimeout ==
    /\ process = "up" /\ closing = "waiting"
    /\ closing' = "done"
    /\ timedOut' = ~Joined
    /\ UNCHANGED <<config, readerVars, ctxDone, starts, crashes, fetcher, queue,
                   job, process, settled, givenUp, dlqFailed>>

(* Mistake: the new reader starts where the old one was.                   *)
CrashSkips ==
    /\ process = "up" /\ crashes < MaxCrashes
    /\ crashes' = crashes + 1
    /\ stash' = 0
    /\ fetcher' = "off" /\ queue' = <<>> /\ job' = [p \in Procs |-> NoJob]
    /\ ctxDone' = FALSE /\ closing' = "no" /\ timedOut' = FALSE
    /\ givenUp' = {m \in givenUp : m < committed}
    /\ UNCHANGED <<config, committed, position, process, starts, settled, dlqFailed>>

(* The process dies and starts again with a new consumer; nothing happens  *)
(* in between.                                                             *)
Crash ==
    /\ process = "up" /\ crashes < MaxCrashes
    /\ crashes' = crashes + 1
    /\ position' = committed /\ stash' = 0
    /\ fetcher' = "off" /\ queue' = <<>> /\ job' = [p \in Procs |-> NoJob]
    /\ ctxDone' = FALSE /\ closing' = "no" /\ timedOut' = FALSE
    /\ givenUp' = {m \in givenUp : m < committed}
    /\ UNCHANGED <<config, committed, process, starts, settled, dlqFailed>>
-----------------------------------------------------------------------------
ProcNext(p) ==
    \/ NoHandler(p) \/ Abandon(p) \/ Call(p)
    \/ HandlerOk(p) \/ HandlerFails(p) \/ HandlerRetries(p) \/ HandlerPanics(p)
    \/ SentToDLQ(p) \/ DLQFails(p) \/ PanicHandled(p)
    \/ Commit(p) \/ CommitFails(p)

Next ==
    \/ Consume \/ Cancel
    \/ FetchTop \/ Fetch \/ FetchFails
    \/ \E w \in Workers : Take(w)
    \/ LeaveQueue
    \/ \E p \in Procs : ProcNext(p)
    \/ Flush
    \/ CloseStart \/ CloseReader \/ CloseJoined \/ CloseTimeout
    \/ Crash

Spec == Init /\ [][Next]_vars

(* Goroutines that can run do, handlers and the DLQ answer, and a process  *)
(* that has started consumes.                                              *)
Fairness ==
    /\ WF_vars(Consume) /\ WF_vars(FetchTop) /\ WF_vars(Fetch) /\ WF_vars(FetchFails)
    /\ \A w \in Workers : WF_vars(Take(w))
    /\ \A p \in Procs : WF_vars(ProcNext(p))

FairSpec == Spec /\ Fairness
-----------------------------------------------------------------------------
AllSettled(m) == \A h \in 1 .. Handlers[m] : <<m, h>> \in settled

(* CommitMessages is called for a message only when each of its handlers   *)
(* has succeeded on it or has seen it dead-lettered, whatever another      *)
(* handler's retries or a failed DLQ did in between                        *)
(* (new_consumer.go:396-469, regression_test.go:30-78).                    *)
CommitsOnlySettled ==
    \A p \in Procs : job[p].pc = "commit" => AllSettled(job[p].msg)

(* In the single-goroutine mode the group's offset passes a message only   *)
(* after it was settled or given up (failed, without a handler, or cut off *)
(* by its context): no crash, restart or Close makes it skip one that is   *)
(* merely in progress (new_consumer.go:269-286, 217-246).                  *)
SkipsOnlyGivenUp ==
    mode = "loop" =>
        \A m \in Offsets : m < committed => AllSettled(m) \/ m \in givenUp

(* Nothing is sent on the closed error channel, which would kill the       *)
(* process, unless Close gave up waiting for a handler                     *)
(* (new_consumer.go:217-261, regression_test.go:94-130).                   *)
PanicsOnlyAfterTimeout == process = "panicked" => timedOut

(* Close that did not give up leaves no goroutine and no message behind    *)
(* (new_consumer.go:238-252).                                              *)
CloseWaits == closing = "done" /\ ~timedOut => Joined

(* At least once: in the single-goroutine mode every message is settled or *)
(* given up in the end, through crashes and restarts, if the consumer is   *)
(* in the end left running (new_consumer.go:269-286).                      *)
EventuallySettled ==
    (mode = "loop" /\ <>[](fetcher # "off" /\ ~ctxDone /\ closing = "no" /\ process = "up")) =>
        \A m \in Offsets : <>(AllSettled(m) \/ m \in givenUp)

(* "failed to send message to DLQ - message will be redelivered"           *)
(* (consumer_dlq.go:110): the group's offset stays at or before it until   *)
(* it is settled.                                                          *)
RedeliveredAfterDLQFailure ==
    \A m \in dlqFailed : committed <= m \/ AllSettled(m)
=============================================================================
