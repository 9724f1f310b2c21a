------------------------ MODULE RabbitDelivery_proofs ------------------------
(***************************************************************************)
(* That a publish which reports success was taken by the broker, and that  *)
(* no message the broker took is lost, for any number of messages,         *)
(* workers, connections, retries and timeouts, and every way of declaring  *)
(* the queue.                                                              *)
(***************************************************************************)
EXTENDS RabbitDelivery, FiniteSetTheorems, SequenceTheorems, TLAPS

Confirmation == [ack : BOOLEAN, copy : Copies]
Sending(p, n) == call[p].at = "sent" /\ call[p].gen = n

AppTypes ==
    /\ mode \in Modes /\ setup \in Setups
    /\ left \in Seq(Messages) /\ batch \in Nat /\ batch <= Len(left)
    /\ outcome \in [Messages -> {"none", "ok", "failed"}]

CallTypes ==
    /\ call \in [Procs -> [at : {"none", "pool", "sent"}, gen : Gens \cup {NoGen},
                           copy : Copies \cup {NoCopy}]]
    /\ \A p \in Procs : call[p].at # "none" => call[p].gen \in Gens /\ call[p].copy \in Copies

WorkTypes ==
    /\ work \in [Workers -> [at : {"none", "handling", "backoff", "republish"},
                             gen : Gens \cup {NoGen}, copy : Copies \cup {NoCopy}]]
    /\ \A w \in Workers : work[w].at # "none" => work[w].gen \in Gens /\ work[w].copy \in Copies

BrokerTypes ==
    /\ flight \in [Gens -> Seq(Copies)]
    /\ confirms \in [Gens -> Seq(Confirmation)]
    /\ queue \in [Copies -> Nat]

HistoryTypes ==
    /\ dlq \cup handled \cup accepted \cup unrouted \cup misled \subseteq Messages
    /\ late \in Nat /\ late <= MaxTimeouts

Types == LinkTypeOK /\ AppTypes /\ CallTypes /\ WorkTypes /\ BrokerTypes /\ HistoryTypes

(* An open connection has an open pool, and while the manager is down its  *)
(* connection is not open.                                                 *)
LinkInv ==
    /\ \A n \in Gens : link[n] = "open" => poolOpen[n]
    /\ status = "down" /\ conn # NoGen => link[conn] # "open"

(* A worker has a delivery only of a queue that has been declared whole.   *)
DeclInv ==
    /\ setupAt \in Nat \ {0}
    /\ \A i \in 1 .. Len(Declarations[setup]) : i < setupAt => Declarations[setup][i] \in declared
    /\ \A d \in declared : \E i \in 1 .. Len(Declarations[setup]) : d = Declarations[setup][i]
    /\ \A w \in Workers : work[w].at # "none" => Ready

(* What the callers of a publish publish.                                  *)
CallInv ==
    /\ call[App].at # "none" => batch > 0 /\ call[App].copy = <<Head(left), 0>>
    /\ \A w \in Workers :
           /\ call[w].at # "none" <=> work[w].at = "republish"
           /\ work[w].at \in {"backoff", "republish"} => work[w].copy[2] < MaxRetries
           /\ work[w].at = "republish" =>
                  call[w].copy = <<work[w].copy[1], work[w].copy[2] + 1>>

(* The lock of a publisher channel, without confirms nobody's for longer   *)
(* than a step; what is under way goes with its connection.                *)
LockInv ==
    /\ \A p, q \in Procs, n \in Gens : Sending(p, n) /\ Sending(q, n) => p = q
    /\ mode = "noConfirms" => \A p \in Procs : call[p].at # "sent"
    /\ \A n \in Gens : link[n] # "open" => flight[n] = <<>>

(* As long as no publish has timed out, a channel has what its holder sent *)
(* and nothing else, and nobody takes the confirm of another.              *)
OrderInv ==
    late = 0 =>
        /\ misled = {}
        /\ mode # "noConfirms" => \A n \in Gens :
               /\ Len(flight[n]) + Len(confirms[n]) <= 1
               /\ flight[n] # <<>> =>
                      \E p \in Procs : Sending(p, n) /\ Head(flight[n]) = call[p].copy
               /\ confirms[n] # <<>> =>
                      \E p \in Procs : Sending(p, n) /\ Head(confirms[n]).copy = call[p].copy

Acked(c) ==
    \E n \in Gens : \E i \in 1 .. Len(confirms[n]) : confirms[n][i] = [ack |-> TRUE, copy |-> c]

Settled(m) ==
    \/ m \in handled \cup dlq \cup misled
    \/ setup \in {"default", "delayed"} /\ m \in unrouted

Waits(m, r) == \E k \in 0 .. MaxRetries : k >= r /\ queue[<<m, k>>] > 0

Held(m, r) ==
    \E w \in Workers :
        /\ work[w].at # "none" /\ Live(w)
        /\ work[w].copy[1] = m /\ work[w].copy[2] >= r

(* A copy of the message, published as often as this or more, is in the    *)
(* queue or with a worker, or the message is settled.                      *)
Safe(m, r) == Waits(m, r) \/ Held(m, r) \/ Settled(m)

AckInv == \A c \in Copies : Acked(c) => c[1] \in accepted

SafeInv ==
    mode = "confirms" =>
        /\ \A m \in accepted : Safe(m, 0)
        /\ \A c \in Copies : Acked(c) => Safe(c[1], c[2])

DeliveryInv ==
    /\ Types
    /\ LinkInv
    /\ DeclInv
    /\ CallInv
    /\ LockInv
    /\ OrderInv
    /\ AckInv
    /\ SafeInv
    /\ OkMeansAccepted
-----------------------------------------------------------------------------
(* What the steps of the actors do, grouped by the actor.                  *)
Calling(p) == Send(p) \/ ReceiveConfirm(p) \/ ConfirmsClosed(p) \/ PublishTimeout(p)

Handling(w) ==
    \/ HandlerOk(w) \/ HandlerPanics(w) \/ HandlerFails(w)
    \/ Requeue(w) \/ BackoffCancelled(w)

Relinking ==
    \/ Connecting \/ Losing \/ Dialing \/ Resuming \/ Reinstall
    \/ Close /\ (conn = NoGen \/ link[conn] # "open") /\ UNCHANGED deliveryVars

Breaking(n) ==
    /\ link[n] = "open"
    /\ Drop(n) \/ (Close /\ n = conn)
    /\ ConnectionGone(n)

(* The process has sent its publish and holds the lock.                    *)
Sends(p) ==
    /\ call[p].at = "pool" /\ mode # "noConfirms" /\ ~Locked(call[p].gen)
    /\ link[call[p].gen] = "open"
    /\ call' = [call EXCEPT ![p] = Moved(@, "sent")]
    /\ flight' = [flight EXCEPT ![call[p].gen] = Append(@, call[p].copy)]
    /\ UNCHANGED <<work, queue, dlq, unrouted, left, batch, outcome, confirms, misled, late>>

(* The worker has put the delivery off, or hands a copy to a publish.      *)
PutsOff(w) ==
    /\ work[w].at = "handling" /\ work[w].copy[2] < MaxRetries
    /\ work' = [work EXCEPT ![w] = Moved(@, "backoff")]
    /\ UNCHANGED <<call, queue, dlq, unrouted, handled>>

HandsOn(w) ==
    /\ work[w].at = "backoff" /\ PoolGiven
    /\ call' = [call EXCEPT ![w] = [at |-> "pool", gen |-> conn,
                   copy |-> <<work[w].copy[1], work[w].copy[2] + 1>>]]
    /\ work' = [work EXCEPT ![w] = Moved(@, "republish")]
    /\ UNCHANGED <<queue, dlq, unrouted, handled>>

LEMMA Constants ==
    /\ Gens \subseteq Nat \ {0} /\ NoGen = 0 /\ MaxRetries \in Nat /\ MaxTimeouts \in Nat
    /\ App \in Procs /\ App \notin Workers /\ Workers \subseteq Procs
    /\ 1 \in Gens
  BY LinkAssumption, DeliveryAssumption DEF Gens, NoGen, Procs

(* A copy is a message and a number, and determined by them.               *)
LEMMA CopyParts ==
    /\ \A c \in Copies :
           c[1] \in Messages /\ c[2] \in 0 .. MaxRetries /\ c[2] \in Nat /\ c = <<c[1], c[2]>>
    /\ \A m \in Messages, r \in 0 .. MaxRetries : <<m, r>> \in Copies
  BY Constants DEF Copies

LEMMA SequenceSteps ==
    ASSUME NEW S, NEW s \in Seq(S)
    PROVE  /\ Len(s) \in Nat
           /\ \A i \in 1 .. Len(s) : s[i] \in S
           /\ s # <<>> => /\ Head(s) \in S /\ Head(s) = s[1] /\ Len(s) > 0
                          /\ Tail(s) \in Seq(S) /\ Len(Tail(s)) = Len(s) - 1
                          /\ \A i \in 1 .. Len(Tail(s)) : Tail(s)[i] = s[i + 1]
           /\ \A x \in S : /\ Append(s, x) \in Seq(S) /\ Append(s, x) # <<>>
                           /\ Len(Append(s, x)) = Len(s) + 1
                           /\ \A i \in 1 .. Len(s) : Append(s, x)[i] = s[i]
                           /\ Append(s, x)[Len(s) + 1] = x
<1>1. Len(s) \in Nat /\ \A i \in 1 .. Len(s) : s[i] \in S
  BY LenProperties, ElementOfSeq
<1>2. s # <<>> => /\ Head(s) \in S /\ Head(s) = s[1] /\ Len(s) > 0
                  /\ Tail(s) \in Seq(S) /\ Len(Tail(s)) = Len(s) - 1
                  /\ \A i \in 1 .. Len(Tail(s)) : Tail(s)[i] = s[i + 1]
  BY HeadTailProperties, <1>1
<1>3. \A x \in S : /\ Append(s, x) \in Seq(S) /\ Append(s, x) # <<>>
                   /\ Len(Append(s, x)) = Len(s) + 1
                   /\ \A i \in 1 .. Len(s) : Append(s, x)[i] = s[i]
                   /\ Append(s, x)[Len(s) + 1] = x
  BY AppendProperties
<1> QED
  BY <1>1, <1>2, <1>3

LEMMA CallingStep ==
    ASSUME Types, LinkInv, NEW p \in Procs, Calling(p)
    PROVE  /\ call[p].at # "none"
           /\ UNCHANGED <<linkVars, mode, setup, stopped, setupAt, declared, accepted, handled>>
           /\ Sends(p) \/ \E result \in {"ok", "failed"} : Finish(p, result)
<1>1. CASE Send(p)
  <2>1. CASE ~Works(call[p].gen)
    BY <1>1, <2>1 DEF Send, historyVars
  <2>2. CASE Works(call[p].gen) /\ mode = "noConfirms"
    BY <1>1, <2>2 DEF Send, historyVars
  <2>3. CASE Works(call[p].gen) /\ mode # "noConfirms"
    BY <1>1, <2>3 DEF Send, Sends, Works, historyVars
  <2> QED
    BY <2>1, <2>2, <2>3
<1>2. CASE ReceiveConfirm(p)
  BY <1>2 DEF ReceiveConfirm
<1>3. CASE ConfirmsClosed(p)
  BY <1>3 DEF ConfirmsClosed, historyVars
<1>4. CASE PublishTimeout(p)
  BY <1>4 DEF PublishTimeout
<1> QED
  BY <1>1, <1>2, <1>3, <1>4 DEF Calling

LEMMA FinishStep ==
    ASSUME NEW p \in Procs, NEW result, Finish(p, result)
    PROVE  /\ call' = [call EXCEPT ![p] = Idle]
           /\ p = App => Published(result) /\ UNCHANGED <<work, queue, dlq, unrouted>>
           /\ p # App => /\ p \in Workers /\ UNCHANGED <<left, batch, outcome>>
                         /\ result = "ok" => Ack(p)
                         /\ result # "ok" => Nack(p)
  BY DEF Finish, Procs

LEMMA HandlingStep ==
    ASSUME Types, NEW w \in Workers, Handling(w)
    PROVE  /\ work[w].at \in {"handling", "backoff"}
           /\ UNCHANGED <<linkVars, mode, setup, stopped, appVars, declared, flight, confirms,
                          accepted, misled, late>>
           /\ \/ /\ Ack(w) /\ UNCHANGED call
                 /\ \/ mode = "autoAck" /\ handled' = handled
                    \/ handled' = handled \cup {work[w].copy[1]}
              \/ Nack(w) /\ UNCHANGED <<call, handled>>
              \/ PutsOff(w)
              \/ HandsOn(w)
<1>1. CASE HandlerOk(w)
  BY <1>1 DEF HandlerOk
<1>2. CASE HandlerPanics(w)
  BY <1>2 DEF HandlerPanics, historyVars
<1>3. CASE HandlerFails(w)
  <2>1. CASE mode = "autoAck"
    BY <1>3, <2>1 DEF HandlerFails, historyVars
  <2>2. CASE mode # "autoAck" /\ work[w].copy[2] >= MaxRetries
    BY <1>3, <2>2 DEF HandlerFails, historyVars
  <2>3. CASE mode # "autoAck" /\ ~(work[w].copy[2] >= MaxRetries)
    <3>1. work[w].copy[2] < MaxRetries
      BY <1>3, <2>3, Constants, CopyParts DEF HandlerFails, Types, WorkTypes
    <3> QED
      BY <1>3, <2>3, <3>1 DEF HandlerFails, PutsOff, historyVars
  <2> QED
    BY <2>1, <2>2, <2>3
<1>4. CASE Requeue(w)
  <2>1. CASE PoolGiven
    BY <1>4, <2>1 DEF Requeue, HandsOn, historyVars
  <2>2. CASE ~PoolGiven
    BY <1>4, <2>2 DEF Requeue, historyVars
  <2> QED
    BY <2>1, <2>2
<1>5. CASE BackoffCancelled(w)
  BY <1>5 DEF BackoffCancelled, historyVars
<1> QED
  BY <1>1, <1>2, <1>3, <1>4, <1>5 DEF Handling

(* What becomes of a delivery that is acknowledged or rejected.            *)
LEMMA ReleaseStep ==
    ASSUME Types, NEW w \in Workers, work[w].at # "none", Ack(w) \/ Nack(w)
    PROVE  /\ work' = [work EXCEPT ![w] = Idle]
           /\ queue' \in [Copies -> Nat]
           /\ \A c \in Copies : queue'[c] >= queue[c]
           /\ dlq \subseteq dlq' /\ dlq' \subseteq Messages
           /\ unrouted \subseteq unrouted' /\ unrouted' \subseteq Messages
<1>1. work[w].copy \in Copies /\ work[w].copy[1] \in Messages
  BY CopyParts DEF Types, WorkTypes
<1>2. CASE Ack(w)
  BY <1>2 DEF Ack, Types, BrokerTypes, HistoryTypes
<1>3. CASE Nack(w)
  <2>1. /\ work' = [work EXCEPT ![w] = Idle]
        /\ dlq' \in {dlq, dlq \cup {work[w].copy[1]}}
        /\ unrouted' \in {unrouted, unrouted \cup {work[w].copy[1]}}
        /\ queue' \in {queue, Add(queue, work[w].copy)}
    BY <1>3 DEF Nack
  <2>2. /\ Add(queue, work[w].copy) \in [Copies -> Nat]
        /\ \A c \in Copies : Add(queue, work[w].copy)[c] >= queue[c]
    BY <1>1 DEF Add, Types, BrokerTypes
  <2> QED
    BY <1>1, <2>1, <2>2 DEF Types, BrokerTypes, HistoryTypes
<1> QED
  BY <1>2, <1>3

LEMMA NextSteps ==
    ASSUME Types, DeliveryNext
    PROVE  \/ Relinking
           \/ \E n \in Gens : Breaking(n)
           \/ Declare \/ SetupFails \/ PublishBatch \/ Publish \/ Stop
           \/ \E p \in Procs : Calling(p)
           \/ \E n \in Gens : BrokerTakes(n) \/ BrokerRefuses(n)
           \/ \E c \in Copies : Expire(c)
           \/ \E w \in Workers, c \in Copies : Take(w, c)
           \/ \E w \in Workers : Handling(w)
<1>1. CASE Shutdown
  BY <1>1 DEF Shutdown, Relinking, Breaking, Types, LinkTypeOK
<1>2. CASE \E n \in Gens : BrokerDrops(n)
  BY <1>2 DEF BrokerDrops, Breaking, Drop
<1>3. CASE \E p \in Procs :
               Send(p) \/ ReceiveConfirm(p) \/ ConfirmsClosed(p) \/ PublishTimeout(p)
  BY <1>3 DEF Calling
<1>4. CASE \E w \in Workers :
               \/ HandlerOk(w) \/ HandlerPanics(w) \/ HandlerFails(w)
               \/ Requeue(w) \/ BackoffCancelled(w)
  BY <1>4 DEF Handling
<1>5. CASE Connecting \/ Losing \/ Dialing \/ Resuming \/ Reinstall
  BY <1>5 DEF Relinking
<1> QED
  BY <1>1, <1>2, <1>3, <1>4, <1>5 DEF DeliveryNext
-----------------------------------------------------------------------------
(* The steps of the link.                                                  *)
LEMMA RelinkingStep ==
    ASSUME Relinking
    PROVE  LinkNext /\ UNCHANGED deliveryVars
  BY DEF Relinking, Connecting, Losing, Dialing, Resuming, Reinstall, LinkNext

LEMMA BreakingStep ==
    ASSUME NEW n \in Gens, Breaking(n)
    PROVE  LinkNext /\ ConnectionGone(n)
  BY DEF Breaking, LinkNext

LEMMA OtherSteps ==
    ASSUME Types, LinkInv, DeliveryNext, ~Relinking, ~ \E n \in Gens : Breaking(n)
    PROVE  UNCHANGED linkVars
<1>1. CASE \E p \in Procs : Calling(p)
  BY <1>1, CallingStep
<1>2. CASE \E w \in Workers : Handling(w)
  BY <1>2, HandlingStep
<1>3. CASE Declare \/ SetupFails \/ PublishBatch \/ Publish \/ Stop
  BY <1>3 DEF Declare, SetupFails, PublishBatch, Publish, Stop
<1>4. CASE \E n \in Gens : BrokerTakes(n) \/ BrokerRefuses(n)
  BY <1>4 DEF BrokerTakes, BrokerRefuses
<1>5. CASE \E c \in Copies : Expire(c) \/ \E w \in Workers : Take(w, c)
  BY <1>5 DEF Expire, Take
<1> QED
  BY <1>1, <1>2, <1>3, <1>4, <1>5, NextSteps

LEMMA LinkSteps ==
    ASSUME Types, LinkInv, DeliveryNext
    PROVE  LinkNext \/ UNCHANGED linkVars
  BY RelinkingStep, BreakingStep, OtherSteps

LEMMA LinkNextTypes ==
    ASSUME LinkTypeOK, LinkInv, LinkNext
    PROVE  LinkTypeOK' /\ LinkInv'
<1>1. Gens = 1 .. MaxGen /\ MaxGen \in Nat \ {0} /\ NoGen = 0 /\ 1 \in Gens
  BY LinkAssumption DEF Gens, NoGen
<1>2. CASE Connect
  BY <1>1, <1>2 DEF Connect, LinkTypeOK, LinkInv
<1>3. CASE Lose \/ Resume
  BY <1>3 DEF Lose, Resume, LinkTypeOK, LinkInv
<1>4. CASE Install
  BY <1>1, <1>4 DEF Install, LinkTypeOK, LinkInv
<1>5. CASE Close
  <2>1. LinkTypeOK'
    BY <1>1, <1>5 DEF Close, LinkTypeOK
  <2>2. LinkInv'
    BY <1>1, <1>5 DEF Close, LinkTypeOK, LinkInv
  <2> QED
    BY <2>1, <2>2
<1>6. CASE \E n \in Gens : Drop(n)
  BY <1>6 DEF Drop, LinkTypeOK, LinkInv
<1>7. CASE \E n \in Gens : Dial(n)
  BY <1>1, <1>7 DEF Dial, LinkTypeOK, LinkInv
<1> QED
  BY <1>2, <1>3, <1>4, <1>5, <1>6, <1>7 DEF LinkNext

(* A channel goes with its connection only, or with the manager, which has *)
(* then closed it; in a step that breaks no connection, none does.         *)
LEMMA WorksIsOpen ==
    ASSUME LinkInv, NEW n \in Gens
    PROVE  Works(n) <=> link[n] = "open"
  BY DEF Works, LinkInv

LEMMA RelinkingKeepsOpen ==
    ASSUME LinkTypeOK, LinkInv, Relinking, NEW n \in Gens, link[n] = "open"
    PROVE  link'[n] = "open"
<1>1. Gens = 1 .. MaxGen /\ NoGen = 0 /\ 1 \in Gens
  BY Constants DEF Gens, NoGen
<1>2. CASE Connecting
  BY <1>2, <1>1 DEF Connecting, Connect, LinkTypeOK
<1>3. CASE Losing \/ Resuming \/ Reinstall
  BY <1>3 DEF Losing, Resuming, Reinstall, Lose, Resume, Install
<1>4. CASE Dialing
  BY <1>4 DEF Dialing, Dial, LinkTypeOK
<1>5. CASE Close /\ (conn = NoGen \/ link[conn] # "open")
  BY <1>5 DEF Close, LinkTypeOK
<1> QED
  BY <1>2, <1>3, <1>4, <1>5 DEF Relinking

LEMMA BreakingLeavesOthers ==
    ASSUME LinkTypeOK, NEW b \in Gens, Breaking(b), NEW n \in Gens, n # b
    PROVE  link'[n] = link[n]
<1>1. CASE Drop(b)
  BY <1>1 DEF Drop, LinkTypeOK
<1>2. CASE Close /\ b = conn
  BY <1>2 DEF Close, LinkTypeOK
<1> QED
  BY <1>1, <1>2 DEF Breaking
-----------------------------------------------------------------------------
(* Types.                                                                  *)
LEMMA IdleTypes ==
    /\ Idle.at = "none" /\ Idle.gen = NoGen /\ Idle.copy = NoCopy
    /\ \A r, at : LET m == Moved(r, at) IN m.at = at /\ m.gen = r.gen /\ m.copy = r.copy
    /\ Idle \in [at : {"none", "pool", "sent"}, gen : Gens \cup {NoGen},
                 copy : Copies \cup {NoCopy}]
    /\ Idle \in [at : {"none", "handling", "backoff", "republish"}, gen : Gens \cup {NoGen},
                 copy : Copies \cup {NoCopy}]
  BY DEF Idle, Moved

LEMMA CallTypesKeep ==
    ASSUME CallTypes, NEW p \in Procs, NEW r, call' = [call EXCEPT ![p] = r],
           r \in [at : {"none", "pool", "sent"}, gen : Gens \cup {NoGen},
                  copy : Copies \cup {NoCopy}],
           r.at # "none" => r.gen \in Gens /\ r.copy \in Copies
    PROVE  CallTypes'
  BY DEF CallTypes

LEMMA WorkTypesKeep ==
    ASSUME WorkTypes, NEW w \in Workers, NEW r, work' = [work EXCEPT ![w] = r],
           r \in [at : {"none", "handling", "backoff", "republish"}, gen : Gens \cup {NoGen},
                  copy : Copies \cup {NoCopy}],
           r.at # "none" => r.gen \in Gens /\ r.copy \in Copies
    PROVE  WorkTypes'
  BY DEF WorkTypes

LEMMA PublishedTypes ==
    ASSUME AppTypes, batch > 0, NEW result \in {"ok", "failed"}, Published(result),
           UNCHANGED <<mode, setup>>
    PROVE  AppTypes' /\ Head(left) \in Messages
<1>1. left # <<>> /\ Len(left) \in Nat
  BY SequenceSteps DEF AppTypes
<1>2. Head(left) \in Messages /\ Tail(left) \in Seq(Messages) /\ Len(Tail(left)) = Len(left) - 1
  BY <1>1, SequenceSteps DEF AppTypes
<1>3. /\ outcome' = [outcome EXCEPT ![Head(left)] = result]
      /\ left' = Tail(left)
      /\ batch' = IF result = "ok" THEN batch - 1 ELSE 0
  BY DEF Published
<1>4. batch' \in Nat /\ batch' <= Len(left')
  BY <1>1, <1>2, <1>3 DEF AppTypes
<1> QED
  BY <1>2, <1>3, <1>4 DEF AppTypes

LEMMA CallingTypes ==
    ASSUME Types, LinkInv, CallInv, NEW p \in Procs, Calling(p)
    PROVE  Types'
<1>1. /\ call[p].at # "none"
      /\ UNCHANGED <<linkVars, mode, setup, stopped, setupAt, declared, accepted, handled>>
  BY CallingStep
<1>2. call[p].gen \in Gens /\ call[p].copy \in Copies /\ call[p].copy[1] \in Messages
  BY <1>1, CopyParts DEF Types, CallTypes
<1>3. LinkTypeOK'
  BY <1>1 DEF Types, LinkTypeOK, linkVars
<1>4. flight' \in [Gens -> Seq(Copies)]
  <2>1. \A n \in Gens : flight[n] \in Seq(Copies) /\ Append(flight[n], call[p].copy) \in Seq(Copies)
    BY <1>2, SequenceSteps DEF Types, BrokerTypes
  <2>2. flight' = flight \/ flight' = [flight EXCEPT ![call[p].gen] = Append(@, call[p].copy)]
    BY DEF Calling, Send, ReceiveConfirm, ConfirmsClosed, PublishTimeout
  <2> QED
    BY <1>2, <2>1, <2>2 DEF Types, BrokerTypes
<1>5. confirms' \in [Gens -> Seq(Confirmation)]
  <2>1. \A n \in Gens : /\ confirms[n] \in Seq(Confirmation)
                        /\ confirms[n] # <<>> => Tail(confirms[n]) \in Seq(Confirmation)
    BY SequenceSteps DEF Types, BrokerTypes
  <2>2. \/ confirms' = confirms
        \/ /\ confirms[call[p].gen] # <<>>
           /\ confirms' = [confirms EXCEPT ![call[p].gen] = Tail(@)]
    BY DEF Calling, Send, ReceiveConfirm, ConfirmsClosed, PublishTimeout
  <2> QED
    BY <1>2, <2>1, <2>2 DEF Types, BrokerTypes
<1>6. misled' \subseteq Messages /\ late' \in Nat /\ late' <= MaxTimeouts
  <2>1. misled' \in {misled, misled \cup {call[p].copy[1]}}
    BY DEF Calling, Send, ReceiveConfirm, ConfirmsClosed, PublishTimeout, historyVars
  <2>2. late' = late \/ (late < MaxTimeouts /\ late' = late + 1)
    BY DEF Calling, Send, ReceiveConfirm, ConfirmsClosed, PublishTimeout, historyVars
  <2> QED
    BY <1>2, <2>1, <2>2, Constants DEF Types, HistoryTypes
<1>7. CASE Sends(p)
  <2>1. CallTypes'
    <3>1. call' = [call EXCEPT ![p] = Moved(call[p], "sent")]
      BY <1>7 DEF Sends, Types, CallTypes
    <3> QED
      BY <1>2, <3>1, CallTypesKeep DEF Types, Moved
  <2> QED
    BY <1>1, <1>3, <1>4, <1>5, <1>6, <1>7, <2>1
       DEF Sends, Types, AppTypes, WorkTypes, BrokerTypes, HistoryTypes
<1>8. CASE \E result \in {"ok", "failed"} : Finish(p, result)
  <2>1. PICK result \in {"ok", "failed"} : Finish(p, result)
    BY <1>8
  <2>2. CallTypes'
    BY <2>1, FinishStep, CallTypesKeep, IdleTypes DEF Types
  <2>3. CASE p = App
    <3>1. AppTypes'
      BY <1>1, <2>1, <2>3, FinishStep, PublishedTypes DEF Types, CallInv
    <3> QED
      BY <1>1, <1>3, <1>4, <1>5, <1>6, <2>1, <2>2, <2>3, <3>1, FinishStep
         DEF Types, WorkTypes, BrokerTypes, HistoryTypes
  <2>4. CASE p # App
    <3>1. p \in Workers /\ UNCHANGED <<left, batch, outcome>> /\ (Ack(p) \/ Nack(p))
      BY <2>1, <2>4, FinishStep
    <3>2. work[p].at # "none"
      BY <1>1, <3>1 DEF CallInv
    <3>3. WorkTypes'
      BY <3>1, <3>2, ReleaseStep, WorkTypesKeep, IdleTypes DEF Types
    <3>4. AppTypes'
      BY <1>1, <3>1 DEF Types, AppTypes
    <3>5. queue' \in [Copies -> Nat] /\ dlq' \subseteq Messages /\ unrouted' \subseteq Messages
      BY <3>1, <3>2, ReleaseStep
    <3> QED
      BY <1>1, <1>3, <1>4, <1>5, <1>6, <2>2, <3>3, <3>4, <3>5
         DEF Types, BrokerTypes, HistoryTypes
  <2> QED
    BY <2>3, <2>4
<1> QED
  BY <1>7, <1>8, CallingStep

LEMMA HandlingTypes ==
    ASSUME Types, CallInv, NEW w \in Workers, Handling(w)
    PROVE  Types'
<1>1. /\ work[w].at \in {"handling", "backoff"}
      /\ UNCHANGED <<linkVars, mode, setup, stopped, appVars, declared, flight, confirms,
                     accepted, misled, late>>
  BY HandlingStep
<1>2. work[w].gen \in Gens /\ work[w].copy \in Copies /\ work[w].copy[1] \in Messages
  BY <1>1, CopyParts DEF Types, WorkTypes
<1>3. LinkTypeOK' /\ AppTypes'
  BY <1>1 DEF Types, LinkTypeOK, AppTypes, linkVars, appVars
<1>4. CASE /\ Ack(w) \/ Nack(w)
           /\ UNCHANGED call /\ handled' \in {handled, handled \cup {work[w].copy[1]}}
  <2>1. WorkTypes'
    BY <1>1, <1>4, ReleaseStep, WorkTypesKeep, IdleTypes DEF Types
  <2>2. queue' \in [Copies -> Nat] /\ dlq' \subseteq Messages /\ unrouted' \subseteq Messages
    BY <1>1, <1>4, ReleaseStep
  <2> QED
    BY <1>1, <1>2, <1>3, <1>4, <2>1, <2>2 DEF Types, CallTypes, BrokerTypes, HistoryTypes
<1>5. CASE PutsOff(w)
  <2>1. work' = [work EXCEPT ![w] = Moved(work[w], "backoff")]
    BY <1>5 DEF PutsOff, Types, WorkTypes
  <2>2. WorkTypes'
    BY <1>2, <2>1, WorkTypesKeep DEF Types, Moved
  <2> QED
    BY <1>1, <1>3, <1>5, <2>2 DEF PutsOff, Types, CallTypes, BrokerTypes, HistoryTypes
<1>6. CASE HandsOn(w)
  <2>1. work' = [work EXCEPT ![w] = Moved(work[w], "republish")]
    BY <1>6 DEF HandsOn, Types, WorkTypes
  <2>2. WorkTypes'
    BY <1>2, <2>1, WorkTypesKeep DEF Types, Moved
  <2>3. conn \in Gens
    BY <1>6 DEF HandsOn, PoolGiven, Types, LinkTypeOK
  <2>4. <<work[w].copy[1], work[w].copy[2] + 1>> \in Copies
    <3>1. work[w].copy[2] < MaxRetries
      BY <1>6 DEF HandsOn, CallInv
    <3>2. work[w].copy[2] + 1 \in 0 .. MaxRetries
      BY <1>2, <3>1, CopyParts, Constants
    <3> QED
      BY <1>2, <3>2, CopyParts
  <2>5. CallTypes'
    BY <1>6, <2>3, <2>4, Constants, CallTypesKeep DEF HandsOn, Types
  <2> QED
    BY <1>1, <1>3, <1>6, <2>2, <2>5 DEF HandsOn, Types, BrokerTypes, HistoryTypes
<1> QED
  BY <1>4, <1>5, <1>6, HandlingStep
(* How many deliveries a lost connection puts back.                        *)
LEMMA HeldCount ==
    ASSUME NEW n \in Gens, NEW c \in Copies
    PROVE  LET held == {w \in HeldOn(n) : work[w].copy = c} IN
           Cardinality(held) \in Nat /\ (held # {} => Cardinality(held) > 0)
<1> DEFINE held == {w \in HeldOn(n) : work[w].copy = c}
<1>1. IsFiniteSet(Workers) /\ held \subseteq Workers
  BY DeliveryAssumption DEF HeldOn
<1>2. IsFiniteSet(held)
  BY <1>1, FS_Subset
<1>3. Cardinality(held) \in Nat /\ (Cardinality(held) = 0 <=> held = {})
  BY <1>2, FS_CardinalityType, FS_EmptySet
<1> QED
  BY <1>3

LEMMA GoneQueue ==
    ASSUME Types, NEW n \in Gens, ConnectionGone(n)
    PROVE  /\ queue' \in [Copies -> Nat]
           /\ \A c \in Copies : queue'[c] >= queue[c]
           /\ mode # "autoAck" =>
                  \A w \in Workers : work[w].at # "none" /\ work[w].gen = n =>
                      queue'[work[w].copy] > 0
<1>1. CASE mode = "autoAck"
  BY <1>1 DEF ConnectionGone, Types, BrokerTypes
<1>2. CASE mode # "autoAck"
  <2>1. queue' = [c \in Copies |-> queue[c] +
                      Cardinality({w \in HeldOn(n) : work[w].copy = c})]
    BY <1>2 DEF ConnectionGone
  <2>2. \A c \in Copies : /\ queue[c] \in Nat
                          /\ Cardinality({w \in HeldOn(n) : work[w].copy = c}) \in Nat
    BY HeldCount DEF Types, BrokerTypes
  <2>3. ASSUME NEW w \in Workers, work[w].at # "none", work[w].gen = n
        PROVE  queue'[work[w].copy] > 0
    <3>1. work[w].copy \in Copies
      BY <2>3 DEF Types, WorkTypes
    <3>2. w \in {v \in HeldOn(n) : work[v].copy = work[w].copy}
      BY <2>3 DEF HeldOn
    <3>3. Cardinality({v \in HeldOn(n) : work[v].copy = work[w].copy}) > 0
      BY <3>1, <3>2, HeldCount
    <3> DEFINE taken(c) == Cardinality({v \in HeldOn(n) : work[v].copy = c})
    <3>4. \A c \in Copies : queue'[c] = queue[c] + taken(c) /\ queue[c] \in Nat /\ taken(c) \in Nat
      BY <2>1, <2>2
    <3> HIDE DEF taken
    <3>5. taken(work[w].copy) > 0
      BY <3>3 DEF taken
    <3> QED
      BY <3>1, <3>4, <3>5
  <2>4. \A c \in Copies : queue'[c] \in Nat /\ queue'[c] >= queue[c]
    BY <2>1, <2>2
  <2>5. queue' \in [Copies -> Nat]
    BY <2>1, <2>4
  <2> QED
    BY <2>3, <2>4, <2>5
<1> QED
  BY <1>1, <1>2

LEMMA BreakingTypes ==
    ASSUME Types, LinkInv, NEW n \in Gens, Breaking(n)
    PROVE  Types'
<1>1. LinkTypeOK' /\ ConnectionGone(n)
  BY BreakingStep, LinkNextTypes DEF Types
<1>2. queue' \in [Copies -> Nat]
  BY <1>1, GoneQueue
<1>3. flight' \in [Gens -> Seq(Copies)]
  <2>1. <<>> \in Seq(Copies)
    OBVIOUS
  <2> QED
    BY <1>1, <2>1 DEF ConnectionGone, Types, BrokerTypes
<1> QED
  BY <1>1, <1>2, <1>3
     DEF ConnectionGone, appVars, historyVars, Types, AppTypes, CallTypes, WorkTypes,
         BrokerTypes, HistoryTypes

LEMMA RelinkingTypes ==
    ASSUME Types, LinkInv, Relinking
    PROVE  Types'
<1>1. LinkTypeOK' /\ UNCHANGED deliveryVars
  BY RelinkingStep, LinkNextTypes DEF Types
<1> QED
  BY <1>1 DEF deliveryVars, appVars, brokerVars, historyVars, Types, AppTypes, CallTypes,
              WorkTypes, BrokerTypes, HistoryTypes

LEMMA AppStepTypes ==
    ASSUME Types, Declare \/ SetupFails \/ PublishBatch \/ Publish \/ Stop
    PROVE  Types'
<1>1. UNCHANGED <<linkVars, mode, setup, work, flight, confirms, queue, dlq, accepted, unrouted,
                  historyVars>>
  BY DEF Declare, SetupFails, PublishBatch, Publish, Stop, brokerVars
<1>2. LinkTypeOK' /\ WorkTypes' /\ BrokerTypes' /\ HistoryTypes'
  BY <1>1 DEF linkVars, historyVars, Types, LinkTypeOK, WorkTypes, BrokerTypes, HistoryTypes
<1>3. CASE Declare \/ SetupFails \/ Stop
  BY <1>1, <1>2, <1>3 DEF Declare, SetupFails, Stop, appVars, Types, AppTypes, CallTypes
<1>4. CASE PublishBatch
  <2>1. Len(left) \in Nat
    BY SequenceSteps DEF Types, AppTypes
  <2>2. batch' \in Nat /\ batch' <= Len(left)
    BY <1>4, <2>1 DEF PublishBatch
  <2> QED
    BY <1>1, <1>2, <1>4, <2>2 DEF PublishBatch, Types, AppTypes, CallTypes
<1>5. CASE Publish
  <2>1. batch > 0
    BY <1>5 DEF Publish
  <2>2. CASE IsConnected
    <3>1. conn \in Gens
      BY <2>2 DEF IsConnected, PoolGiven, Types, LinkTypeOK
    <3>2. Head(left) \in Messages
      BY <2>1, SequenceSteps DEF Types, AppTypes
    <3>3. <<Head(left), 0>> \in Copies
      BY <3>2, CopyParts, Constants
    <3>4. /\ call' = [call EXCEPT ![App] =
                         [at |-> "pool", gen |-> conn, copy |-> <<Head(left), 0>>]]
          /\ UNCHANGED <<left, batch, outcome>>
      BY <1>5, <2>2 DEF Publish
    <3>5. CallTypes'
      BY <3>1, <3>3, <3>4, Constants, CallTypesKeep DEF Types
    <3> QED
      BY <1>1, <1>2, <3>4, <3>5 DEF Types, AppTypes
  <2>3. CASE ~IsConnected
    <3>1. Published("failed") /\ UNCHANGED call
      BY <1>5, <2>3 DEF Publish
    <3>2. AppTypes'
      BY <1>1, <2>1, <3>1, PublishedTypes DEF Types
    <3> QED
      BY <1>2, <3>1, <3>2 DEF Types, CallTypes
  <2> QED
    BY <2>2, <2>3
<1> QED
  BY <1>3, <1>4, <1>5

LEMMA BrokerStepTypes ==
    ASSUME Types, NEW n \in Gens, BrokerTakes(n) \/ BrokerRefuses(n)
    PROVE  Types'
<1> DEFINE c == Head(flight[n])
<1>1. /\ flight[n] # <<>>
      /\ flight' = [flight EXCEPT ![n] = Tail(@)]
      /\ UNCHANGED <<linkVars, mode, setup, call, work, left, batch, outcome, dlq, unrouted,
                     historyVars>>
  BY DEF BrokerTakes, BrokerRefuses, appVars
<1>2. c \in Copies /\ c[1] \in Messages /\ Tail(flight[n]) \in Seq(Copies)
  BY <1>1, SequenceSteps, CopyParts DEF Types, BrokerTypes
<1>3. \A ack \in BOOLEAN :
          Append(confirms[n], [ack |-> ack, copy |-> c]) \in Seq(Confirmation)
  BY <1>2, SequenceSteps DEF Types, BrokerTypes, Confirmation
<1>4. confirms' \in [Gens -> Seq(Confirmation)]
  <2>1. \/ confirms' = confirms
        \/ \E ack \in BOOLEAN :
               confirms' = [confirms EXCEPT ![n] = Append(@, [ack |-> ack, copy |-> c])]
    BY DEF BrokerTakes, BrokerRefuses
  <2> QED
    BY <1>3, <2>1 DEF Types, BrokerTypes
<1>5. queue' \in [Copies -> Nat] /\ accepted' \subseteq Messages
  <2>1. Add(queue, c) \in [Copies -> Nat]
    BY <1>2 DEF Add, Types, BrokerTypes
  <2>2. queue' \in {queue, Add(queue, c)} /\ accepted' \in {accepted, accepted \cup {c[1]}}
    BY DEF BrokerTakes, BrokerRefuses
  <2> QED
    BY <1>2, <2>1, <2>2 DEF Types, BrokerTypes, HistoryTypes
<1> QED
  BY <1>1, <1>2, <1>4, <1>5
     DEF linkVars, historyVars, Types, LinkTypeOK, AppTypes, CallTypes, WorkTypes, BrokerTypes,
         HistoryTypes

LEMMA QueueStepTypes ==
    ASSUME Types, NEW c \in Copies, Expire(c) \/ \E w \in Workers : Take(w, c)
    PROVE  Types'
<1>1. queue[c] > 0 /\ queue' = Remove(queue, c)
  BY DEF Expire, Take
<1>2. queue' \in [Copies -> Nat]
  BY <1>1 DEF Remove, Types, BrokerTypes
<1>3. c[1] \in Messages
  BY CopyParts
<1>4. /\ dlq' \in {dlq, dlq \cup {c[1]}}
      /\ UNCHANGED <<linkVars, mode, setup, call, appVars, flight, confirms, accepted, unrouted,
                     historyVars>>
  BY DEF Expire, Take
<1>5. WorkTypes'
  <2>1. CASE Expire(c)
    BY <2>1 DEF Expire, Types, WorkTypes
  <2>2. ASSUME NEW w \in Workers, Take(w, c)
        PROVE  WorkTypes'
    <3>1. conn \in Gens
      BY <2>2 DEF Take, Channel, PoolGiven, Types, LinkTypeOK
    <3>2. work' = [work EXCEPT ![w] = [at |-> "handling", gen |-> conn, copy |-> c]]
      BY <2>2 DEF Take
    <3> QED
      BY <3>1, <3>2, WorkTypesKeep DEF Types
  <2> QED
    BY <2>1, <2>2
<1> QED
  BY <1>2, <1>3, <1>4, <1>5
     DEF linkVars, appVars, historyVars, Types, LinkTypeOK, AppTypes, CallTypes, BrokerTypes,
         HistoryTypes

LEMMA StepTypes ==
    ASSUME Types, LinkInv, CallInv, DeliveryNext
    PROVE  Types' /\ LinkInv'
<1>1. Types'
  BY NextSteps, RelinkingTypes, BreakingTypes, AppStepTypes, CallingTypes, BrokerStepTypes,
     QueueStepTypes, HandlingTypes
<1>2. LinkInv'
  BY LinkSteps, LinkNextTypes DEF Types, LinkInv, linkVars
<1> QED
  BY <1>1, <1>2
-----------------------------------------------------------------------------
(* Calls and locks.                                                        *)
Quiet ==
    \/ Relinking \/ \E n \in Gens : Breaking(n)
    \/ Declare \/ SetupFails \/ Stop
    \/ \E n \in Gens : BrokerTakes(n) \/ BrokerRefuses(n)
    \/ \E c \in Copies : Expire(c)

LEMMA QuietStep ==
    ASSUME Quiet
    PROVE  UNCHANGED <<call, work, left, batch, outcome, mode, setup, handled, misled, late>>
<1>1. CASE Relinking
  BY <1>1, RelinkingStep DEF deliveryVars, appVars, historyVars
<1>2. CASE \E n \in Gens : Breaking(n)
  BY <1>2 DEF Breaking, ConnectionGone, appVars, historyVars
<1>3. CASE Declare \/ SetupFails \/ Stop
  BY <1>3 DEF Declare, SetupFails, Stop, appVars, historyVars
<1>4. CASE \E n \in Gens : BrokerTakes(n) \/ BrokerRefuses(n)
  BY <1>4 DEF BrokerTakes, BrokerRefuses, appVars, historyVars
<1>5. CASE \E c \in Copies : Expire(c)
  BY <1>5 DEF Expire, appVars, historyVars
<1> QED
  BY <1>1, <1>2, <1>3, <1>4, <1>5 DEF Quiet

LEMMA PublishStep ==
    ASSUME Types, Publish
    PROVE  /\ batch > 0 /\ call[App].at = "none"
           /\ UNCHANGED <<linkVars, mode, setup, work, stopped, setupAt, brokerVars, historyVars>>
           /\ \/ /\ call' = [call EXCEPT ![App] =
                                [at |-> "pool", gen |-> conn, copy |-> <<Head(left), 0>>]]
                 /\ UNCHANGED <<left, batch, outcome>>
              \/ Published("failed") /\ UNCHANGED call
  BY DEF Publish

LEMMA SendsCall ==
    ASSUME Types, NEW p \in Procs, Sends(p)
    PROVE  /\ call'[p].at = "sent"
           /\ call'[p].gen = call[p].gen /\ call'[p].copy = call[p].copy
           /\ \A q \in Procs : q # p => call'[q] = call[q]
<1>1. call' = [call EXCEPT ![p] = Moved(call[p], "sent")]
  BY DEF Sends, Types, CallTypes
<1> QED
  BY <1>1, IdleTypes DEF Types, CallTypes

LEMMA StepCallInv ==
    ASSUME Types, LinkInv, CallInv, DeliveryNext
    PROVE  CallInv'
<1>1. CASE Quiet
  BY <1>1, QuietStep DEF CallInv
<1>2. CASE PublishBatch
  <2>1. call[App].at = "none" /\ UNCHANGED <<call, work>>
    BY <1>2, Constants DEF PublishBatch, CallInv, Types, AppTypes
  <2> QED
    BY <2>1 DEF CallInv
<1>3. CASE Publish
  <2>1. \A w \in Workers : call'[w] = call[w]
    BY <1>3, PublishStep, Constants DEF Types, CallTypes
  <2>2. call'[App].at # "none" => batch' > 0 /\ call'[App].copy = <<Head(left'), 0>>
    BY <1>3, PublishStep, Constants DEF Types, CallTypes
  <2> QED
    BY <1>3, <2>1, <2>2, PublishStep DEF CallInv
<1>4. ASSUME NEW w \in Workers, NEW c \in Copies, Take(w, c)
      PROVE  CallInv'
  <2>1. /\ work[w].at = "none" /\ UNCHANGED <<call, left, batch>>
        /\ work' = [work EXCEPT ![w] = [at |-> "handling", gen |-> conn, copy |-> c]]
    BY <1>4 DEF Take, appVars
  <2>2. \A v \in Workers : IF v = w THEN work'[v].at = "handling" ELSE work'[v] = work[v]
    BY <2>1 DEF Types, WorkTypes
  <2> QED
    BY <2>1, <2>2 DEF CallInv
<1>5. ASSUME NEW p \in Procs, Calling(p)
      PROVE  CallInv'
  <2>1. CASE Sends(p)
    <3>1. UNCHANGED <<left, batch, work>> /\ call[p].at = "pool"
      BY <2>1 DEF Sends
    <3> QED
      BY <2>1, <3>1, SendsCall, Constants DEF CallInv
  <2>2. ASSUME NEW result, Finish(p, result)
        PROVE  CallInv'
    <3>1. \A q \in Procs : IF q = p THEN call'[q].at = "none" ELSE call'[q] = call[q]
      BY <2>2, FinishStep, IdleTypes DEF Types, CallTypes
    <3>2. CASE p = App
      BY <2>2, <3>1, <3>2, FinishStep, Constants DEF CallInv
    <3>3. CASE p # App
      <4>1. p \in Workers /\ UNCHANGED <<left, batch>> /\ (Ack(p) \/ Nack(p)) /\ work[p].at # "none"
        BY <1>5, <2>2, <3>3, FinishStep, CallingStep DEF CallInv
      <4>2. \A v \in Workers : IF v = p THEN work'[v].at = "none" ELSE work'[v] = work[v]
        BY <4>1, ReleaseStep, IdleTypes DEF Types, WorkTypes
      <4> QED
        BY <3>1, <4>1, <4>2, Constants DEF CallInv
    <3> QED
      BY <3>2, <3>3
  <2> QED
    BY <1>5, <2>1, <2>2, CallingStep
<1>6. ASSUME NEW w \in Workers, Handling(w)
      PROVE  CallInv'
  <2>1. work[w].at \in {"handling", "backoff"} /\ UNCHANGED <<left, batch>>
    BY <1>6, HandlingStep DEF appVars
  <2>2. CASE (Ack(w) \/ Nack(w)) /\ UNCHANGED call
    <3>1. \A v \in Workers : IF v = w THEN work'[v].at = "none" ELSE work'[v] = work[v]
      BY <2>1, <2>2, ReleaseStep, IdleTypes DEF Types, WorkTypes
    <3> QED
      BY <2>1, <2>2, <3>1 DEF CallInv
  <2>3. CASE PutsOff(w)
    <3>1. /\ work' = [work EXCEPT ![w] = Moved(work[w], "backoff")]
          /\ work[w].copy[2] < MaxRetries /\ UNCHANGED call
      BY <2>3 DEF PutsOff, Types, WorkTypes
    <3>2. \A v \in Workers : IF v = w THEN work'[v].at = "backoff" /\ work'[v].copy = work[v].copy
                             ELSE work'[v] = work[v]
      BY <3>1, IdleTypes DEF Types, WorkTypes
    <3> QED
      BY <2>1, <3>1, <3>2 DEF CallInv
  <2>4. CASE HandsOn(w)
    <3>1. /\ work' = [work EXCEPT ![w] = Moved(work[w], "republish")]
          /\ call' = [call EXCEPT ![w] = [at |-> "pool", gen |-> conn,
                        copy |-> <<work[w].copy[1], work[w].copy[2] + 1>>]]
          /\ work[w].at = "backoff"
      BY <2>4 DEF HandsOn, Types, WorkTypes
    <3>2. \A v \in Workers : IF v = w THEN work'[v].at = "republish" /\ work'[v].copy = work[v].copy
                             ELSE work'[v] = work[v]
      BY <3>1, IdleTypes DEF Types, WorkTypes
    <3>3. \A q \in Procs :
              IF q = w THEN call'[q].at = "pool"
                            /\ call'[q].copy = <<work[w].copy[1], work[w].copy[2] + 1>>
              ELSE call'[q] = call[q]
      BY <3>1 DEF Types, CallTypes
    <3> QED
      BY <2>1, <3>1, <3>2, <3>3, Constants DEF CallInv
  <2> QED
    BY <1>6, <2>2, <2>3, <2>4, HandlingStep
<1> QED
  BY <1>1, <1>2, <1>3, <1>4, <1>5, <1>6, NextSteps DEF Quiet

(* Only a publisher's own step begins or ends the time it has the lock.    *)
LEMMA OthersKeepSending ==
    ASSUME Types, LinkInv, CallInv, DeliveryNext, ~ \E p \in Procs : Calling(p), NEW q \in Procs
    PROVE  /\ call'[q].at = "sent" <=> call[q].at = "sent"
           /\ call[q].at = "sent" => call'[q] = call[q]
<1>1. CASE UNCHANGED call
  BY <1>1
<1>2. CASE Publish
  <2>1. CASE UNCHANGED call
    BY <2>1
  <2>2. CASE call' = [call EXCEPT ![App] =
                         [at |-> "pool", gen |-> conn, copy |-> <<Head(left), 0>>]]
    BY <1>2, <2>2, PublishStep, Constants DEF Types, CallTypes
  <2> QED
    BY <1>2, <2>1, <2>2, PublishStep
<1>3. ASSUME NEW w \in Workers, Handling(w)
      PROVE  /\ call'[q].at = "sent" <=> call[q].at = "sent"
             /\ call[q].at = "sent" => call'[q] = call[q]
  <2>1. CASE HandsOn(w)
    <3>1. /\ call' = [call EXCEPT ![w] = [at |-> "pool", gen |-> conn,
                        copy |-> <<work[w].copy[1], work[w].copy[2] + 1>>]]
          /\ call[w].at = "none" /\ w \in Procs
      BY <2>1, Constants DEF HandsOn, CallInv
    <3> QED
      BY <3>1 DEF Types, CallTypes
  <2>2. CASE UNCHANGED call
    BY <2>2
  <2> QED
    BY <1>3, <2>1, <2>2, HandlingStep DEF PutsOff
<1>4. CASE PublishBatch \/ Quiet \/ \E w \in Workers, c \in Copies : Take(w, c)
  BY <1>1, <1>4, QuietStep DEF PublishBatch, Take
<1> QED
  BY <1>2, <1>3, <1>4, NextSteps DEF Quiet

LEMMA FinishSending ==
    ASSUME Types, NEW p \in Procs, NEW result, Finish(p, result), NEW q \in Procs
    PROVE  IF q = p THEN call'[q].at = "none" ELSE call'[q] = call[q]
  BY FinishStep, IdleTypes DEF Types, CallTypes

(* What goes onto a connection that is open, and what comes back.          *)
LEMMA CallingFlight ==
    ASSUME Types, LinkInv, NEW p \in Procs, Calling(p)
    PROVE  /\ call[p].gen \in Gens
           /\ \/ flight' = flight
              \/ /\ link[call[p].gen] = "open" /\ call[p].at = "pool"
                 /\ ~Locked(call[p].gen)
                 /\ flight' = [flight EXCEPT ![call[p].gen] = Append(@, call[p].copy)]
                 /\ confirms' = confirms
                 /\ mode = "noConfirms" \/ Sends(p)
           /\ \/ confirms' = confirms
              \/ /\ ReceiveConfirm(p)
                 /\ confirms' = [confirms EXCEPT ![call[p].gen] = Tail(@)]
                 /\ flight' = flight
<1>1. call[p].gen \in Gens
  BY CallingStep DEF Types, CallTypes
<1>2. CASE Send(p)
  <2>1. CASE ~Works(call[p].gen)
    BY <1>1, <1>2, <2>1 DEF Send
  <2>2. CASE Works(call[p].gen)
    <3>1. mode # "noConfirms" => Sends(p)
      BY <1>2, <2>2 DEF Send, Sends, Works, historyVars
    <3> QED
      BY <1>1, <1>2, <2>2, <3>1 DEF Send, Works
  <2> QED
    BY <2>1, <2>2
<1>3. CASE ReceiveConfirm(p)
  BY <1>1, <1>3 DEF ReceiveConfirm
<1>4. CASE ConfirmsClosed(p) \/ PublishTimeout(p)
  BY <1>1, <1>4 DEF ConfirmsClosed, PublishTimeout
<1> QED
  BY <1>2, <1>3, <1>4 DEF Calling

LEMMA StepLockInv ==
    ASSUME Types, LinkInv, CallInv, LockInv, DeliveryNext
    PROVE  LockInv'
<1>1. mode' = mode
  <2>1. CASE \E p \in Procs : Calling(p)
    BY <2>1, CallingStep
  <2>2. CASE \E w \in Workers : Handling(w)
    BY <2>2, HandlingStep
  <2>3. CASE Publish \/ PublishBatch \/ \E w \in Workers, c \in Copies : Take(w, c)
    BY <2>3 DEF Publish, PublishBatch, Take
  <2> QED
    BY <2>1, <2>2, <2>3, QuietStep, NextSteps DEF Quiet
<1>2. /\ \A q, r \in Procs, n \in Gens : Sending(q, n)' /\ Sending(r, n)' => q = r
      /\ mode = "noConfirms" => \A q \in Procs : call'[q].at # "sent"
  <2>1. CASE ~ \E p \in Procs : Calling(p)
    <3>1. \A q \in Procs : /\ call'[q].at = "sent" <=> call[q].at = "sent"
                           /\ call[q].at = "sent" => call'[q] = call[q]
      BY <2>1, OthersKeepSending
    <3> QED
      BY <3>1 DEF Sending, LockInv
  <2>2. ASSUME NEW p \in Procs, Sends(p)
        PROVE  /\ \A q, r \in Procs, n \in Gens : Sending(q, n)' /\ Sending(r, n)' => q = r
               /\ mode = "noConfirms" => \A q \in Procs : call'[q].at # "sent"
    <3>1. mode # "noConfirms" /\ ~ \E q \in Procs : Sending(q, call[p].gen)
      BY <2>2 DEF Sends, Locked, Sending
    <3>2. /\ call'[p].gen = call[p].gen
          /\ \A q \in Procs : q # p => call'[q] = call[q]
      BY <2>2, SendsCall
    <3> QED
      BY <3>1, <3>2 DEF Sending, LockInv
  <2>3. ASSUME NEW p \in Procs, NEW result, Finish(p, result)
        PROVE  /\ \A q, r \in Procs, n \in Gens : Sending(q, n)' /\ Sending(r, n)' => q = r
               /\ mode = "noConfirms" => \A q \in Procs : call'[q].at # "sent"
    <3>1. \A q \in Procs : IF q = p THEN call'[q].at = "none" ELSE call'[q] = call[q]
      BY <2>3, FinishSending
    <3> QED
      BY <3>1 DEF Sending, LockInv
  <2> QED
    BY <2>1, <2>2, <2>3, CallingStep
<1>3. ASSUME NEW n \in Gens, link'[n] # "open"
      PROVE  flight'[n] = <<>>
  <2>1. CASE Relinking
    BY <1>3, <2>1, RelinkingStep, RelinkingKeepsOpen
       DEF deliveryVars, brokerVars, LockInv, Types
  <2>2. ASSUME NEW b \in Gens, Breaking(b)
        PROVE  flight'[n] = <<>>
    <3>1. flight' = [flight EXCEPT ![b] = <<>>]
      BY <2>2 DEF Breaking, ConnectionGone
    <3>2. n # b => flight[n] = <<>>
      BY <1>3, <2>2, BreakingLeavesOthers DEF LockInv, Types
    <3> QED
      BY <3>1, <3>2 DEF Types, BrokerTypes
  <2>3. CASE UNCHANGED linkVars
    <3>1. link[n] # "open" /\ flight[n] = <<>>
      BY <1>3, <2>3 DEF linkVars, LockInv
    <3>2. CASE \E p \in Procs : Calling(p)
      BY <3>1, <3>2, CallingFlight DEF Types, BrokerTypes
    <3>3. CASE \E g \in Gens : BrokerTakes(g) \/ BrokerRefuses(g)
      BY <3>1, <3>3 DEF BrokerTakes, BrokerRefuses, Types, BrokerTypes
    <3>4. CASE \E w \in Workers : Handling(w)
      BY <3>1, <3>4, HandlingStep
    <3>5. CASE \/ Declare \/ SetupFails \/ PublishBatch \/ Publish \/ Stop
               \/ \E c \in Copies : Expire(c) \/ \E w \in Workers : Take(w, c)
      BY <3>1, <3>5 DEF Declare, SetupFails, PublishBatch, Publish, Stop, Expire, Take, brokerVars
    <3> QED
      BY <2>1, <2>2, <3>2, <3>3, <3>4, <3>5, NextSteps
  <2> QED
    BY <2>1, <2>2, <2>3, OtherSteps
<1> QED
  BY <1>1, <1>2, <1>3 DEF LockInv

(* A channel has one publish under way at most, its holder's.              *)
OneUnderWay(n) ==
    /\ Len(flight[n]) + Len(confirms[n]) <= 1
    /\ flight[n] # <<>> => \E p \in Procs : Sending(p, n) /\ Head(flight[n]) = call[p].copy
    /\ confirms[n] # <<>> =>
           \E p \in Procs : Sending(p, n) /\ Head(confirms[n]).copy = call[p].copy

LEMMA OneUnderWayKeeps ==
    ASSUME NEW n \in Gens, OneUnderWay(n), UNCHANGED <<flight[n], confirms[n]>>,
           \A q \in Procs : Sending(q, n) => call'[q] = call[q]
    PROVE  OneUnderWay(n)'
  BY DEF OneUnderWay, Sending

LEMMA OneInAll ==
    ASSUME NEW a \in Nat, NEW b \in Nat, a + b <= 1
    PROVE  (a > 0 => a = 1 /\ b = 0) /\ (b > 0 => b = 1 /\ a = 0) /\ 0 + b <= 1
  OBVIOUS

LEMMA LateSteps ==
    ASSUME Types, LinkInv, DeliveryNext, late' = 0
    PROVE  /\ late = 0
           /\ misled' # misled => \E p \in Procs : ReceiveConfirm(p)
<1>1. ASSUME NEW p \in Procs, Calling(p)
      PROVE  late = 0 /\ (misled' # misled => ReceiveConfirm(p))
  <2>1. CASE Send(p)
    BY <2>1 DEF Send, historyVars
  <2>2. CASE ReceiveConfirm(p)
    BY <2>2 DEF ReceiveConfirm
  <2>3. CASE ConfirmsClosed(p)
    BY <2>3 DEF ConfirmsClosed, historyVars
  <2>4. CASE PublishTimeout(p)
    BY <2>4 DEF PublishTimeout, Types, HistoryTypes
  <2> QED
    BY <1>1, <2>1, <2>2, <2>3, <2>4 DEF Calling
<1>2. CASE \E w \in Workers : Handling(w)
  BY <1>2, HandlingStep
<1>3. CASE Publish \/ PublishBatch \/ \E w \in Workers, c \in Copies : Take(w, c)
  BY <1>3 DEF Publish, PublishBatch, Take, historyVars
<1> QED
  BY <1>1, <1>2, <1>3, QuietStep, NextSteps DEF Quiet

LEMMA TakenUnderWay ==
    ASSUME Types, OrderInv, late = 0, mode # "noConfirms", NEW n \in Gens, NEW b \in Gens,
           BrokerTakes(b) \/ BrokerRefuses(b)
    PROVE  OneUnderWay(n)'
<1> DEFINE c == Head(flight[b])
<1>1. OneUnderWay(n) /\ OneUnderWay(b) /\ UNCHANGED call
  BY DEF OrderInv, OneUnderWay, BrokerTakes, BrokerRefuses
<1>2. PICK ack \in BOOLEAN :
          /\ flight[b] # <<>>
          /\ flight' = [flight EXCEPT ![b] = Tail(@)]
          /\ confirms' = [confirms EXCEPT ![b] = Append(@, [ack |-> ack, copy |-> c])]
  BY DEF BrokerTakes, BrokerRefuses
<1>3. CASE n # b
  <2>1. UNCHANGED <<flight[n], confirms[n]>>
    BY <1>2, <1>3 DEF Types, BrokerTypes
  <2> QED
    BY <1>1, <2>1, OneUnderWayKeeps
<1>4. CASE n = b
  <2>1. /\ flight'[b] = Tail(flight[b])
        /\ confirms'[b] = Append(confirms[b], [ack |-> ack, copy |-> c])
    BY <1>2 DEF Types, BrokerTypes
  <2>2. /\ flight[b] \in Seq(Copies) /\ confirms[b] \in Seq(Confirmation)
        /\ [ack |-> ack, copy |-> c] \in Confirmation
    BY <1>2, SequenceSteps DEF Types, BrokerTypes, Confirmation
  <2>3. /\ Len(flight[b]) \in Nat /\ Len(flight[b]) > 0 /\ Len(confirms[b]) \in Nat
        /\ Tail(flight[b]) \in Seq(Copies) /\ Len(Tail(flight[b])) = Len(flight[b]) - 1
    BY <1>2, <2>2, SequenceSteps
  <2>4. Len(flight[b]) = 1 /\ Len(confirms[b]) = 0 /\ Len(Tail(flight[b])) = 0
    <3>1. Len(flight[b]) + Len(confirms[b]) <= 1
      BY <1>1 DEF OneUnderWay
    <3>2. Len(flight[b]) = 1 /\ Len(confirms[b]) = 0
      BY <2>3, <3>1, OneInAll
    <3> QED
      BY <2>3, <3>2
  <2>5. confirms[b] = <<>> /\ Tail(flight[b]) = <<>>
    BY <2>2, <2>3, <2>4, EmptySeq
  <2>6. /\ Len(confirms'[b]) = 1 /\ confirms'[b] # <<>>
        /\ confirms'[b] \in Seq(Confirmation)
        /\ confirms'[b][1] = [ack |-> ack, copy |-> c]
    BY <2>1, <2>2, <2>4, SequenceSteps
  <2>7. Head(confirms'[b]) = [ack |-> ack, copy |-> c]
    BY <2>6, SequenceSteps
  <2>8. Head(confirms'[b]).copy = c
    BY <2>7
  <2>9. Len(flight'[b]) + Len(confirms'[b]) <= 1 /\ flight'[b] = <<>>
    <3>1. flight'[b] = <<>> /\ Len(flight'[b]) = 0
      BY <2>1, <2>5, EmptySeq
    <3> QED
      BY <2>6, <3>1
  <2>10. PICK p \in Procs : Sending(p, b) /\ c = call[p].copy
    BY <1>1, <1>2 DEF OneUnderWay
  <2> HIDE DEF c
  <2>11. Sending(p, b)' /\ call'[p].copy = c
    BY <1>1, <2>10 DEF Sending
  <2> QED
    BY <1>4, <2>8, <2>9, <2>11 DEF OneUnderWay
<1> QED
  BY <1>3, <1>4

LEMMA SentUnderWay ==
    ASSUME Types, OrderInv, late = 0, mode # "noConfirms", NEW n \in Gens, NEW p \in Procs,
           Sends(p), call[p].gen \in Gens
    PROVE  OneUnderWay(n)'
<1> DEFINE g == call[p].gen
<1>1. OneUnderWay(n) /\ OneUnderWay(g)
  BY DEF OrderInv, OneUnderWay
<1>2. call[p].copy \in Copies /\ flight[g] \in Seq(Copies) /\ confirms[g] \in Seq(Confirmation)
  BY DEF Sends, Types, CallTypes, BrokerTypes
<1>3. flight'[g] = Append(flight[g], call[p].copy) /\ UNCHANGED confirms
  BY DEF Sends, Types, BrokerTypes
<1>4. CASE n # g
  <2>1. UNCHANGED <<flight[n], confirms[n]>>
    BY <1>4 DEF Sends, Types, BrokerTypes
  <2>2. \A q \in Procs : Sending(q, n) => call'[q] = call[q]
    BY <1>4, SendsCall DEF Sending
  <2> QED
    BY <1>1, <2>1, <2>2, OneUnderWayKeeps
<1>5. CASE n = g
  <2>1. ~ \E q \in Procs : Sending(q, g)
    BY DEF Sends, Locked, Sending
  <2>2. flight[g] = <<>> /\ confirms[g] = <<>>
    BY <1>1, <2>1 DEF OneUnderWay
  <2>3. Len(flight[g]) = 0 /\ Len(confirms[g]) = 0
    BY <2>2, EmptySeq
  <2>4. /\ Len(flight'[g]) = 1 /\ flight'[g] # <<>> /\ flight'[g][1] = call[p].copy
        /\ flight'[g] \in Seq(Copies)
    BY <1>2, <1>3, <2>3, SequenceSteps
  <2>5. Head(flight'[g]) = call[p].copy
    BY <2>4, SequenceSteps
  <2>6. Sending(p, n)' /\ call'[p].copy = call[p].copy
    BY <1>5, SendsCall DEF Sending
  <2>7. Len(flight'[g]) + Len(confirms'[g]) <= 1
    BY <1>3, <2>3, <2>4
  <2>8. confirms'[g] = <<>>
    BY <1>3, <2>2
  <2>9. \E q \in Procs : Sending(q, n)' /\ Head(flight'[n]) = call'[q].copy
    BY <1>5, <2>5, <2>6
  <2>10. confirms'[n] = <<>> /\ Len(flight'[n]) + Len(confirms'[n]) <= 1
    BY <1>5, <2>7, <2>8
  <2> QED
    BY <2>9, <2>10 DEF OneUnderWay
<1> QED
  BY <1>4, <1>5

LEMMA ReceivedUnderWay ==
    ASSUME Types, LinkInv, LockInv, OrderInv, late = 0, mode # "noConfirms", NEW n \in Gens,
           NEW p \in Procs, ReceiveConfirm(p)
    PROVE  OneUnderWay(n)' /\ misled' = misled
<1> DEFINE g == call[p].gen
<1>1. g \in Gens /\ call[p].at = "sent" /\ Sending(p, g) /\ confirms[g] # <<>>
  BY DEF ReceiveConfirm, Types, CallTypes, Sending
<1>2. OneUnderWay(n) /\ OneUnderWay(g)
  BY <1>1 DEF OrderInv, OneUnderWay
<1>3. PICK result : Finish(p, result)
  BY DEF ReceiveConfirm
<1>4. \A q \in Procs : IF q = p THEN call'[q].at = "none" ELSE call'[q] = call[q]
  BY <1>3, FinishSending
<1>5. flight' = flight /\ confirms' = [confirms EXCEPT ![g] = Tail(@)]
  BY DEF ReceiveConfirm
<1>6. Head(confirms[g]).copy = call[p].copy
  BY <1>1, <1>2 DEF OneUnderWay, LockInv
<1>7. misled' = misled
  BY <1>6 DEF ReceiveConfirm
<1>8. CASE n # g
  <2>1. UNCHANGED <<flight[n], confirms[n]>>
    BY <1>1, <1>5, <1>8 DEF Types, BrokerTypes
  <2>2. \A q \in Procs : Sending(q, n) => call'[q] = call[q]
    BY <1>1, <1>4, <1>8 DEF Sending
  <2> QED
    BY <1>2, <1>7, <2>1, <2>2, OneUnderWayKeeps
<1>9. CASE n = g
  <2>1. flight[g] \in Seq(Copies) /\ confirms[g] \in Seq(Confirmation)
    BY <1>1 DEF Types, BrokerTypes
  <2>2. /\ Len(flight[g]) \in Nat /\ Len(confirms[g]) \in Nat /\ Len(confirms[g]) > 0
        /\ Tail(confirms[g]) \in Seq(Confirmation) /\ Len(Tail(confirms[g])) = Len(confirms[g]) - 1
    BY <1>1, <2>1, SequenceSteps
  <2>3. Len(flight[g]) = 0 /\ Len(Tail(confirms[g])) = 0
    <3>1. Len(flight[g]) + Len(confirms[g]) <= 1
      BY <1>2 DEF OneUnderWay
    <3>2. Len(confirms[g]) = 1 /\ Len(flight[g]) = 0
      BY <2>2, <3>1, OneInAll
    <3> QED
      BY <2>2, <3>2
  <2>4. flight[g] = <<>> /\ Tail(confirms[g]) = <<>>
    BY <2>1, <2>2, <2>3, EmptySeq
  <2>5. flight'[g] = <<>> /\ confirms'[g] = <<>>
    BY <1>1, <1>5, <2>4 DEF Types, BrokerTypes
  <2>6. Len(flight'[g]) = 0 /\ Len(confirms'[g]) = 0
    BY <2>5, EmptySeq
  <2> QED
    BY <1>7, <1>9, <2>5, <2>6 DEF OneUnderWay
<1> QED
  BY <1>8, <1>9

LEMMA StepOrderInv ==
    ASSUME Types, LinkInv, CallInv, LockInv, OrderInv, DeliveryNext
    PROVE  OrderInv'
<1> SUFFICES ASSUME late' = 0
             PROVE  /\ misled' = {}
                    /\ mode' # "noConfirms" => \A n \in Gens : OneUnderWay(n)'
  BY DEF OrderInv, OneUnderWay
<1>1. late = 0 /\ misled = {} /\ (misled' # misled => \E p \in Procs : ReceiveConfirm(p))
  BY LateSteps DEF OrderInv
<1>2. mode' = mode
  <2>1. CASE \E p \in Procs : Calling(p)
    BY <2>1, CallingStep
  <2>2. CASE \E w \in Workers : Handling(w)
    BY <2>2, HandlingStep
  <2>3. CASE Publish \/ PublishBatch \/ \E w \in Workers, c \in Copies : Take(w, c)
    BY <2>3 DEF Publish, PublishBatch, Take
  <2> QED
    BY <2>1, <2>2, <2>3, QuietStep, NextSteps DEF Quiet
<1>3. misled' = {}
  <2>1. ASSUME NEW p \in Procs, ReceiveConfirm(p)
        PROVE  misled' = misled
    <3>1. mode # "noConfirms"
      BY <2>1 DEF ReceiveConfirm, LockInv
    <3>2. 1 \in Gens
      BY Constants
    <3> QED
      BY <1>1, <2>1, <3>1, <3>2, ReceivedUnderWay
  <2> QED
    BY <1>1, <2>1
<1>4. ASSUME mode # "noConfirms", NEW n \in Gens
      PROVE  OneUnderWay(n)'
  <2>0. OneUnderWay(n)
    BY <1>1, <1>4 DEF OrderInv, OneUnderWay
  <2>1. CASE \E b \in Gens : BrokerTakes(b) \/ BrokerRefuses(b)
    BY <1>1, <1>4, <2>1, TakenUnderWay
  <2>2. ASSUME NEW p \in Procs, Calling(p)
        PROVE  OneUnderWay(n)'
    <3>1. CASE Sends(p)
      BY <1>1, <1>4, <2>2, <3>1, SentUnderWay, CallingFlight
    <3>2. CASE ReceiveConfirm(p)
      BY <1>1, <1>4, <3>2, ReceivedUnderWay
    <3>3. CASE ~Sends(p) /\ ~ReceiveConfirm(p)
      <4>1. UNCHANGED <<flight, confirms>> /\ \E result : Finish(p, result)
        BY <1>4, <2>2, <3>3, CallingFlight, CallingStep
      <4>2. \A q \in Procs : IF q = p THEN call'[q].at = "none" ELSE call'[q] = call[q]
        BY <4>1, FinishSending
      <4>3. ~Sending(p, n) \/ (flight[n] = <<>> /\ confirms[n] = <<>>)
        <5>1. CASE Send(p)
          BY <5>1 DEF Send, Sending
        <5>2. CASE ConfirmsClosed(p)
          BY <5>2, WorksIsOpen DEF ConfirmsClosed, Sending, LockInv
        <5>3. ~PublishTimeout(p)
          BY <1>1 DEF PublishTimeout
        <5> QED
          BY <2>2, <3>3, <5>1, <5>2, <5>3 DEF Calling
      <4>4. CASE ~Sending(p, n)
        <5>1. \A q \in Procs : Sending(q, n) => call'[q] = call[q]
          BY <4>2, <4>4
        <5> QED
          BY <2>0, <4>1, <5>1, OneUnderWayKeeps
      <4>5. CASE flight[n] = <<>> /\ confirms[n] = <<>>
        BY <2>0, <4>1, <4>5 DEF OneUnderWay
      <4> QED
        BY <4>3, <4>4, <4>5
    <3> QED
      BY <3>1, <3>2, <3>3
  <2>3. CASE ~ \E p \in Procs : Calling(p)
    <3>1. \A q \in Procs : Sending(q, n) => call'[q] = call[q]
      BY <2>3, OthersKeepSending DEF Sending
    <3>2. CASE UNCHANGED <<flight[n], confirms[n]>>
      BY <2>0, <3>1, <3>2, OneUnderWayKeeps
    <3>3. ASSUME NEW b \in Gens, Breaking(b)
          PROVE  OneUnderWay(n)'
      <4>1. flight' = [flight EXCEPT ![b] = <<>>] /\ confirms' = confirms
        BY <3>3 DEF Breaking, ConnectionGone
      <4>2. CASE n = b
        <5>1. flight'[n] = <<>> /\ Len(flight'[n]) = 0 /\ confirms'[n] = confirms[n]
          BY <4>1, <4>2, EmptySeq DEF Types, BrokerTypes
        <5>2. Len(flight[n]) \in Nat /\ Len(confirms[n]) \in Nat
          BY SequenceSteps DEF Types, BrokerTypes
        <5>3. Len(flight'[n]) + Len(confirms'[n]) <= 1
          <6>1. Len(flight[n]) + Len(confirms[n]) <= 1
            BY <2>0 DEF OneUnderWay
          <6> QED
            BY <5>1, <5>2, <6>1, OneInAll
        <5> QED
          BY <2>0, <3>1, <5>1, <5>3 DEF OneUnderWay, Sending
      <4>3. CASE n # b
        BY <3>2, <4>1, <4>3 DEF Types, BrokerTypes
      <4> QED
        BY <4>2, <4>3
    <3>4. CASE Relinking
      BY <3>2, <3>4, RelinkingStep DEF deliveryVars, brokerVars
    <3>5. CASE \/ Declare \/ SetupFails \/ PublishBatch \/ Publish \/ Stop
               \/ \E c \in Copies : Expire(c) \/ \E w \in Workers : Take(w, c)
      BY <3>2, <3>5 DEF Declare, SetupFails, PublishBatch, Publish, Stop, Expire, Take, brokerVars
    <3>6. CASE \E w \in Workers : Handling(w)
      BY <3>2, <3>6, HandlingStep
    <3> QED
      BY <2>1, <2>3, <3>3, <3>4, <3>5, <3>6, NextSteps
  <2> QED
    BY <2>2, <2>3
<1> QED
  BY <1>2, <1>3, <1>4
-----------------------------------------------------------------------------
(* Declarations.                                                           *)
LEMMA AppendedToThree ==
    ASSUME NEW a, NEW b, NEW c, NEW d, NEW v, v = <<a, b, c>> \o <<d>>
    PROVE  Len(v) = 4 /\ v[1] = a /\ v[2] = b /\ v[3] = c /\ v[4] = d
<1> DEFINE S == {a, b, c, d} t == <<a, b, c>> u == <<d>>
<1>1. /\ t \in Seq(S) /\ Len(t) = 3 /\ t[1] = a /\ t[2] = b /\ t[3] = c
      /\ u \in Seq(S) /\ Len(u) = 1 /\ u[1] = d
  OBVIOUS
<1>2. v = t \o u
  OBVIOUS
<1> HIDE DEF t, u
<1>3. Len(v) = Len(t) + Len(u)
  BY <1>1, <1>2, ConcatProperties
<1>4. \A i \in 1 .. Len(t) + Len(u) : v[i] = IF i <= Len(t) THEN t[i] ELSE u[i - Len(t)]
  BY <1>1, <1>2, ConcatProperties
<1>5. \A i \in 1 .. 4 : v[i] = IF i <= 3 THEN t[i] ELSE u[i - 3]
  BY <1>1, <1>4
<1>6. v[1] = t[1] /\ v[2] = t[2] /\ v[3] = t[3]
  BY <1>5
<1>7. v[4] = u[1]
  BY <1>5
<1> QED
  BY <1>1, <1>3, <1>6, <1>7

LEMMA DeclarationsAre ==
    /\ \A s \in {"default", "keyed", "topic", "ttl", "delayed"} : Len(Declarations[s]) \in Nat
    /\ \A s \in {"keyed", "topic", "ttl"} :
           \E type \in {"direct", "topic"}, key \in {MessageKey, "#"} :
               /\ type = "topic" \/ key = MessageKey
               /\ Len(Declarations[s]) = 4
               /\ Declarations[s][1] = Exchange("q.dlq.exchange", type)
               /\ Declarations[s][2] = Queue("q.dlq", "", "")
               /\ Declarations[s][3] = Binding("q.dlq", key, "q.dlq.exchange")
               /\ Declarations[s][4] = Queue("q", "q.dlq.exchange", "")
<1>1. ASSUME NEW a, NEW b, NEW c, NEW d, NEW e, NEW f, NEW x, NEW y, NEW z
      PROVE  Len(<<a, b, c, d, e, f>> \o <<x, y, z>>) \in Nat
  <2> DEFINE S == {a, b, c, d, e, f, x, y, z}
  <2>1. <<a, b, c, d, e, f>> \in Seq(S) /\ <<x, y, z>> \in Seq(S)
    OBVIOUS
  <2>2. <<a, b, c, d, e, f>> \o <<x, y, z>> \in Seq(S)
    BY <2>1, ConcatProperties
  <2> QED
    BY <2>2, LenProperties
<1>2. ASSUME NEW s \in {"default", "keyed", "topic", "ttl"}
      PROVE  \E type \in {"direct", "topic"}, key \in {MessageKey, "#", "q.failed"} :
                 /\ s # "default" => /\ key \in {MessageKey, "#"}
                                     /\ type = "topic" \/ key = MessageKey
                 /\ Declarations[s] =
                        <<Exchange("q.dlq.exchange", type), Queue("q.dlq", "", ""),
                          Binding("q.dlq", key, "q.dlq.exchange")>>
                        \o <<Queue("q", "q.dlq.exchange", "")>>
  <2>1. CASE s = "default"
    <3>1. Declarations[s] =
              <<Exchange("q.dlq.exchange", "direct"), Queue("q.dlq", "", ""),
                Binding("q.dlq", "q.failed", "q.dlq.exchange")>>
              \o <<Queue("q", "q.dlq.exchange", "")>>
      BY <2>1 DEF Declarations, DeclareQueueWithDLQ, SetupDLQ
    <3> QED
      BY <2>1, <3>1
  <2>2. CASE s = "keyed"
    <3>1. Declarations[s] =
              <<Exchange("q.dlq.exchange", "direct"), Queue("q.dlq", "", ""),
                Binding("q.dlq", MessageKey, "q.dlq.exchange")>>
              \o <<Queue("q", "q.dlq.exchange", "")>>
      BY <2>2 DEF Declarations, DeclareQueueWithDLQ, SetupDLQ, MessageKey
    <3> QED
      BY <3>1
  <2>3. CASE s \in {"topic", "ttl"}
    <3>1. Declarations[s] =
              <<Exchange("q.dlq.exchange", "topic"), Queue("q.dlq", "", ""),
                Binding("q.dlq", "#", "q.dlq.exchange")>>
              \o <<Queue("q", "q.dlq.exchange", "")>>
      BY <2>3 DEF Declarations, DeclareQueueWithDLQ, DeclareQueueWithDLQAndTTL, SetupDLQ
    <3> QED
      BY <3>1
  <2> QED
    BY <2>1, <2>2, <2>3
<1>3. ASSUME NEW s \in {"default", "keyed", "topic", "ttl"}
      PROVE  /\ Len(Declarations[s]) = 4
             /\ s # "default" => \E type \in {"direct", "topic"}, key \in {MessageKey, "#"} :
                    /\ type = "topic" \/ key = MessageKey
                    /\ Declarations[s][1] = Exchange("q.dlq.exchange", type)
                    /\ Declarations[s][2] = Queue("q.dlq", "", "")
                    /\ Declarations[s][3] = Binding("q.dlq", key, "q.dlq.exchange")
                    /\ Declarations[s][4] = Queue("q", "q.dlq.exchange", "")
  <2>1. PICK type \in {"direct", "topic"}, key \in {MessageKey, "#", "q.failed"} :
                 /\ s # "default" => /\ key \in {MessageKey, "#"}
                                     /\ type = "topic" \/ key = MessageKey
                 /\ Declarations[s] =
                        <<Exchange("q.dlq.exchange", type), Queue("q.dlq", "", ""),
                          Binding("q.dlq", key, "q.dlq.exchange")>>
                        \o <<Queue("q", "q.dlq.exchange", "")>>
    BY <1>2
  <2> DEFINE a == Exchange("q.dlq.exchange", type)
             b == Queue("q.dlq", "", "")
             c == Binding("q.dlq", key, "q.dlq.exchange")
             d == Queue("q", "q.dlq.exchange", "")
             v == Declarations[s]
  <2>2. v = <<a, b, c>> \o <<d>>
    BY <2>1
  <2> HIDE DEF a, b, c, d, v
  <2>3. Len(v) = 4 /\ v[1] = a /\ v[2] = b /\ v[3] = c /\ v[4] = d
    BY <2>2, AppendedToThree
  <2> USE DEF a, b, c, d, v
  <2> QED
    BY <2>1, <2>3
<1>4. Len(Declarations["delayed"]) \in Nat
  BY <1>1 DEF Declarations, SetupDelayedRetryQueue, SetupDLQ
<1>5. \A s \in {"default", "keyed", "topic", "ttl", "delayed"} : Len(Declarations[s]) \in Nat
  <2>1. \A s \in {"default", "keyed", "topic", "ttl"} : Len(Declarations[s]) = 4
    BY <1>3, Zenon
  <2> QED
    BY <1>4, <2>1
<1>6. \A s \in {"keyed", "topic", "ttl"} :
          s \in {"default", "keyed", "topic", "ttl"} /\ s # "default"
  OBVIOUS
<1> QED
  BY <1>3, <1>5, <1>6, Zenon

(* Where the dead letters are bound under a key they match, they arrive.   *)
LEMMA DeadLettersArrive ==
    ASSUME DeclInv, Ready, setup \in {"keyed", "topic", "ttl"}
    PROVE  Destination = "dlq"
<1>1. PICK type \in {"direct", "topic"}, key \in {MessageKey, "#"} :
          /\ type = "topic" \/ key = MessageKey
          /\ Len(Declarations[setup]) = 4
          /\ Declarations[setup][1] = Exchange("q.dlq.exchange", type)
          /\ Declarations[setup][2] = Queue("q.dlq", "", "")
          /\ Declarations[setup][3] = Binding("q.dlq", key, "q.dlq.exchange")
          /\ Declarations[setup][4] = Queue("q", "q.dlq.exchange", "")
  BY DeclarationsAre
<1>2. setupAt \in Nat /\ setupAt > 4
  BY <1>1 DEF DeclInv, Ready
<1>3. \A i \in 1 .. 4 : Declarations[setup][i] \in declared
  <2>1. \A i \in 1 .. 4 : i < setupAt
    BY <1>2
  <2>2. \A i \in 1 .. 4 : i < setupAt => Declarations[setup][i] \in declared
    BY <1>1 DEF DeclInv
  <2> QED
    BY <2>1, <2>2
<1>4. declared = {Exchange("q.dlq.exchange", type), Queue("q.dlq", "", ""),
                  Binding("q.dlq", key, "q.dlq.exchange"), Queue("q", "q.dlq.exchange", "")}
  <2>1. \A d \in declared : \E i \in 1 .. 4 : d = Declarations[setup][i]
    BY <1>1 DEF DeclInv
  <2>2. \A i \in 1 .. 4 : i = 1 \/ i = 2 \/ i = 3 \/ i = 4
    OBVIOUS
  <2>3. /\ Declarations[setup][1] \in declared /\ Declarations[setup][2] \in declared
        /\ Declarations[setup][3] \in declared /\ Declarations[setup][4] \in declared
    BY <1>3
  <2>4. \A d \in declared : \/ d = Declarations[setup][1] \/ d = Declarations[setup][2]
                            \/ d = Declarations[setup][3] \/ d = Declarations[setup][4]
    BY <2>1, <2>2
  <2> QED
    BY <1>1, <2>3, <2>4
<1>5. \A d \in declared : d.kind = "queue" /\ d.name = "q" <=> d = Queue("q", "q.dlq.exchange", "")
  <2>1. Exchange("q.dlq.exchange", type).kind = "exchange"
    BY DEF Exchange
  <2>2. Binding("q.dlq", key, "q.dlq.exchange").kind = "binding"
    BY DEF Binding
  <2>3. /\ Queue("q.dlq", "", "").name = "q.dlq"
        /\ Queue("q", "q.dlq.exchange", "").name = "q"
        /\ Queue("q", "q.dlq.exchange", "").kind = "queue"
    BY DEF Queue
  <2> QED
    BY <1>4, <2>1, <2>2, <2>3
<1>6. DLX("q") = Queue("q", "q.dlq.exchange", "")
  BY <1>4, <1>5 DEF DLX
<1>7. DLX("q").dlx = "q.dlq.exchange"
  <2>1. Queue("q", "q.dlq.exchange", "").dlx = "q.dlq.exchange"
    BY DEF Queue
  <2> QED
    BY <1>6, <2>1
<1>8. "q.dlq" \in Routed("q.dlq.exchange", MessageKey)
  <2> DEFINE b == Binding("q.dlq", key, "q.dlq.exchange")
  <2>1. b \in declared /\ b.kind = "binding" /\ b.name = "q.dlq" /\ b.exchange = "q.dlq.exchange"
        /\ b.key = key
    BY <1>4 DEF Binding
  <2>2. b.key = MessageKey \/ (b.key = "#" /\ Exchange("q.dlq.exchange", "topic") \in declared)
    BY <1>1, <1>4, <2>1
  <2> QED
    BY <2>1, <2>2 DEF Routed
<1> QED
  BY <1>7, <1>8 DEF Destination

(* A worker gets a delivery from the queue alone.                          *)
LEMMA WorkSteps ==
    ASSUME Types, LinkInv, CallInv, DeliveryNext, NEW w \in Workers, work'[w].at # "none"
    PROVE  work[w].at # "none" \/ \E c \in Copies : Take(w, c)
<1>1. CASE UNCHANGED work
  BY <1>1
<1>2. ASSUME NEW v \in Workers, NEW c \in Copies, Take(v, c)
      PROVE  work[w].at # "none" \/ Take(w, c)
  BY <1>2 DEF Take, Types, WorkTypes
<1>3. ASSUME NEW v \in Workers, work[v].at # "none", Ack(v) \/ Nack(v)
      PROVE  work[w].at # "none"
  BY <1>3, ReleaseStep DEF Types, WorkTypes
<1>4. ASSUME NEW p \in Procs, Calling(p)
      PROVE  work[w].at # "none"
  <2>1. CASE Sends(p)
    BY <2>1 DEF Sends
  <2>2. ASSUME NEW result, Finish(p, result)
        PROVE  work[w].at # "none"
    BY <1>3, <1>4, <2>2, FinishStep, CallingStep DEF CallInv
  <2> QED
    BY <1>4, <2>1, <2>2, CallingStep
<1>5. ASSUME NEW v \in Workers, Handling(v)
      PROVE  work[w].at # "none"
  <2>1. work[v].at # "none"
    BY <1>5, HandlingStep
  <2>2. CASE PutsOff(v) \/ HandsOn(v)
    BY <2>1, <2>2 DEF PutsOff, HandsOn, Types, WorkTypes
  <2> QED
    BY <1>3, <1>5, <2>1, <2>2, HandlingStep
<1>6. CASE PublishBatch \/ Publish
  BY <1>6 DEF PublishBatch, Publish
<1> QED
  BY <1>2, <1>4, <1>5, <1>6, QuietStep, NextSteps DEF Quiet

LEMMA StepDeclInv ==
    ASSUME Types, LinkInv, CallInv, DeclInv, DeliveryNext
    PROVE  DeclInv'
<1>1. Len(Declarations[setup]) \in Nat /\ setup \in {"default", "keyed", "topic", "ttl", "delayed"}
  BY DeliveryAssumption, DeclarationsAre DEF Types, AppTypes
<1>2. CASE Declare \/ SetupFails
  <2>1. ~Ready /\ UNCHANGED <<setup, work>> /\ setupAt \in Nat \ {0}
        /\ setupAt \in 1 .. Len(Declarations[setup])
    BY <1>1, <1>2 DEF Declare, SetupFails, Ready, DeclInv
  <2>2. \A w \in Workers : work'[w].at = "none"
    BY <2>1 DEF DeclInv
  <2>3. CASE Declare
    BY <1>1, <2>1, <2>2, <2>3 DEF Declare, DeclInv
  <2>4. CASE SetupFails
    BY <1>1, <2>1, <2>2, <2>4 DEF SetupFails, DeclInv, brokerVars
  <2> QED
    BY <1>2, <2>3, <2>4
<1>3. CASE UNCHANGED <<setup, setupAt, declared>>
  <2>1. \A w \in Workers : work'[w].at # "none" => Ready
    BY WorkSteps DEF DeclInv, Take
  <2> QED
    BY <1>3, <2>1 DEF DeclInv, Ready
<1>4. CASE Quiet /\ ~(Declare \/ SetupFails)
  <2>1. CASE Relinking
    BY <2>1, <1>3, RelinkingStep DEF deliveryVars, appVars, brokerVars
  <2>2. CASE \E n \in Gens : Breaking(n)
    BY <2>2, <1>3 DEF Breaking, ConnectionGone, appVars
  <2>3. CASE Stop \/ \E n \in Gens : BrokerTakes(n) \/ BrokerRefuses(n)
    BY <2>3, <1>3 DEF Stop, BrokerTakes, BrokerRefuses, appVars, brokerVars
  <2>4. CASE \E c \in Copies : Expire(c)
    BY <2>4, <1>3 DEF Expire, appVars
  <2> QED
    BY <1>4, <2>1, <2>2, <2>3, <2>4 DEF Quiet
<1>5. CASE \E p \in Procs : Calling(p)
  BY <1>3, <1>5, CallingStep
<1>6. CASE \E w \in Workers : Handling(w)
  BY <1>3, <1>6, HandlingStep DEF appVars
<1>7. CASE PublishBatch \/ Publish \/ \E w \in Workers, c \in Copies : Take(w, c)
  BY <1>3, <1>7 DEF PublishBatch, Publish, Take, appVars, brokerVars
<1> QED
  BY <1>2, <1>4, <1>5, <1>6, <1>7, NextSteps DEF Quiet
-----------------------------------------------------------------------------
(* What only grows, and what stays.                                        *)
LEMMA HistorySteps ==
    ASSUME Types, LinkInv, CallInv, DeliveryNext
    PROVE  /\ mode' = mode /\ setup' = setup
           /\ dlq \subseteq dlq' /\ unrouted \subseteq unrouted'
           /\ handled \subseteq handled' /\ misled \subseteq misled' /\ late' >= late
<1>1. late >= late
  BY DEF Types, HistoryTypes
<1>2. CASE Quiet
  <2>1. mode' = mode /\ setup' = setup /\ handled' = handled /\ misled' = misled /\ late' = late
    BY <1>2, QuietStep
  <2>2. dlq \subseteq dlq' /\ unrouted \subseteq unrouted'
    <3>1. CASE Relinking
      BY <3>1, RelinkingStep DEF deliveryVars, brokerVars
    <3>2. CASE \E n \in Gens : Breaking(n)
      BY <3>2 DEF Breaking, ConnectionGone
    <3>3. CASE Declare \/ SetupFails \/ Stop
      BY <3>3 DEF Declare, SetupFails, Stop, brokerVars
    <3>4. CASE \E n \in Gens : BrokerTakes(n) \/ BrokerRefuses(n)
      BY <3>4 DEF BrokerTakes, BrokerRefuses
    <3>5. CASE \E c \in Copies : Expire(c)
      BY <3>5 DEF Expire
    <3> QED
      BY <1>2, <3>1, <3>2, <3>3, <3>4, <3>5 DEF Quiet
  <2> QED
    BY <1>1, <2>1, <2>2
<1>3. CASE PublishBatch \/ Publish \/ \E w \in Workers, c \in Copies : Take(w, c)
  BY <1>1, <1>3 DEF PublishBatch, Publish, Take, brokerVars, historyVars
<1>4. ASSUME NEW p \in Procs, Calling(p)
      PROVE  /\ mode' = mode /\ setup' = setup
             /\ dlq \subseteq dlq' /\ unrouted \subseteq unrouted'
             /\ handled \subseteq handled' /\ misled \subseteq misled' /\ late' >= late
  <2>1. misled \subseteq misled' /\ late' >= late
    BY <1>1, <1>4 DEF Calling, Send, ReceiveConfirm, ConfirmsClosed, PublishTimeout, historyVars,
                      Types, HistoryTypes
  <2>2. CASE Sends(p)
    BY <1>4, <2>1, <2>2, CallingStep DEF Sends
  <2>3. ASSUME NEW result, Finish(p, result)
        PROVE  dlq \subseteq dlq' /\ unrouted \subseteq unrouted'
    <3>1. CASE p = App
      BY <2>3, <3>1, FinishStep
    <3>2. CASE p # App
      BY <1>4, <2>3, <3>2, FinishStep, CallingStep, ReleaseStep DEF CallInv
    <3> QED
      BY <3>1, <3>2
  <2> QED
    BY <1>4, <2>1, <2>2, <2>3, CallingStep
<1>5. ASSUME NEW w \in Workers, Handling(w)
      PROVE  /\ mode' = mode /\ setup' = setup
             /\ dlq \subseteq dlq' /\ unrouted \subseteq unrouted'
             /\ handled \subseteq handled' /\ misled \subseteq misled' /\ late' >= late
  <2>1. handled \subseteq handled'
    BY <1>5, HandlingStep DEF PutsOff, HandsOn
  <2>2. work[w].at # "none"
    BY <1>5, HandlingStep
  <2>3. dlq \subseteq dlq' /\ unrouted \subseteq unrouted'
    BY <1>5, <2>2, HandlingStep, ReleaseStep DEF PutsOff, HandsOn
  <2> QED
    BY <1>1, <1>5, <2>1, <2>3, HandlingStep
<1> QED
  BY <1>2, <1>3, <1>4, <1>5, NextSteps DEF Quiet

LEMMA TakenStep ==
    ASSUME Types, NEW n \in Gens, BrokerTakes(n)
    PROVE  /\ flight[n] # <<>> /\ Head(flight[n]) \in Copies
           /\ accepted' = accepted \cup {Head(flight[n])[1]}
           /\ queue'[Head(flight[n])] > 0
<1>1. flight[n] # <<>> /\ Head(flight[n]) \in Copies
  BY SequenceSteps DEF BrokerTakes, Types, BrokerTypes
<1> QED
  BY <1>1 DEF BrokerTakes, Add, Types, BrokerTypes

LEMMA AcceptedSteps ==
    ASSUME Types, LinkInv, DeliveryNext
    PROVE  accepted' = accepted \/ \E n \in Gens : BrokerTakes(n)
<1>1. CASE Relinking
  BY <1>1, RelinkingStep DEF deliveryVars, brokerVars
<1>2. CASE \E n \in Gens : Breaking(n)
  BY <1>2 DEF Breaking, ConnectionGone
<1>3. CASE \/ Declare \/ SetupFails \/ PublishBatch \/ Publish \/ Stop
           \/ \E n \in Gens : BrokerRefuses(n)
           \/ \E c \in Copies : Expire(c) \/ \E w \in Workers : Take(w, c)
  BY <1>3 DEF Declare, SetupFails, PublishBatch, Publish, Stop, BrokerRefuses, Expire, Take,
              brokerVars
<1> QED
  BY <1>1, <1>2, <1>3, NextSteps, CallingStep, HandlingStep

(* A positive confirm comes from the broker that has taken the copy.       *)
LEMMA AckedSteps ==
    ASSUME Types, LinkInv, DeliveryNext, NEW c \in Copies, Acked(c)'
    PROVE  Acked(c) \/ \E n \in Gens : BrokerTakes(n) /\ c = Head(flight[n])
<1>0. PICK n \in Gens :
          \E i \in 1 .. Len(confirms'[n]) : confirms'[n][i] = [ack |-> TRUE, copy |-> c]
  BY DEF Acked
<1>1. PICK i \in 1 .. Len(confirms'[n]) : confirms'[n][i] = [ack |-> TRUE, copy |-> c]
  BY <1>0
<1>2. ASSUME UNCHANGED confirms
      PROVE  Acked(c)
  BY <1>1, <1>2 DEF Acked
<1>3. ASSUME NEW p \in Procs, ReceiveConfirm(p)
      PROVE  Acked(c)
  <2> DEFINE g == call[p].gen
  <2>1. g \in Gens /\ confirms[g] # <<>> /\ confirms' = [confirms EXCEPT ![g] = Tail(@)]
    BY <1>3 DEF ReceiveConfirm, Types, CallTypes
  <2>2. CASE n # g
    BY <1>1, <2>1, <2>2 DEF Acked, Types, BrokerTypes
  <2>3. CASE n = g
    <3>1. /\ confirms'[n] = Tail(confirms[n]) /\ confirms[n] \in Seq(Confirmation)
          /\ confirms[n] # <<>>
      BY <2>1, <2>3 DEF Types, BrokerTypes
    <3>2. /\ Len(confirms[n]) \in Nat /\ Len(Tail(confirms[n])) = Len(confirms[n]) - 1
          /\ \A k \in 1 .. Len(Tail(confirms[n])) : Tail(confirms[n])[k] = confirms[n][k + 1]
      BY <3>1, SequenceSteps
    <3>3. i \in 1 .. Len(Tail(confirms[n])) /\ i + 1 \in 1 .. Len(confirms[n])
      BY <1>1, <3>1, <3>2
    <3>4. confirms[n][i + 1] = [ack |-> TRUE, copy |-> c]
      BY <1>1, <3>1, <3>2, <3>3
    <3> QED
      BY <3>3, <3>4 DEF Acked
  <2> QED
    BY <2>2, <2>3
<1>4. ASSUME NEW b \in Gens, BrokerTakes(b) \/ BrokerRefuses(b)
      PROVE  Acked(c) \/ (BrokerTakes(b) /\ c = Head(flight[b]))
  <2>1. CASE confirms' = confirms
    BY <1>2, <2>1
  <2>2. ASSUME NEW ack \in BOOLEAN, ack => BrokerTakes(b),
               confirms' = [confirms EXCEPT ![b] =
                                Append(@, [ack |-> ack, copy |-> Head(flight[b])])]
        PROVE  Acked(c) \/ (BrokerTakes(b) /\ c = Head(flight[b]))
    <3> DEFINE x == [ack |-> ack, copy |-> Head(flight[b])]
    <3>1. x \in Confirmation /\ x.ack = ack /\ x.copy = Head(flight[b])
      BY <1>4, SequenceSteps DEF BrokerTakes, BrokerRefuses, Types, BrokerTypes, Confirmation
    <3>2. CASE n # b
      BY <1>1, <2>2, <3>2 DEF Acked, Types, BrokerTypes
    <3>3. CASE n = b
      <4>1. confirms'[n] = Append(confirms[n], x) /\ confirms[n] \in Seq(Confirmation)
        BY <2>2, <3>3 DEF Types, BrokerTypes
      <4> HIDE DEF x
      <4>2. /\ Len(confirms[n]) \in Nat /\ Len(confirms'[n]) = Len(confirms[n]) + 1
            /\ \A k \in 1 .. Len(confirms[n]) : confirms'[n][k] = confirms[n][k]
            /\ confirms'[n][Len(confirms[n]) + 1] = x
        BY <3>1, <4>1, SequenceSteps
      <4>3. CASE i \in 1 .. Len(confirms[n])
        BY <1>1, <4>2, <4>3 DEF Acked
      <4>4. CASE i = Len(confirms[n]) + 1
        <5>1. x = [ack |-> TRUE, copy |-> c]
          BY <1>1, <4>2, <4>4
        <5>2. x.ack = TRUE /\ x.copy = c
          BY <5>1
        <5> QED
          BY <2>2, <3>1, <5>2
      <4>5. i \in 1 .. Len(confirms[n]) \/ i = Len(confirms[n]) + 1
        BY <1>1, <4>2
      <4> QED
        BY <4>3, <4>4, <4>5
    <3> QED
      BY <3>2, <3>3
  <2>3. \/ confirms' = confirms
        \/ \E ack \in BOOLEAN :
               /\ ack => BrokerTakes(b)
               /\ confirms' = [confirms EXCEPT ![b] =
                                  Append(@, [ack |-> ack, copy |-> Head(flight[b])])]
    <3>1. CASE BrokerTakes(b) /\ mode # "noConfirms"
      BY <3>1 DEF BrokerTakes
    <3>2. CASE BrokerTakes(b) /\ mode = "noConfirms"
      BY <3>2 DEF BrokerTakes
    <3>3. CASE BrokerRefuses(b)
      BY <3>3 DEF BrokerRefuses
    <3> QED
      BY <1>4, <3>1, <3>2, <3>3
  <2> QED
    BY <2>1, <2>2, <2>3
<1>5. CASE Relinking \/ \E b \in Gens : Breaking(b)
  BY <1>2, <1>5, RelinkingStep DEF deliveryVars, brokerVars, Breaking, ConnectionGone
<1>6. CASE \/ Declare \/ SetupFails \/ PublishBatch \/ Publish \/ Stop
           \/ \E k \in Copies : Expire(k) \/ \E w \in Workers : Take(w, k)
  BY <1>2, <1>6 DEF Declare, SetupFails, PublishBatch, Publish, Stop, Expire, Take, brokerVars
<1>7. CASE \E w \in Workers : Handling(w)
  BY <1>2, <1>7, HandlingStep
<1>8. CASE \E p \in Procs : Calling(p)
  BY <1>2, <1>3, <1>8, CallingFlight
<1> QED
  BY <1>4, <1>5, <1>6, <1>7, <1>8, NextSteps

LEMMA StepAckInv ==
    ASSUME Types, LinkInv, AckInv, DeliveryNext
    PROVE  AckInv'
<1> SUFFICES ASSUME NEW c \in Copies, Acked(c)'
             PROVE  c[1] \in accepted'
  BY DEF AckInv
<1>1. accepted \subseteq accepted'
  BY AcceptedSteps, TakenStep
<1>2. CASE Acked(c)
  BY <1>1, <1>2 DEF AckInv
<1>3. CASE \E n \in Gens : BrokerTakes(n) /\ c = Head(flight[n])
  BY <1>3, TakenStep
<1> QED
  BY <1>2, <1>3, AckedSteps

(* What a process was told: the next confirm was positive.                 *)
LEMMA ReceivedOk ==
    ASSUME Types, LinkInv, NEW p \in Procs, ReceiveConfirm(p), Head(confirms[call[p].gen]).ack
    PROVE  /\ call[p].copy \in Copies
           /\ Acked(call[p].copy) \/ call[p].copy[1] \in misled'
<1> DEFINE g == call[p].gen
           x == Head(confirms[g])
<1>1. g \in Gens /\ confirms[g] # <<>> /\ call[p].copy \in Copies
  BY DEF ReceiveConfirm, Types, CallTypes
<1>2. confirms[g] \in Seq(Confirmation)
  BY <1>1 DEF Types, BrokerTypes
<1>3. x \in Confirmation /\ x = confirms[g][1] /\ Len(confirms[g]) \in Nat /\ Len(confirms[g]) > 0
  BY <1>1, <1>2, SequenceSteps
<1>4. CASE x.copy # call[p].copy
  BY <1>1, <1>3, <1>4 DEF ReceiveConfirm, Confirmation
<1>5. CASE x.copy = call[p].copy
  <2>1. x = [ack |-> TRUE, copy |-> call[p].copy]
    <3>1. x.ack = TRUE
      BY <1>3 DEF Confirmation
    <3> HIDE DEF x
    <3> QED
      BY <1>3, <1>5, <3>1 DEF Confirmation
  <2>2. 1 \in 1 .. Len(confirms[g])
    BY <1>3
  <2> QED
    BY <1>1, <1>3, <2>1, <2>2 DEF Acked
<1> QED
  BY <1>1, <1>4, <1>5

(* A publish reports success for three reasons.                            *)
LEMMA OkResult ==
    ASSUME Types, LinkInv, NEW p \in Procs, Calling(p), Finish(p, "ok"), ~Finish(p, "failed")
    PROVE  \/ mode = "noConfirms"
           \/ /\ mode # "noConfirms" /\ ReceiveConfirm(p)
              /\ Head(confirms[call[p].gen]).ack
<1>1. CASE Send(p)
  <2>1. Works(call[p].gen) /\ ~(~Works(call[p].gen))
    BY <1>1 DEF Send
  <2>2. CASE mode # "noConfirms"
    <3>1. call' = [call EXCEPT ![p] = Moved(@, "sent")]
      BY <1>1, <2>1, <2>2 DEF Send
    <3>2. call'[p].at = "sent"
      BY <3>1, IdleTypes DEF Types, CallTypes
    <3>3. call'[p].at = "none"
      BY FinishSending
    <3> QED
      BY <3>2, <3>3
  <2> QED
    BY <2>2
<1>2. CASE ReceiveConfirm(p)
  BY <1>2 DEF ReceiveConfirm
<1>3. ~ConfirmsClosed(p) /\ ~PublishTimeout(p)
  BY DEF ConfirmsClosed, PublishTimeout
<1> QED
  BY <1>1, <1>2, <1>3 DEF Calling

LEMMA StepOk ==
    ASSUME Types, LinkInv, CallInv, LockInv, OrderInv, AckInv, OkMeansAccepted, DeliveryNext
    PROVE  OkMeansAccepted'
<1>1. /\ mode' = mode /\ misled \subseteq misled' /\ late' >= late /\ late \in Nat
      /\ accepted \subseteq accepted'
  BY HistorySteps, AcceptedSteps, TakenStep DEF Types, HistoryTypes
<1>2. late' \in Nat /\ OrderInv'
  BY StepTypes, StepOrderInv DEF Types, HistoryTypes
<1> SUFFICES ASSUME NEW m \in Messages, outcome'[m] = "ok"
             PROVE  m \in accepted' \/ mode = "noConfirms" \/ (m \in misled' /\ late' > 0)
  BY <1>1 DEF OkMeansAccepted
<1>3. CASE outcome[m] = "ok"
  BY <1>1, <1>2, <1>3 DEF OkMeansAccepted
<1>4. CASE outcome[m] # "ok"
  <2>1. ASSUME NEW result, Published(result), batch > 0
        PROVE  result = "ok" /\ m = Head(left)
    <3>1. outcome' = [outcome EXCEPT ![Head(left)] = result]
      BY <2>1 DEF Published
    <3> QED
      BY <1>4, <3>1 DEF Types, AppTypes
  <2>2. UNCHANGED outcome => FALSE
    BY <1>4
  <2>3. Calling(App)
    <3>1. CASE \E w \in Workers : Handling(w)
      BY <2>2, <3>1, HandlingStep DEF appVars
    <3>2. CASE PublishBatch \/ Quiet \/ \E w \in Workers, c \in Copies : Take(w, c)
      BY <2>2, <3>2, QuietStep DEF PublishBatch, Take, appVars
    <3>3. CASE Publish
      BY <2>1, <2>2, <3>3, PublishStep
    <3>4. ASSUME NEW p \in Procs, Calling(p), p # App
          PROVE  FALSE
      BY <2>2, <3>4, CallingStep, FinishStep DEF Sends
    <3> QED
      BY <3>1, <3>2, <3>3, <3>4, NextSteps DEF Quiet
  <2>4. call[App].at # "none" /\ batch > 0 /\ call[App].copy = <<Head(left), 0>>
    BY <2>3, CallingStep, Constants DEF CallInv
  <2>5. Finish(App, "ok") /\ ~Finish(App, "failed") /\ m = Head(left)
    <3>1. ~Sends(App)
      BY <2>2 DEF Sends
    <3>2. PICK result \in {"ok", "failed"} : Finish(App, result)
      BY <2>3, <3>1, CallingStep, Constants
    <3>3. \A other : Finish(App, other) => other = "ok" /\ m = Head(left)
      BY <2>1, <2>4, FinishStep, Constants
    <3> QED
      BY <3>2, <3>3
  <2>6. CASE mode = "noConfirms"
    BY <2>6
  <2>7. CASE ReceiveConfirm(App) /\ Head(confirms[call[App].gen]).ack
    <3>1. call[App].copy[1] = m
      BY <2>4, <2>5
    <3>2. call[App].copy \in Copies /\ (Acked(call[App].copy) \/ m \in misled')
      BY <2>7, <3>1, ReceivedOk, Constants
    <3>3. CASE Acked(call[App].copy)
      BY <1>1, <3>1, <3>2, <3>3 DEF AckInv
    <3>4. CASE m \in misled'
      <4>1. late' # 0
        BY <1>2, <3>4 DEF OrderInv
      <4> QED
        BY <1>2, <3>4, <4>1
    <3> QED
      BY <3>2, <3>3, <3>4
  <2> QED
    BY <2>3, <2>5, <2>6, <2>7, OkResult, Constants
<1> QED
  BY <1>3, <1>4
-----------------------------------------------------------------------------
(* No message is lost.                                                     *)
LEMMA SettledKeeps ==
    ASSUME Types, LinkInv, CallInv, DeliveryNext, NEW m \in Messages, Settled(m)
    PROVE  Settled(m)'
  BY HistorySteps DEF Settled

LEMMA WaitsKeeps ==
    ASSUME Types, Types', \A c \in Copies : queue'[c] >= queue[c],
           NEW m \in Messages, NEW r \in Nat, Waits(m, r)
    PROVE  Waits(m, r)'
<1>1. PICK k \in 0 .. MaxRetries : k >= r /\ queue[<<m, k>>] > 0
  BY DEF Waits
<1>2. <<m, k>> \in Copies
  BY CopyParts
<1>3. queue[<<m, k>>] \in Nat /\ queue'[<<m, k>>] \in Nat /\ queue'[<<m, k>>] >= queue[<<m, k>>]
  BY <1>2 DEF Types, BrokerTypes
<1>4. queue'[<<m, k>>] > 0
  BY <1>1, <1>3
<1> QED
  BY <1>1, <1>4 DEF Waits

LEMMA WaitsFor ==
    ASSUME NEW c \in Copies, queue'[c] > 0, NEW r \in Nat, c[2] >= r
    PROVE  Waits(c[1], r)'
  BY CopyParts DEF Waits

(* A worker that keeps its delivery and its channel.                       *)
Keeps(w) ==
    /\ work'[w].at # "none"
    /\ work'[w].gen = work[w].gen /\ work'[w].copy = work[w].copy
    /\ link'[work[w].gen] = "open"

LEMMA KeptIsHeld ==
    ASSUME LinkInv', Types, NEW w \in Workers, work[w].at # "none", Keeps(w),
           NEW m, NEW r, work[w].copy[1] = m, work[w].copy[2] >= r
    PROVE  Held(m, r)'
<1>1. work[w].gen \in Gens
  BY DEF Types, WorkTypes
<1>2. Works(work[w].gen)'
  BY <1>1 DEF LinkInv, Works, Keeps
<1> QED
  BY <1>2 DEF Held, Live, Works, Keeps

(* What is rejected goes somewhere.                                        *)
LEMMA NackIsSafe ==
    ASSUME Types, DeclInv, NEW w \in Workers, work[w].at # "none", Live(w), Nack(w),
           setup' = setup, NEW c \in Copies, work[w].copy = c, NEW r \in Nat, c[2] >= r
    PROVE  Waits(c[1], r)' \/ Settled(c[1])'
<1>1. work[w].copy = c
  OBVIOUS
<1>2. CASE Destination = "dlq"
  <2>1. c[1] \in dlq'
    BY <1>2 DEF Nack
  <2> QED
    BY <2>1 DEF Settled
<1>3. CASE Destination = "queue"
  <2>1. queue' = Add(queue, c)
    BY <1>3 DEF Nack
  <2>2. queue'[c] > 0
    BY <1>1, <2>1 DEF Add, Types, BrokerTypes
  <2> QED
    BY <1>1, <2>2, WaitsFor
<1>4. CASE Destination = "nowhere"
  <2>1. Ready
    BY DEF DeclInv
  <2>2. setup \in {"default", "delayed"}
    BY <1>4, <2>1, DeadLettersArrive, DeliveryAssumption DEF Types, AppTypes
  <2>3. c[1] \in unrouted'
    BY <1>4 DEF Nack
  <2> QED
    BY <2>2, <2>3 DEF Settled
<1> QED
  BY <1>2, <1>3, <1>4 DEF Destination

(* A delivery is acknowledged when its message is settled, or when a       *)
(* further copy is.                                                        *)
LEMMA AckIsSafe ==
    ASSUME DeliveryInv, DeliveryNext, mode = "confirms", NEW w \in Workers, Calling(w),
           Finish(w, "ok"), ~Finish(w, "failed"), NEW m \in Messages, NEW k \in Nat,
           work[w].copy = <<m, k>>, NEW r \in Nat, k >= r,
           \A v \in Workers : v # w /\ work[v].at # "none" /\ Live(v) => Keeps(v),
           Types', LinkInv'
    PROVE  Safe(m, r)'
<1>1. w \in Procs /\ w # App
  BY Constants
<1>2. call[w].at # "none" /\ work[w].at = "republish" /\ call[w].copy = <<m, k + 1>>
  BY <1>1, CallingStep DEF CallInv, DeliveryInv
<1>3. m \in Messages /\ k \in Nat
  OBVIOUS
<1>4. ReceiveConfirm(w) /\ Head(confirms[call[w].gen]).ack
  BY <1>1, OkResult DEF DeliveryInv
<1>5. call[w].copy \in Copies /\ (Acked(call[w].copy) \/ call[w].copy[1] \in misled')
  BY <1>1, <1>4, ReceivedOk DEF DeliveryInv
<1>6. call[w].copy[1] = m /\ call[w].copy[2] = k + 1
  BY <1>2
<1>7. CASE m \in misled'
  BY <1>7 DEF Safe, Settled
<1>8. CASE Acked(call[w].copy)
  <2>1. Safe(m, k + 1)
    BY <1>5, <1>6, <1>8 DEF DeliveryInv, SafeInv
  <2>2. CASE Settled(m)
    BY <1>3, <2>2, SettledKeeps DEF DeliveryInv, Safe
  <2>3. CASE Waits(m, k + 1)
    <3>1. Waits(m, r)
      BY <1>3, <2>3, Constants DEF Waits
    <3>2. \A c \in Copies : queue'[c] >= queue[c]
      BY <1>1, <1>2, FinishStep, ReleaseStep DEF DeliveryInv
    <3> QED
      BY <1>3, <3>1, <3>2, WaitsKeeps DEF DeliveryInv, Safe
  <2>4. CASE Held(m, k + 1)
    <3>1. PICK v \in Workers : /\ work[v].at # "none" /\ Live(v)
                               /\ work[v].copy[1] = m /\ work[v].copy[2] >= k + 1
      BY <2>4 DEF Held
    <3>2. work[v].copy[2] \in Nat
      BY <3>1, CopyParts DEF DeliveryInv, Types, WorkTypes
    <3>3. v # w /\ work[v].copy[2] >= r
      BY <1>3, <3>1, <3>2
    <3>4. Keeps(v)
      BY <3>1, <3>3
    <3> QED
      BY <3>1, <3>3, <3>4, KeptIsHeld DEF DeliveryInv, Safe
  <2> QED
    BY <2>1, <2>2, <2>3, <2>4 DEF Safe
<1> QED
  BY <1>5, <1>6, <1>7, <1>8

LEMMA CallingKeepsSafe ==
    ASSUME DeliveryInv, DeliveryNext, Types', LinkInv', mode = "confirms",
           NEW p \in Procs, Calling(p), NEW m \in Messages, NEW r \in Nat, Safe(m, r)
    PROVE  Safe(m, r)'
<1>0. Types /\ LinkInv /\ CallInv /\ DeclInv
  BY DEF DeliveryInv
<1>1. /\ UNCHANGED <<linkVars, setup>> /\ call[p].at # "none"
      /\ Sends(p) \/ \E result \in {"ok", "failed"} : Finish(p, result)
  BY <1>0, CallingStep
<1>2. CASE Settled(m)
  BY <1>0, <1>2, SettledKeeps DEF Safe
<1>3. CASE Waits(m, r)
  <2>1. \A c \in Copies : queue'[c] >= queue[c]
    <3>1. CASE UNCHANGED queue
      BY <1>0, <3>1 DEF Types, BrokerTypes
    <3>2. CASE p # App /\ \E result \in {"ok", "failed"} : Finish(p, result)
      BY <1>0, <1>1, <3>2, FinishStep, ReleaseStep DEF CallInv
    <3> QED
      BY <1>1, <3>1, <3>2, FinishStep DEF Sends
  <2> QED
    BY <1>0, <1>3, <2>1, WaitsKeeps DEF Safe
<1>4. CASE Held(m, r)
  <2>1. PICK v \in Workers : /\ work[v].at # "none" /\ Live(v)
                             /\ work[v].copy[1] = m /\ work[v].copy[2] >= r
    BY <1>4 DEF Held
  <2>2. \A u \in Workers : work[u].at # "none" /\ Live(u) /\ work'[u] = work[u] => Keeps(u)
    BY <1>0, <1>1, WorksIsOpen DEF Live, Keeps, linkVars, Types, WorkTypes
  <2>3. CASE work'[v] = work[v]
    BY <1>0, <2>1, <2>2, <2>3, KeptIsHeld DEF Safe
  <2>4. CASE work'[v] # work[v]
    <3>1. p = v /\ \E result \in {"ok", "failed"} : Finish(p, result)
      <4>1. ~Sends(p)
        BY <2>4 DEF Sends
      <4>2. PICK result \in {"ok", "failed"} : Finish(p, result)
        BY <1>1, <4>1
      <4>3. p # App
        BY <2>4, <4>2, FinishStep
      <4>4. work' = [work EXCEPT ![p] = Idle]
        BY <1>0, <1>1, <4>2, <4>3, FinishStep, ReleaseStep DEF CallInv
      <4> QED
        BY <1>0, <2>4, <4>2, <4>4 DEF Types, WorkTypes
    <3>2. v # App /\ v \in Procs
      BY Constants
    <3>0. PICK c \in Copies : work[v].copy = c
      BY <1>0, <2>1 DEF Types, WorkTypes
    <3>3. CASE Nack(v)
      <4>1. Waits(c[1], r)' \/ Settled(c[1])'
        BY <1>0, <1>1, <2>1, <3>0, <3>3, NackIsSafe
      <4> QED
        BY <2>1, <3>0, <4>1 DEF Safe
    <3>4. CASE ~Nack(v)
      <4>1. ~Finish(v, "failed") /\ Finish(v, "ok")
        BY <3>1, <3>2, <3>4, FinishStep
      <4>2. work' = [work EXCEPT ![v] = Idle]
        BY <1>0, <2>1, <3>2, <4>1, FinishStep, ReleaseStep
      <4>3. \A u \in Workers : u # v /\ work[u].at # "none" /\ Live(u) => Keeps(u)
        BY <1>0, <2>2, <4>2 DEF Types, WorkTypes
      <4> QED
        <5>1. c = <<m, c[2]>> /\ c[2] \in Nat /\ c[2] >= r
          BY <2>1, <3>0, CopyParts
        <5> QED
          BY <2>1, <3>0, <3>1, <4>1, <4>3, <5>1, AckIsSafe
    <3> QED
      BY <3>3, <3>4
  <2> QED
    BY <2>3, <2>4
<1> QED
  BY <1>2, <1>3, <1>4 DEF Safe

LEMMA HandlingKeepsSafe ==
    ASSUME DeliveryInv, DeliveryNext, Types', LinkInv', mode = "confirms",
           NEW w \in Workers, Handling(w), NEW m \in Messages, NEW r \in Nat, Safe(m, r)
    PROVE  Safe(m, r)'
<1>0. Types /\ LinkInv /\ CallInv /\ DeclInv
  BY DEF DeliveryInv
<1>1. work[w].at \in {"handling", "backoff"} /\ UNCHANGED <<linkVars, setup>>
  BY <1>0, HandlingStep
<1>2. CASE Settled(m)
  BY <1>0, <1>2, SettledKeeps DEF Safe
<1>3. CASE Waits(m, r)
  <2>1. \A c \in Copies : queue'[c] >= queue[c]
    <3>1. CASE UNCHANGED queue
      BY <1>0, <3>1 DEF Types, BrokerTypes
    <3>2. CASE Ack(w) \/ Nack(w)
      BY <1>0, <1>1, <3>2, ReleaseStep
    <3> QED
      BY <1>0, <3>1, <3>2, HandlingStep DEF PutsOff, HandsOn
  <2> QED
    BY <1>0, <1>3, <2>1, WaitsKeeps DEF Safe
<1>4. CASE Held(m, r)
  <2>1. PICK v \in Workers : /\ work[v].at # "none" /\ Live(v)
                             /\ work[v].copy[1] = m /\ work[v].copy[2] >= r
    BY <1>4 DEF Held
  <2>2. \A u \in Workers : /\ work[u].at # "none" /\ Live(u) /\ work'[u].at # "none"
                           /\ work'[u].gen = work[u].gen /\ work'[u].copy = work[u].copy
                           => Keeps(u)
    BY <1>0, <1>1, WorksIsOpen DEF Live, Keeps, linkVars, Types, WorkTypes
  <2>3. CASE v # w
    <3>1. \E x : work' = [work EXCEPT ![w] = x]
      BY <1>0, <1>1, HandlingStep, ReleaseStep DEF PutsOff, HandsOn
    <3>2. work'[v] = work[v]
      BY <1>0, <2>3, <3>1 DEF Types, WorkTypes
    <3> QED
      BY <1>0, <2>1, <2>2, <3>2, KeptIsHeld DEF Safe
  <2>4. CASE v = w /\ (PutsOff(w) \/ HandsOn(w))
    <3>1. \E at \in {"backoff", "republish"} : work' = [work EXCEPT ![w] = Moved(work[w], at)]
      BY <1>0, <2>4 DEF PutsOff, HandsOn, Types, WorkTypes
    <3>2. work'[w].at # "none" /\ work'[w].gen = work[w].gen /\ work'[w].copy = work[w].copy
      BY <1>0, <3>1, IdleTypes DEF Types, WorkTypes
    <3> QED
      BY <1>0, <2>1, <2>2, <2>4, <3>2, KeptIsHeld DEF Safe
  <2>5. CASE v = w /\ Nack(w)
    <3>1. PICK c \in Copies : work[w].copy = c
      BY <1>0, <2>1, <2>5 DEF Types, WorkTypes
    <3>2. Waits(c[1], r)' \/ Settled(c[1])'
      BY <1>0, <1>1, <2>1, <2>5, <3>1, NackIsSafe
    <3> QED
      BY <2>1, <2>5, <3>1, <3>2 DEF Safe
  <2>6. CASE v = w /\ handled' = handled \cup {work[w].copy[1]}
    BY <2>1, <2>6 DEF Safe, Settled
  <2> QED
    BY <1>0, <2>3, <2>4, <2>5, <2>6, HandlingStep
<1> QED
  BY <1>2, <1>3, <1>4 DEF Safe

LEMMA QueueKeepsSafe ==
    ASSUME DeliveryInv, DeliveryNext, Types', LinkInv',
           NEW c \in Copies, Expire(c) \/ \E w \in Workers : Take(w, c),
           NEW m \in Messages, NEW r \in Nat, Safe(m, r)
    PROVE  Safe(m, r)'
<1>0. Types /\ LinkInv /\ CallInv
  BY DEF DeliveryInv
<1>1. UNCHANGED linkVars /\ queue' = Remove(queue, c)
  BY DEF Expire, Take
<1>2. CASE Settled(m)
  BY <1>0, <1>2, SettledKeeps DEF Safe
<1>3. CASE Held(m, r)
  <2>1. PICK v \in Workers : /\ work[v].at # "none" /\ Live(v)
                             /\ work[v].copy[1] = m /\ work[v].copy[2] >= r
    BY <1>3 DEF Held
  <2>2. work'[v] = work[v]
    BY <1>0, <2>1 DEF Expire, Take, Types, WorkTypes
  <2>3. Keeps(v)
    BY <1>0, <1>1, <2>1, <2>2, WorksIsOpen DEF Live, Keeps, linkVars, Types, WorkTypes
  <2> QED
    BY <1>0, <2>1, <2>3, KeptIsHeld DEF Safe
<1>4. CASE Waits(m, r)
  <2>1. PICK k \in 0 .. MaxRetries : k >= r /\ queue[<<m, k>>] > 0
    BY <1>4 DEF Waits
  <2>2. <<m, k>> \in Copies
    BY CopyParts
  <2>3. CASE c # <<m, k>>
    <3>1. queue'[<<m, k>>] = queue[<<m, k>>]
      BY <1>0, <1>1, <2>2, <2>3 DEF Remove, Types, BrokerTypes
    <3> QED
      BY <2>1, <3>1 DEF Waits, Safe
  <2>4. CASE c = <<m, k>> /\ Expire(c)
    BY <2>4 DEF Expire, Safe, Settled
  <2>5. ASSUME c = <<m, k>>, NEW w \in Workers, Take(w, c)
        PROVE  Held(m, r)'
    <3>1. conn \in Gens /\ link[conn] = "open"
      BY <1>0, <2>5 DEF Take, Channel, PoolGiven, Works, Types, LinkTypeOK
    <3>2. work'[w] = [at |-> "handling", gen |-> conn, copy |-> c]
      BY <1>0, <2>5 DEF Take, Types, WorkTypes
    <3>3. work'[w].at # "none" /\ work'[w].gen = conn /\ work'[w].copy = c
      BY <3>2
    <3>4. Works(conn) /\ UNCHANGED linkVars
      BY <1>1, <2>5 DEF Take, Channel
    <3>5. Live(w)'
      BY <3>3, <3>4 DEF Live, Works, linkVars
    <3>6. work'[w].copy[1] = m /\ work'[w].copy[2] >= r
      BY <2>1, <2>5, <3>3
    <3> QED
      BY <3>3, <3>5, <3>6 DEF Held
  <2> QED
    BY <2>3, <2>4, <2>5 DEF Safe
<1> QED
  BY <1>2, <1>3, <1>4 DEF Safe

(* A connection that goes leaves its deliveries in the queue.              *)
LEMMA BreakingKeepsSafe ==
    ASSUME DeliveryInv, DeliveryNext, Types', LinkInv', mode = "confirms",
           NEW b \in Gens, Breaking(b), NEW m \in Messages, NEW r \in Nat, Safe(m, r)
    PROVE  Safe(m, r)'
<1>0. Types /\ LinkInv /\ CallInv /\ LinkTypeOK
  BY DEF DeliveryInv, Types
<1>1. ConnectionGone(b) /\ UNCHANGED work
  BY DEF Breaking, ConnectionGone
<1>2. CASE Settled(m)
  BY <1>0, <1>2, SettledKeeps DEF Safe
<1>3. CASE Waits(m, r)
  BY <1>0, <1>1, <1>3, GoneQueue, WaitsKeeps DEF Safe
<1>4. CASE Held(m, r)
  <2>1. PICK v \in Workers : /\ work[v].at # "none" /\ Live(v)
                             /\ work[v].copy[1] = m /\ work[v].copy[2] >= r
    BY <1>4 DEF Held
  <2>2. work[v].gen \in Gens /\ work[v].copy \in Copies /\ link[work[v].gen] = "open"
    BY <1>0, <2>1, WorksIsOpen DEF Live, Types, WorkTypes
  <2>3. CASE work[v].gen = b
    <3>1. queue'[work[v].copy] > 0
      BY <1>0, <1>1, <2>1, <2>3, GoneQueue
    <3>2. PICK c \in Copies : work[v].copy = c
      BY <2>2
    <3>3. Waits(c[1], r)'
      BY <2>1, <3>1, <3>2, WaitsFor
    <3> QED
      BY <2>1, <3>2, <3>3 DEF Safe
  <2>4. CASE work[v].gen # b
    <3>1. Keeps(v)
      BY <1>0, <1>1, <2>1, <2>2, <2>4, BreakingLeavesOthers DEF Keeps
    <3> QED
      BY <1>0, <2>1, <3>1, KeptIsHeld DEF Safe
  <2> QED
    BY <2>3, <2>4
<1> QED
  BY <1>2, <1>3, <1>4 DEF Safe

LEMMA OthersKeepSafe ==
    ASSUME DeliveryInv, DeliveryNext, Types', LinkInv', NEW m \in Messages, NEW r \in Nat,
           Safe(m, r),
           \/ Relinking \/ Declare \/ SetupFails \/ PublishBatch \/ Publish \/ Stop
           \/ \E n \in Gens : BrokerTakes(n) \/ BrokerRefuses(n)
    PROVE  Safe(m, r)'
<1>0. Types /\ LinkInv /\ CallInv /\ LinkTypeOK
  BY DEF DeliveryInv, Types
<1>1. UNCHANGED work /\ \A c \in Copies : queue'[c] >= queue[c]
  <2>1. UNCHANGED work /\ (UNCHANGED queue \/ \E c \in Copies : queue' = Add(queue, c))
    <3>1. CASE Relinking
      BY <3>1, RelinkingStep DEF deliveryVars, brokerVars
    <3>2. CASE Declare \/ SetupFails \/ PublishBatch \/ Publish \/ Stop
      BY <3>2 DEF Declare, SetupFails, PublishBatch, Publish, Stop, brokerVars
    <3>3. ASSUME NEW n \in Gens, BrokerTakes(n)
          PROVE  UNCHANGED work /\ \E c \in Copies : queue' = Add(queue, c)
      BY <1>0, <3>3, TakenStep DEF BrokerTakes
    <3>4. CASE \E n \in Gens : BrokerRefuses(n)
      BY <3>4 DEF BrokerRefuses
    <3> QED
      BY <3>1, <3>2, <3>3, <3>4
  <2>2. CASE UNCHANGED queue
    BY <1>0, <2>1, <2>2 DEF Types, BrokerTypes
  <2>3. ASSUME NEW c \in Copies, queue' = Add(queue, c)
        PROVE  \A d \in Copies : queue'[d] >= queue[d]
    <3> TAKE d \in Copies
    <3>1. queue[d] \in Nat /\ queue'[d] \in {queue[d], queue[d] + 1}
      BY <1>0, <2>3 DEF Add, Types, BrokerTypes
    <3> QED
      BY <3>1
  <2> QED
    BY <2>1, <2>2, <2>3
<1>2. CASE Settled(m)
  BY <1>0, <1>2, SettledKeeps DEF Safe
<1>3. CASE Waits(m, r)
  BY <1>0, <1>1, <1>3, WaitsKeeps DEF Safe
<1>4. CASE Held(m, r)
  <2>1. PICK v \in Workers : /\ work[v].at # "none" /\ Live(v)
                             /\ work[v].copy[1] = m /\ work[v].copy[2] >= r
    BY <1>4 DEF Held
  <2>2. work[v].gen \in Gens /\ link[work[v].gen] = "open"
    BY <1>0, <2>1, WorksIsOpen DEF Live, Types, WorkTypes
  <2>3. link'[work[v].gen] = "open"
    <3>1. CASE Relinking
      BY <1>0, <2>2, <3>1, RelinkingKeepsOpen
    <3>2. CASE UNCHANGED linkVars
      BY <2>2, <3>2 DEF linkVars
    <3> QED
      BY <3>1, <3>2 DEF Declare, SetupFails, PublishBatch, Publish, Stop, BrokerTakes, BrokerRefuses
  <2>4. Keeps(v)
    BY <1>1, <2>1, <2>3 DEF Keeps
  <2> QED
    BY <1>0, <2>1, <2>4, KeptIsHeld DEF Safe
<1> QED
  BY <1>2, <1>3, <1>4 DEF Safe

LEMMA StepSafeInv ==
    ASSUME DeliveryInv, DeliveryNext, Types', LinkInv'
    PROVE  SafeInv'
<1>0. Types /\ LinkInv /\ CallInv
  BY DEF DeliveryInv
<1>1. mode' = mode
  BY <1>0, HistorySteps
<1> SUFFICES ASSUME mode = "confirms"
             PROVE  /\ \A m \in accepted' : Safe(m, 0)'
                    /\ \A c \in Copies : Acked(c)' => Safe(c[1], c[2])'
  BY <1>1 DEF SafeInv
<1>2. ASSUME NEW m \in Messages, NEW r \in Nat, Safe(m, r)
      PROVE  Safe(m, r)'
  BY <1>0, <1>2, NextSteps, CallingKeepsSafe, HandlingKeepsSafe, QueueKeepsSafe,
     BreakingKeepsSafe, OthersKeepSafe
<1>3. ASSUME NEW n \in Gens, BrokerTakes(n), NEW c \in Copies, c = Head(flight[n]),
             NEW r \in Nat, c[2] >= r
      PROVE  Safe(c[1], r)'
  <2>1. queue'[c] > 0
    BY <1>0, <1>3, TakenStep
  <2>2. Waits(c[1], r)'
    BY <1>3, <2>1, WaitsFor
  <2> QED
    BY <2>1, <2>2 DEF Safe
<1>4. ASSUME NEW m \in accepted'
      PROVE  Safe(m, 0)'
  <2>1. CASE m \in accepted
    BY <1>0, <1>2, <2>1 DEF DeliveryInv, SafeInv, Types, HistoryTypes
  <2>2. CASE m \notin accepted
    <3>1. PICK n \in Gens : BrokerTakes(n) /\ m = Head(flight[n])[1]
      BY <1>0, <1>4, <2>2, AcceptedSteps, TakenStep
    <3>2. PICK c \in Copies : c = Head(flight[n])
      BY <1>0, <3>1, TakenStep
    <3>3. c[1] = m /\ c[2] >= 0
      BY <3>1, <3>2, CopyParts
    <3>4. Safe(c[1], 0)'
      BY <1>3, <3>1, <3>2, <3>3
    <3> QED
      BY <3>3, <3>4
  <2> QED
    BY <2>1, <2>2
<1>5. ASSUME NEW c \in Copies, Acked(c)'
      PROVE  Safe(c[1], c[2])'
  <2>1. c[1] \in Messages /\ c[2] \in Nat
    BY CopyParts
  <2>2. CASE Acked(c)
    BY <1>2, <2>1, <2>2 DEF DeliveryInv, SafeInv
  <2>3. CASE ~Acked(c)
    <3>1. PICK n \in Gens : BrokerTakes(n) /\ c = Head(flight[n])
      BY <1>0, <1>5, <2>3, AckedSteps
    <3>2. c[2] >= c[2]
      BY <2>1
    <3> QED
      BY <1>3, <2>1, <3>1, <3>2
  <2> QED
    BY <2>2, <2>3
<1> QED
  BY <1>4, <1>5

-----------------------------------------------------------------------------
(* The invariant holds at first and is kept.                               *)
LEMMA InitDeliveryInv ==
    ASSUME DeliveryInit
    PROVE  DeliveryInv
<1>1. Idle \in [at : {"none", "pool", "sent"}, gen : Gens \cup {NoGen}, copy : Copies \cup {NoCopy}]
      /\ Idle \in [at : {"none", "handling", "backoff", "republish"},
                   gen : Gens \cup {NoGen}, copy : Copies \cup {NoCopy}]
      /\ Idle.at = "none"
  BY DEF Idle
<1>2. \A p \in Procs : call[p].at = "none"
  BY <1>1 DEF DeliveryInit
<1>3. \A w \in Workers : work[w].at = "none"
  BY <1>1 DEF DeliveryInit
<1>4. \A n \in Gens : link[n] = "none" /\ flight[n] = <<>> /\ confirms[n] = <<>>
  BY DEF DeliveryInit, LinkInit
<1>5. Types
  <2>1. LinkTypeOK
    BY DEF DeliveryInit, LinkInit, LinkTypeOK
  <2>2. AppTypes
    <3>1. Msgs \in Seq(Messages) /\ Len(Msgs) \in Nat
      BY DeliveryAssumption
    <3> QED
      BY <3>1 DEF DeliveryInit, AppTypes
  <2>3. CallTypes /\ WorkTypes
    BY <1>1, <1>2, <1>3 DEF DeliveryInit, CallTypes, WorkTypes
  <2>4. BrokerTypes
    BY DEF DeliveryInit, BrokerTypes
  <2>5. HistoryTypes
    BY Constants DEF DeliveryInit, HistoryTypes
  <2> QED
    BY <2>1, <2>2, <2>3, <2>4, <2>5 DEF Types
<1>6. LinkInv
  BY DEF DeliveryInit, LinkInit, LinkInv
<1>7. DeclInv
  BY <1>3 DEF DeliveryInit, DeclInv
<1>8. CallInv
  <2>1. \A p \in Procs : ~(call[p].at # "none")
    BY <1>2
  <2>2. \A w \in Workers : ~(work[w].at \in {"backoff", "republish"}) /\ work[w].at # "republish"
    BY <1>3
  <2>3. \A w \in Workers : ~(call[w].at # "none")
    BY <2>1, Constants
  <2> QED
    BY <2>1, <2>2, <2>3, Constants DEF CallInv
<1>9. LockInv
  BY <1>2, <1>4 DEF LockInv, Sending
<1>10. OrderInv
  <2>1. ASSUME NEW n \in Gens
        PROVE  Len(flight[n]) + Len(confirms[n]) <= 1
    <3>1. flight[n] = <<>> /\ confirms[n] = <<>>
      BY <1>4
    <3>2. Len(flight[n]) = 0 /\ Len(confirms[n]) = 0
      BY <3>1
    <3> QED
      BY <3>2
  <2> QED
    BY <1>4, <2>1 DEF DeliveryInit, OrderInv
<1>11. \A c \in Copies : ~Acked(c)
  BY <1>4 DEF Acked
<1>12. AckInv /\ SafeInv
  BY <1>11 DEF DeliveryInit, AckInv, SafeInv
<1>13. OkMeansAccepted
  BY DEF DeliveryInit, OkMeansAccepted
<1> QED
  BY <1>5, <1>6, <1>7, <1>8, <1>9, <1>10, <1>12, <1>13 DEF DeliveryInv

LEMMA StepDeliveryInv ==
    ASSUME DeliveryInv, DeliveryNext
    PROVE  DeliveryInv'
<1>1. /\ Types /\ LinkInv /\ DeclInv /\ CallInv /\ LockInv /\ OrderInv /\ AckInv
      /\ OkMeansAccepted
  BY DEF DeliveryInv
<1>2. Types' /\ LinkInv'
  BY <1>1, StepTypes
<1>3. DeclInv' /\ CallInv' /\ LockInv' /\ OrderInv' /\ AckInv' /\ OkMeansAccepted'
  BY <1>1, StepDeclInv, StepCallInv, StepLockInv, StepOrderInv, StepAckInv, StepOk
<1>4. SafeInv'
  BY <1>2, StepSafeInv
<1> QED
  BY <1>2, <1>3, <1>4 DEF DeliveryInv

LEMMA StutterDeliveryInv ==
    ASSUME DeliveryInv, UNCHANGED allVars
    PROVE  DeliveryInv'
<1>0. /\ UNCHANGED <<link, poolOpen, conn, status, closed, mode, setup, setupAt, declared>>
      /\ UNCHANGED <<left, batch, call, outcome, work, stopped, flight, confirms, queue, dlq>>
      /\ UNCHANGED <<handled, accepted, unrouted, misled, late>>
  BY DEF allVars, linkVars, deliveryVars, appVars, brokerVars, historyVars
<1>1. Types' /\ LinkInv'
  BY <1>0 DEF DeliveryInv, Types, LinkTypeOK, AppTypes, CallTypes, WorkTypes, BrokerTypes,
         HistoryTypes, LinkInv
<1>2. DeclInv'
  BY <1>0 DEF DeliveryInv, DeclInv, Ready
<1>3. CallInv' /\ LockInv'
  BY <1>0 DEF DeliveryInv, CallInv, LockInv, Sending
<1>4. OrderInv'
  <2>1. \A p \in Procs, n \in Gens : Sending(p, n)' <=> Sending(p, n)
    BY <1>0 DEF Sending
  <2>2. OrderInv
    BY DEF DeliveryInv
  <2> QED
    BY <1>0, <2>1, <2>2 DEF OrderInv
<1>5. \A c : Acked(c)' <=> Acked(c)
  BY <1>0 DEF Acked
<1>6. \A m, r : Safe(m, r)' <=> Safe(m, r)
  BY <1>0 DEF Safe, Waits, Held, Settled, Live, Works
<1>7. AckInv' /\ SafeInv'
  BY <1>0, <1>5, <1>6 DEF DeliveryInv, AckInv, SafeInv
<1>8. OkMeansAccepted'
  BY <1>0 DEF DeliveryInv, OkMeansAccepted
<1> QED
  BY <1>1, <1>2, <1>3, <1>4, <1>7, <1>8 DEF DeliveryInv

(* The inductive invariant, for any number of messages, workers,           *)
(* connections, retries and timeouts (channel_pool.go:193-292,             *)
(* consumer.go:345-393, 455-590).                                          *)
THEOREM DeliveryInvariant == DeliverySpec => []DeliveryInv
<1>1. DeliveryInit => DeliveryInv
  BY InitDeliveryInv
<1>2. DeliveryInv /\ [DeliveryNext]_allVars => DeliveryInv'
  BY StepDeliveryInv, StutterDeliveryInv
<1> QED
  BY <1>1, <1>2, PTL DEF DeliverySpec

(* What happens to a message is a behaviour of the connections as          *)
(* RabbitLink has them, which the manager implements: publishing and       *)
(* handling change nothing about a connection.                             *)
THEOREM DeliveryKeepsLink == DeliverySpec => LinkSpec
<1>1. DeliveryInit => LinkInit
  BY DEF DeliveryInit
<1>2. DeliveryInv /\ [DeliveryNext]_allVars => [LinkNext]_linkVars
  <2>1. ASSUME DeliveryInv, DeliveryNext
        PROVE  [LinkNext]_linkVars
    BY <2>1, LinkSteps DEF DeliveryInv
  <2>2. ASSUME UNCHANGED allVars
        PROVE  UNCHANGED linkVars
    BY <2>2 DEF allVars
  <2> QED
    BY <2>1, <2>2
<1> QED
  BY <1>1, <1>2, DeliveryInvariant, PTL DEF DeliverySpec, LinkSpec

(* Every variable keeps its type, and no two processes are ever between    *)
(* the send and the confirm of the same publisher channel.                 *)
THEOREM DeliveryTypeCorrect == DeliverySpec => []DeliveryTypeOK
<1>1. ASSUME DeliveryInv, NEW n \in Gens
      PROVE  Cardinality({p \in Procs : call[p].at = "sent" /\ call[p].gen = n}) <= 1
  <2> DEFINE Senders == {p \in Procs : call[p].at = "sent" /\ call[p].gen = n}
  <2>1. \A p, q \in Senders : p = q
    BY <1>1 DEF DeliveryInv, LockInv, Sending
  <2>2. CASE Senders = {}
    <3>1. Cardinality(Senders) = 0
      BY <2>2, FS_EmptySet
    <3> QED
      BY <3>1
  <2>3. CASE Senders # {}
    <3>1. PICK p : p \in Senders
      BY <2>3
    <3>2. Senders = {p}
      BY <2>1, <3>1
    <3>3. Cardinality(Senders) = 1
      BY <3>2, FS_Singleton
    <3> QED
      BY <3>3
  <2> QED
    BY <2>2, <2>3
<1>2. ASSUME DeliveryInv
      PROVE  DeliveryTypeOK
  <2>1. LinkTypeOK /\ mode \in Modes /\ setup \in Setups
    BY <1>2 DEF DeliveryInv, Types, AppTypes
  <2>2. batch \in 0 .. Len(left) /\ outcome \in [Messages -> {"none", "ok", "failed"}]
    <3>1. Len(left) \in Nat /\ batch \in Nat /\ batch <= Len(left)
      BY <1>2 DEF DeliveryInv, Types, AppTypes
    <3> QED
      BY <1>2, <3>1 DEF DeliveryInv, Types, AppTypes
  <2>3. \A p \in Procs : /\ call[p].at \in {"none", "pool", "sent"}
                         /\ call[p].at # "none" => call[p].gen \in Gens /\ call[p].copy \in Copies
    BY <1>2 DEF DeliveryInv, Types, CallTypes
  <2>4. \A w \in Workers :
            /\ work[w].at \in {"none", "handling", "backoff", "republish"}
            /\ work[w].at # "none" => work[w].copy \in Copies /\ work[w].gen \in Gens
    BY <1>2 DEF DeliveryInv, Types, WorkTypes
  <2>5. \A c \in Copies : queue[c] \in Nat
    BY <1>2 DEF DeliveryInv, Types, BrokerTypes
  <2>6. /\ late \in 0 .. MaxTimeouts
        /\ dlq \cup handled \cup accepted \cup unrouted \cup misled \subseteq Messages
    BY <1>2, Constants DEF DeliveryInv, Types, HistoryTypes
  <2> QED
    BY <1>1, <1>2, <2>1, <2>2, <2>3, <2>4, <2>5, <2>6 DEF DeliveryTypeOK
<1> QED
  BY DeliveryInvariant, <1>2, PTL

(* A publish that reports success was taken by the broker, unless an       *)
(* earlier publish had timed out and left its confirm behind, for any      *)
(* number of publishers of the channel (channel_pool.go:245-268).          *)
THEOREM OkCorrect == DeliverySpec => []OkMeansAccepted
<1>1. DeliveryInv => OkMeansAccepted
  BY DEF DeliveryInv
<1> QED
  BY DeliveryInvariant, <1>1, PTL

(* No message that the broker took is lost between the attempts to handle  *)
(* it, for any number of messages, workers, retries and connections and    *)
(* every way of declaring the queue (consumer.go:497-590).                 *)
THEOREM NothingLostCorrect == DeliverySpec => []NothingLost
<1>1. DeliveryInv => NothingLost
  <2> SUFFICES ASSUME DeliveryInv, mode = "confirms", NEW m \in accepted
               PROVE  \/ InQueue(m) \/ Unacked(m) \/ m \in handled \cup dlq \cup misled
                      \/ setup \in {"default", "delayed"} /\ m \in unrouted
    BY DEF NothingLost
  <2>1. Safe(m, 0)
    BY DEF DeliveryInv, SafeInv
  <2>2. CASE Settled(m)
    BY <2>2 DEF Settled
  <2>3. CASE Waits(m, 0)
    BY <2>3 DEF Waits, InQueue
  <2>4. CASE Held(m, 0)
    BY <2>4 DEF Held, Unacked
  <2> QED
    BY <2>1, <2>2, <2>3, <2>4 DEF Safe
<1> QED
  BY DeliveryInvariant, <1>1, PTL
=============================================================================
