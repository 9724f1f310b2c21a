--------------------------- MODULE RabbitDelivery ---------------------------
(***************************************************************************)
(* pkg/messaging/rabbitmq: what happens to a message.  An application      *)
(* declares a queue and where its rejected messages go, publishes batches  *)
(* over the one publisher channel of the pool, and workers handle the      *)
(* deliveries: acknowledge, publish again with a higher retry count, or    *)
(* reject.  Connections, pools and reconnects are those of                 *)
(* RabbitLink; subscriptions are those of RabbitConsumer and appear  *)
(* here only as workers that take messages while the connection is usable. *)
(*                                                                         *)
(* The lock of the publisher channel is held from the send to the confirm, *)
(* so that its holder is the process that is at "sent".  The confirms come *)
(* through one channel, without saying whose they are.                     *)
(***************************************************************************)
EXTENDS RabbitLink, FiniteSets, Sequences

CONSTANTS
    Msgs,        \* the messages the application publishes, in this order
    Workers,     \* the goroutines that handle deliveries
    App,         \* the goroutine that publishes
    MaxRetries,  \* Config.MaxRetries
    MaxTimeouts, \* bound: the publishes that may time out
    Modes,       \* the configurations: "confirms", "noConfirms", "autoAck"
    Setups       \* the ways the queue may be declared

Messages == {Msgs[i] : i \in DOMAIN Msgs}

ASSUME DeliveryAssumption ==
    /\ Msgs \in Seq(Messages)
    /\ IsFiniteSet(Workers)
    /\ MaxRetries \in Nat /\ MaxTimeouts \in Nat
    /\ App \notin Workers
    /\ Modes \subseteq {"confirms", "noConfirms", "autoAck"}
    /\ Setups \subseteq {"default", "keyed", "topic", "ttl", "delayed"}

Procs == Workers \cup {App}
Copies == Messages \X (0 .. MaxRetries)   \* a message and its x-retry-count
NoCopy == <<>>

VARIABLES
    mode,      \* the client's and the consumer's configuration
    setup,     \* the way the queue is declared
    setupAt,   \* the declaration that is next
    declared,  \* the broker's exchanges, queues and bindings
    left,      \* the messages not yet published, in order
    batch,     \* how many of them the current PublishBatch call has to do
    call,      \* for each process: where its publish is
    outcome,   \* for each message: what its first publish returned
    work,      \* for each worker: the delivery it has
    stopped,   \* is the consumer's context done?
    flight,    \* for each generation: publishes the broker has not seen
    confirms,  \* for each generation: the channel of confirmations
    queue,     \* for each copy: how often it is ready in the queue
    dlq,       \* the messages in the dead-letter queue
    handled,   \* the messages of which a handler succeeded
    accepted,  \* history: the messages the broker took
    unrouted,  \* history: rejected messages that no queue was bound for
    misled,    \* history: a publish succeeded by the confirm of another one
    late       \* history: how many publishes have timed out

brokerVars == <<declared, flight, confirms, queue, dlq, accepted, unrouted>>
appVars == <<setupAt, left, batch, outcome>>
historyVars == <<handled, misled, late>>
deliveryVars == <<mode, setup, call, work, stopped, appVars, brokerVars, historyVars>>
allVars == <<linkVars, deliveryVars>>

Idle == [at |-> "none", gen |-> NoGen, copy |-> NoCopy]

(* The same publish or delivery, a step further.                           *)
Moved(r, at) == [at |-> at, gen |-> r.gen, copy |-> r.copy]

DeliveryTypeOK ==
    /\ LinkTypeOK
    /\ mode \in Modes /\ setup \in Setups
    /\ batch \in 0 .. Len(left)
    /\ \A p \in Procs :
           /\ call[p].at \in {"none", "pool", "sent"}
           /\ call[p].at # "none" => call[p].gen \in Gens /\ call[p].copy \in Copies
    /\ outcome \in [Messages -> {"none", "ok", "failed"}]
    /\ \A w \in Workers :
           /\ work[w].at \in {"none", "handling", "backoff", "republish"}
           /\ work[w].at # "none" => work[w].copy \in Copies /\ work[w].gen \in Gens
    /\ \A n \in Gens : Cardinality({p \in Procs : call[p].at = "sent" /\ call[p].gen = n}) <= 1
    /\ \A c \in Copies : queue[c] \in Nat
    /\ dlq \cup handled \cup accepted \cup unrouted \cup misled \subseteq Messages
    /\ late \in 0 .. MaxTimeouts
-----------------------------------------------------------------------------
(* Declarations, and how the broker routes by them.                        *)
Exchange(name, type) == [kind |-> "exchange", name |-> name, type |-> type]
Queue(name, dlx, dlKey) ==
    [kind |-> "queue", name |-> name, dlx |-> dlx, dlKey |-> dlKey]
Binding(name, key, exchange) ==
    [kind |-> "binding", name |-> name, key |-> key, exchange |-> exchange]

(* The routing key of the messages, under which the queue is bound.        *)
MessageKey == "q"

(* SetupDLQ with the names of DefaultDLQConfig.                            *)
SetupDLQ(type, routingKey) ==
    <<Exchange("q.dlq.exchange", IF type = "" THEN "direct" ELSE type),
      Queue("q.dlq", "", ""),
      Binding("q.dlq", IF routingKey = "" THEN "#" ELSE routingKey, "q.dlq.exchange")>>

DeclareQueueWithDLQ == <<Queue("q", "q.dlq.exchange", "")>>

(* The same with a TTL: the broker may reject what nobody has taken.       *)
DeclareQueueWithDLQAndTTL == <<Queue("q", "q.dlq.exchange", "")>>

SetupDelayedRetryQueue ==
    <<Exchange("q.exchange", "direct"),
      Queue("q", "q.retry.exchange", ""),
      Binding("q", "q", "q.exchange"),
      Exchange("q.retry.exchange", "direct"),
      Queue("q.retry", "q.exchange", "q"),
      Binding("q.retry", "q.retry", "q.retry.exchange")>>
    \o SetupDLQ("", "q.failed")

(* DefaultDLQConfig, and what an application may configure instead.        *)
Declarations ==
    [s \in {"default", "keyed", "topic", "ttl", "delayed"} |->
        CASE s = "default" -> SetupDLQ("direct", "q.failed") \o DeclareQueueWithDLQ
          [] s = "keyed"   -> SetupDLQ("", MessageKey) \o DeclareQueueWithDLQ
          [] s = "topic"   -> SetupDLQ("topic", "") \o DeclareQueueWithDLQ
          [] s = "ttl"     -> SetupDLQ("topic", "") \o DeclareQueueWithDLQAndTTL
          [] OTHER         -> SetupDelayedRetryQueue]

(* The broker's routing: a direct exchange compares keys, "#" of a topic   *)
(* exchange matches every key.                                             *)
Routed(exchange, key) ==
    {b.name : b \in {d \in declared :
        /\ d.kind = "binding" /\ d.exchange = exchange
        /\ \/ d.key = key
           \/ d.key = "#" /\ Exchange(exchange, "topic") \in declared}}

DLX(name) == CHOOSE d \in declared : d.kind = "queue" /\ d.name = name

(* Where a message rejected from the queue ends: the queue "q.retry" sends *)
(* what it holds on after its TTL.                                         *)
Destination ==
    LET first == Routed(DLX("q").dlx, MessageKey) IN
    IF "q.dlq" \in first THEN "dlq"
    ELSE IF "q.retry" \in first /\ "q" \in Routed(DLX("q.retry").dlx, DLX("q.retry").dlKey)
         THEN "queue" ELSE "nowhere"
-----------------------------------------------------------------------------
DeliveryInit ==
    /\ LinkInit
    /\ mode \in Modes /\ setup \in Setups
    /\ setupAt = 1 /\ declared = {}
    /\ left = Msgs /\ batch = 0
    /\ call = [p \in Procs |-> Idle]
    /\ outcome = [m \in Messages |-> "none"]
    /\ work = [w \in Workers |-> Idle]
    /\ stopped = FALSE
    /\ flight = [n \in Gens |-> <<>>]
    /\ confirms = [n \in Gens |-> <<>>]
    /\ queue = [c \in Copies |-> 0]
    /\ dlq = {} /\ handled = {} /\ accepted = {}
    /\ unrouted = {} /\ misled = {} /\ late = 0

(* Client.Channel, which the declarations use: the pool's guards, and a    *)
(* channel on its connection.                                              *)
Channel == PoolGiven /\ Works(conn)

(* IsConnected: the manager's flags and the state of its connection.       *)
IsConnected == PoolGiven /\ link[conn] = "open"

(* DeclareExchange, DeclareQueue or BindQueue: the next of the setup; all  *)
(* are idempotent.                                                         *)
Declare ==
    /\ setupAt <= Len(Declarations[setup])
    /\ Channel
    /\ declared' = declared \cup {Declarations[setup][setupAt]}
    /\ setupAt' = setupAt + 1
    /\ UNCHANGED <<linkVars, mode, setup, call, work, stopped, left, batch, outcome,
                   flight, confirms, queue, dlq, accepted, unrouted, historyVars>>

(* It fails, and the application starts the setup again.                   *)
SetupFails ==
    /\ setupAt \in 2 .. Len(Declarations[setup])
    /\ ~Channel
    /\ setupAt' = 1
    /\ UNCHANGED <<linkVars, mode, setup, call, work, stopped, left, batch, outcome,
                   brokerVars, historyVars>>

Ready == setupAt > Len(Declarations[setup])
-----------------------------------------------------------------------------
(* Publishing.  PublishBatch publishes in order and stops at the first     *)
(* failure; Publish is a batch of one.                                     *)
PublishBatch ==
    /\ Ready /\ batch = 0
    /\ \E k \in 1 .. Len(left) : batch' = k
    /\ UNCHANGED <<linkVars, mode, setup, call, work, stopped, setupAt, left, outcome,
                   brokerVars, historyVars>>

(* The application's publish is over with the given result.                *)
Published(result) ==
    /\ outcome' = [outcome EXCEPT ![Head(left)] = result]
    /\ left' = Tail(left)
    /\ batch' = IF result = "ok" THEN batch - 1 ELSE 0

(* Publish, down to publishInternal's channel pool.                        *)
Publish ==
    /\ batch > 0 /\ call[App].at = "none"
    /\ IF IsConnected
       THEN /\ call' = [call EXCEPT ![App] =
                           [at |-> "pool", gen |-> conn, copy |-> <<Head(left), 0>>]]
            /\ UNCHANGED <<left, batch, outcome>>
       ELSE Published("failed") /\ UNCHANGED call
    /\ UNCHANGED <<linkVars, mode, setup, work, stopped, setupAt, brokerVars, historyVars>>

Add(q, c) == [q EXCEPT ![c] = @ + 1]
Remove(q, c) == [q EXCEPT ![c] = @ - 1]

(* A delivery can be acknowledged or rejected on its own channel alone;    *)
(* when that is gone, the broker has put the message back.                 *)
Live(w) == Works(work[w].gen)

Ack(w) ==
    /\ work' = [work EXCEPT ![w] = Idle]
    /\ UNCHANGED <<queue, dlq, unrouted>>

(* Nack(false, false): to the dead-letter exchange.                        *)
Nack(w) ==
    LET m == work[w].copy[1] IN
    /\ work' = [work EXCEPT ![w] = Idle]
    /\ dlq' = IF Live(w) /\ Destination = "dlq" THEN dlq \cup {m} ELSE dlq
    /\ queue' = IF Live(w) /\ Destination = "queue" THEN Add(queue, work[w].copy) ELSE queue
    /\ unrouted' = IF Live(w) /\ Destination = "nowhere" THEN unrouted \cup {m} ELSE unrouted

(* Mistake: the delivery is acknowledged before its copy is confirmed.     *)
FinishAcks(p, result) ==
    /\ call' = [call EXCEPT ![p] = Idle]
    /\ IF p = App
       THEN Published(result) /\ UNCHANGED <<work, queue, dlq, unrouted>>
       ELSE Ack(p) /\ UNCHANGED <<left, batch, outcome>>

(* What the caller of the publisher channel does with its result.          *)
Finish(p, result) ==
    /\ call' = [call EXCEPT ![p] = Idle]
    /\ IF p = App
       THEN Published(result) /\ UNCHANGED <<work, queue, dlq, unrouted>>
       ELSE /\ IF result = "ok" THEN Ack(p) ELSE Nack(p)
            /\ UNCHANGED <<left, batch, outcome>>

Locked(n) == \E p \in Procs : call[p].at = "sent" /\ call[p].gen = n

(* PublishWithConfirm and PublishWithoutConfirm, up to the send.           *)
Send(p) ==
    LET n == call[p].gen IN
    /\ call[p].at = "pool"
    /\ ~Locked(n)
    /\ IF ~Works(n)
       THEN Finish(p, "failed") /\ UNCHANGED flight
       ELSE /\ flight' = [flight EXCEPT ![n] = Append(@, call[p].copy)]
            /\ IF mode = "noConfirms"
               THEN Finish(p, "ok")
               ELSE /\ call' = [call EXCEPT ![p] = Moved(@, "sent")]
                    /\ UNCHANGED <<work, queue, dlq, unrouted, left, batch, outcome>>
    /\ UNCHANGED <<linkVars, mode, setup, stopped, setupAt, declared, confirms, accepted,
                   historyVars>>

(* Mistake: whether the confirmation is positive is not looked at.         *)
ReceiveAnyConfirm(p) ==
    LET n == call[p].gen IN
    /\ call[p].at = "sent"
    /\ confirms[n] # <<>>
    /\ confirms' = [confirms EXCEPT ![n] = Tail(@)]
    /\ Finish(p, "ok")
    /\ UNCHANGED <<linkVars, mode, setup, stopped, setupAt, declared, flight, accepted,
                   historyVars>>

(* The next confirmation, whose ever it is; the library closes the channel *)
(* with the connection, and a closed channel yields a negative one.        *)
ReceiveConfirm(p) ==
    LET n == call[p].gen IN
    /\ call[p].at = "sent"
    /\ confirms[n] # <<>>
    /\ confirms' = [confirms EXCEPT ![n] = Tail(@)]
    /\ LET c == Head(confirms[n]) IN
       /\ Finish(p, IF c.ack THEN "ok" ELSE "failed")
       /\ misled' = IF c.ack /\ c.copy # call[p].copy
                    THEN misled \cup {call[p].copy[1]} ELSE misled
    /\ UNCHANGED <<linkVars, mode, setup, stopped, setupAt, declared, flight, accepted,
                   handled, late>>

ConfirmsClosed(p) ==
    /\ call[p].at = "sent"
    /\ confirms[call[p].gen] = <<>> /\ ~Works(call[p].gen)
    /\ Finish(p, "failed")
    /\ UNCHANGED <<linkVars, mode, setup, stopped, setupAt, declared, flight, confirms,
                   accepted, historyVars>>

(* PublishTimeout, or the caller's context: the confirm is still to come.  *)
PublishTimeout(p) ==
    /\ call[p].at = "sent"
    /\ Finish(p, "failed")
    /\ late < MaxTimeouts
    /\ late' = late + 1
    /\ UNCHANGED <<linkVars, mode, setup, stopped, setupAt, declared, flight, confirms,
                   accepted, handled, misled>>
-----------------------------------------------------------------------------
(* The broker takes the next publish and confirms it, or refuses it.       *)
BrokerTakes(n) ==
    /\ link[n] = "open" /\ flight[n] # <<>>
    /\ flight' = [flight EXCEPT ![n] = Tail(@)]
    /\ queue' = Add(queue, Head(flight[n]))
    /\ accepted' = accepted \cup {Head(flight[n])[1]}
    /\ confirms' = IF mode = "noConfirms" THEN confirms
                   ELSE [confirms EXCEPT ![n] =
                            Append(@, [ack |-> TRUE, copy |-> Head(flight[n])])]
    /\ UNCHANGED <<linkVars, mode, setup, call, work, stopped, appVars, declared, dlq,
                   unrouted, historyVars>>

BrokerRefuses(n) ==
    /\ link[n] = "open" /\ flight[n] # <<>>
    /\ mode # "noConfirms"
    /\ flight' = [flight EXCEPT ![n] = Tail(@)]
    /\ confirms' = [confirms EXCEPT ![n] =
                       Append(@, [ack |-> FALSE, copy |-> Head(flight[n])])]
    /\ UNCHANGED <<linkVars, mode, setup, call, work, stopped, appVars, declared, queue, dlq,
                   accepted, unrouted, historyVars>>

(* The TTL of the queue is over for a message nobody has taken.            *)
Expire(c) ==
    /\ setup = "ttl" /\ queue[c] > 0
    /\ queue' = Remove(queue, c)
    /\ dlq' = dlq \cup {c[1]}
    /\ UNCHANGED <<linkVars, mode, setup, call, work, stopped, appVars, declared, flight,
                   confirms, accepted, unrouted, historyVars>>
-----------------------------------------------------------------------------
(* Deliveries.  With autoAck the broker forgets a message it delivers.     *)
Take(w, c) ==
    /\ work[w].at = "none" /\ queue[c] > 0
    /\ Ready /\ ~stopped /\ Channel
    /\ queue' = Remove(queue, c)
    /\ work' = [work EXCEPT ![w] = [at |-> "handling", gen |-> conn, copy |-> c]]
    /\ UNCHANGED <<linkVars, mode, setup, call, stopped, appVars, declared, flight, confirms,
                   dlq, accepted, unrouted, historyVars>>

(* handleSuccess.                                                          *)
HandlerOk(w) ==
    /\ work[w].at = "handling"
    /\ handled' = handled \cup {work[w].copy[1]}
    /\ Ack(w)
    /\ UNCHANGED <<linkVars, mode, setup, call, stopped, appVars, declared, flight, confirms,
                   accepted, misled, late>>

(* handlePanic and handleNoHandler.                                        *)
HandlerPanics(w) ==
    /\ work[w].at = "handling"
    /\ IF mode = "autoAck" THEN Ack(w) ELSE Nack(w)
    /\ UNCHANGED <<linkVars, mode, setup, call, stopped, appVars, declared, flight, confirms,
                   accepted, historyVars>>

(* Mistake: retries until the count is past the limit.                     *)
HandlerFailsLate(w) ==
    /\ work[w].at = "handling"
    /\ IF mode = "autoAck" THEN Ack(w)
       ELSE IF work[w].copy[2] > MaxRetries THEN Nack(w)
       ELSE /\ work' = [work EXCEPT ![w] = Moved(@, "backoff")]
            /\ UNCHANGED <<queue, dlq, unrouted>>
    /\ UNCHANGED <<linkVars, mode, setup, call, stopped, appVars, declared, flight, confirms,
                   accepted, historyVars>>

(* handleError: sendToDLQ once the retries are used up, else requeue.      *)
HandlerFails(w) ==
    /\ work[w].at = "handling"
    /\ IF mode = "autoAck" THEN Ack(w)
       ELSE IF work[w].copy[2] >= MaxRetries THEN Nack(w)
       ELSE /\ work' = [work EXCEPT ![w] = Moved(@, "backoff")]
            /\ UNCHANGED <<queue, dlq, unrouted>>
    /\ UNCHANGED <<linkVars, mode, setup, call, stopped, appVars, declared, flight, confirms,
                   accepted, historyVars>>

(* Mistake: the retry count is copied from the delivery's headers.         *)
RequeueUncounted(w) ==
    /\ work[w].at = "backoff"
    /\ IF PoolGiven
       THEN /\ call' = [call EXCEPT ![w] =
                           [at |-> "pool", gen |-> conn, copy |-> work[w].copy]]
            /\ work' = [work EXCEPT ![w] = Moved(@, "republish")]
            /\ UNCHANGED <<queue, dlq, unrouted>>
       ELSE Nack(w) /\ UNCHANGED call
    /\ UNCHANGED <<linkVars, mode, setup, stopped, appVars, declared, flight, confirms,
                   accepted, historyVars>>

(* requeueMessage: the backoff is over; without a pool the message is      *)
(* rejected, as it is when the context ends the backoff.                   *)
Requeue(w) ==
    /\ work[w].at = "backoff"
    /\ IF PoolGiven
       THEN /\ call' = [call EXCEPT ![w] = [at |-> "pool", gen |-> conn,
                           copy |-> <<work[w].copy[1], work[w].copy[2] + 1>>]]
            /\ work' = [work EXCEPT ![w] = Moved(@, "republish")]
            /\ UNCHANGED <<queue, dlq, unrouted>>
       ELSE Nack(w) /\ UNCHANGED call
    /\ UNCHANGED <<linkVars, mode, setup, stopped, appVars, declared, flight, confirms,
                   accepted, historyVars>>

BackoffCancelled(w) ==
    /\ work[w].at = "backoff" /\ stopped
    /\ Nack(w)
    /\ UNCHANGED <<linkVars, mode, setup, call, stopped, appVars, declared, flight, confirms,
                   accepted, historyVars>>

Stop ==
    /\ ~stopped /\ Ready
    /\ stopped' = TRUE
    /\ UNCHANGED <<linkVars, mode, setup, call, work, appVars, brokerVars, historyVars>>
-----------------------------------------------------------------------------
(* The connection goes: the broker puts back what was not acknowledged and *)
(* never sees what was still under way.                                    *)
HeldOn(n) == {w \in Workers : work[w].at # "none" /\ work[w].gen = n}

ConnectionGone(n) ==
    /\ flight' = [flight EXCEPT ![n] = <<>>]
    /\ queue' = IF mode = "autoAck" THEN queue
                ELSE [c \in Copies |-> queue[c] +
                         Cardinality({w \in HeldOn(n) : work[w].copy = c})]
    /\ UNCHANGED <<mode, setup, call, work, stopped, appVars, declared, confirms, dlq,
                   accepted, unrouted, historyVars>>

BrokerDrops(n) == Drop(n) /\ ConnectionGone(n)

(* Client.Shutdown: closing the pool takes the publisher channel's lock.   *)
Shutdown ==
    /\ conn # NoGen => ~Locked(conn)
    /\ Close
    /\ IF conn # NoGen /\ link[conn] = "open"
       THEN ConnectionGone(conn) ELSE UNCHANGED deliveryVars

(* So does the reconnect; the connection it replaces is gone already.      *)
Reinstall == ~Locked(conn) /\ Install /\ UNCHANGED deliveryVars

Connecting == Connect /\ UNCHANGED deliveryVars
Losing == Lose /\ UNCHANGED deliveryVars
Dialing == (\E n \in Gens : Dial(n)) /\ UNCHANGED deliveryVars
Resuming == Resume /\ UNCHANGED deliveryVars

DeliveryNext ==
    \/ Connecting \/ Losing \/ Dialing \/ Resuming
    \/ Shutdown
    \/ Reinstall
    \/ \E n \in Gens : BrokerDrops(n)
    \/ Declare
    \/ SetupFails
    \/ PublishBatch
    \/ Publish
    \/ \E p \in Procs :
           Send(p) \/ ReceiveConfirm(p) \/ ConfirmsClosed(p) \/ PublishTimeout(p)
    \/ \E n \in Gens : BrokerTakes(n) \/ BrokerRefuses(n)
    \/ \E c \in Copies : Expire(c)
    \/ \E w \in Workers :
           \/ \E c \in Copies : Take(w, c)
           \/ HandlerOk(w) \/ HandlerPanics(w) \/ HandlerFails(w)
           \/ Requeue(w) \/ BackoffCancelled(w)
    \/ Stop

DeliverySpec == DeliveryInit /\ [][DeliveryNext]_allVars

(* Goroutines that can run do, timers fire, a handler returns (its context *)
(* expires), and the broker answers what it has received.  The application *)
(* need not publish, and nothing has to be dropped, expire or be closed.   *)
DeliveryFairness ==
    /\ WF_allVars(Losing) /\ WF_allVars(Dialing)
    /\ WF_allVars(Reinstall) /\ WF_allVars(Resuming)
    /\ \A n \in Gens : WF_allVars(BrokerTakes(n) \/ BrokerRefuses(n))
    /\ \A p \in Procs :
           /\ WF_allVars(Send(p))
           /\ WF_allVars(ReceiveConfirm(p) \/ ConfirmsClosed(p) \/ PublishTimeout(p))
    /\ \A w \in Workers :
           /\ WF_allVars(\E c \in Copies : Take(w, c))
           /\ WF_allVars(HandlerOk(w) \/ HandlerPanics(w) \/ HandlerFails(w))
           /\ WF_allVars(Requeue(w))

FairDeliverySpec == DeliverySpec /\ DeliveryFairness
-----------------------------------------------------------------------------
Unacked(m) == \E w \in Workers : work[w].at # "none" /\ work[w].copy[1] = m /\ Live(w)
InQueue(m) == \E r \in 0 .. MaxRetries : queue[<<m, r>>] > 0

(* A publish that reports success was taken by the broker, unless a        *)
(* publish before it has timed out: then it may have taken the confirm     *)
(* that was meant for that one (channel_pool.go:245-268).                  *)
OkMeansAccepted ==
    \A m \in Messages :
        outcome[m] = "ok" =>
            \/ m \in accepted \/ mode = "noConfirms"
            \/ m \in misled /\ late > 0

(* With confirms, no message that the broker took is lost between a failed *)
(* handler, the copy published for the retry and the acknowledgement of    *)
(* the original, whatever drops in between: it is in the queue or with a   *)
(* worker, was handled, or lies in the dead-letter queue where one is      *)
(* bound; except by the confirm of another publish (consumer.go:497-590).  *)
NothingLost ==
    mode = "confirms" =>
        \A m \in accepted :
            \/ InQueue(m) \/ Unacked(m) \/ m \in handled \cup dlq \cup misled
            \/ setup \in {"default", "delayed"} /\ m \in unrouted

(* Every message the broker took is settled in the end, with bounded       *)
(* retries, if the connection comes to stay and the consumer is not        *)
(* stopped (consumer.go:345-393, 455-475).                                 *)
MessagesSettle ==
    <>[](Channel /\ ~stopped) =>
        \A m \in Messages :
            (m \in accepted /\ mode = "confirms") ~>
                (m \in handled \cup dlq \cup unrouted \cup misled)

(* "Mensagens que falham vao para uma queue de delay, depois retornam para *)
(* a queue original" (dlq.go:203): a rejected message finds a queue.       *)
RejectedIsRouted == unrouted = {}
=============================================================================
