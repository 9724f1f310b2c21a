--------------------------- MODULE RabbitConsumer ---------------------------
(***************************************************************************)
(* pkg/messaging/rabbitmq: a consumer of a client, over the connection of  *)
(* RabbitConnection.  Consumer.Start loops: take the current channel pool, *)
(* subscribe, hand deliveries to the handler until they stop, wait, start  *)
(* again.  With more than one worker a distributor goroutine feeds a pool  *)
(* of workers instead.                                                     *)
(*                                                                         *)
(* The consumers of different queues share nothing but the connection      *)
(* manager, which they only read, so one consumer stands for any of them.  *)
(* Its queue is its own, and so is its channel in the pool.                *)
(***************************************************************************)
EXTENDS RabbitConnection

CONSTANTS
    Kinds,      \* the kinds of consumer that may be made
    Prefetch    \* bound: Qos's prefetch count, deliveries held at a time

ASSUME ConsumerAssumption ==
    Prefetch \in Nat \ {0} /\ Kinds \subseteq {"single", "pooled"}

VARIABLES
    kind,      \* "single": one worker; "pooled": WithWorkerPool(n), n > 1
    pc,        \* where Start is; its result once it returned
    on,        \* the generation whose pool Start took
    ready,     \* deliveries the library has buffered in the subscription
    busy,      \* deliveries in messageChan or in a handler
    ctxDone,   \* is the context given to Start done?
    cclosed    \* Consumer.closed

consumerVars == <<kind, pc, on, ready, busy, ctxDone, cclosed>>
allVars == <<vars, consumerVars>>

Returned == {"ctxErr", "clientClosed", "nil"}

ConsumerTypeOK ==
    /\ TypeOK
    /\ kind \in Kinds
    /\ pc \in {"idle", "loop", "gotPool", "consuming", "draining", "wait"}
                  \cup Returned
    /\ on \in Gens \cup {NoGen}
    /\ ready \in 0 .. Prefetch
    /\ busy \in 0 .. Prefetch
    /\ ctxDone \in BOOLEAN
    /\ cclosed \in BOOLEAN

ConsumerInit ==
    /\ Init
    /\ kind \in Kinds
    /\ pc = "idle"
    /\ on = NoGen
    /\ ready = 0
    /\ busy = 0
    /\ ctxDone = FALSE
    /\ cclosed = FALSE
-----------------------------------------------------------------------------
Start ==
    /\ pc = "idle" /\ conn # NoGen
    /\ pc' = "loop"
    /\ UNCHANGED <<kind, on, ready, busy, ctxDone, cclosed, vars>>

(* The top of Start's loop, down to consume's getChannelPool.              *)
Loop ==
    /\ pc = "loop"
    /\ pc' = IF ctxDone THEN "ctxErr"
             ELSE IF cclosed THEN "clientClosed"
             ELSE IF GetsPool THEN "gotPool" ELSE "wait"
    /\ on' = IF pc' = "gotPool" THEN conn ELSE on
    /\ UNCHANGED <<kind, ready, busy, ctxDone, cclosed, vars>>

(* GetConsumerChannel, Qos and Consume on the pool that was current then.  *)
Subscribe ==
    /\ pc = "gotPool"
    /\ pc' = IF Usable(on) THEN "consuming" ELSE "wait"
    /\ UNCHANGED <<kind, on, ready, busy, ctxDone, cclosed, vars>>

(* Mistake: no Qos, so the broker knows no bound.                          *)
PushUnbounded ==
    /\ pc \in {"consuming", "draining"}
    /\ Usable(on)
    /\ ready + busy <= Prefetch
    /\ ready' = ready + 1
    /\ UNCHANGED <<kind, pc, on, busy, ctxDone, cclosed, vars>>

(* The broker delivers, within the prefetch count, to the library (autoAck *)
(* is off: with it the broker ignores the count).                          *)
Push ==
    /\ pc \in {"consuming", "draining"}
    /\ Usable(on)
    /\ ready + busy < Prefetch
    /\ ready' = ready + 1
    /\ UNCHANGED <<kind, pc, on, busy, ctxDone, cclosed, vars>>

(* A delivery leaves the channel of deliveries; one at a time is handled   *)
(* without a worker pool.                                                  *)
Deliver ==
    /\ pc = "consuming"
    /\ ready > 0
    /\ kind = "single" => busy = 0
    /\ ready' = ready - 1
    /\ busy' = busy + 1
    /\ UNCHANGED <<kind, pc, on, ctxDone, cclosed, vars>>

(* A handler returns; or a worker that saw the context done leaves what is *)
(* still in messageChan to the broker.                                     *)
HandlerDone ==
    /\ busy > 0
    /\ busy' = busy - 1
    /\ UNCHANGED <<kind, pc, on, ready, ctxDone, cclosed, vars>>

(* The channel of deliveries is closed once the pool or the connection is  *)
(* gone and what was buffered has been received.                           *)
DeliveriesClosed == ~Usable(on) /\ ready = 0

(* Mistake: closed deliveries count as a normal end.                       *)
SingleEnds ==
    /\ kind = "single"
    /\ pc = "consuming"
    /\ busy = 0
    /\ \/ ctxDone /\ pc' = "ctxErr"
       \/ DeliveriesClosed /\ pc' = "nil"
    /\ ready' = 0
    /\ UNCHANGED <<kind, on, busy, ctxDone, cclosed, vars>>

(* consumeSingleWorker returns, between two messages; the channel, and     *)
(* with it whatever the library still had buffered, is released.           *)
SingleStops ==
    /\ kind = "single"
    /\ pc = "consuming"
    /\ busy = 0
    /\ \/ ctxDone /\ pc' = "ctxErr"
       \/ DeliveriesClosed /\ pc' = "wait"
    /\ ready' = 0
    /\ UNCHANGED <<kind, on, busy, ctxDone, cclosed, vars>>

(* consumeWithWorkerPool: the distributor stops, and the workers finish.   *)
DistributorStops ==
    /\ kind = "pooled"
    /\ pc = "consuming"
    /\ ctxDone \/ DeliveriesClosed
    /\ pc' = "draining"
    /\ UNCHANGED <<kind, on, ready, busy, ctxDone, cclosed, vars>>

(* Mistake: no wg.Wait for the workers.                                    *)
PoolLeft ==
    /\ pc = "draining"
    /\ pc' = IF ctxDone THEN "ctxErr" ELSE "nil"
    /\ ready' = 0
    /\ UNCHANGED <<kind, on, busy, ctxDone, cclosed, vars>>

(* It returns ctx.Err(), and Start returns whatever equals ctx.Err().      *)
PoolDrained ==
    /\ pc = "draining"
    /\ busy = 0
    /\ pc' = IF ctxDone THEN "ctxErr" ELSE "nil"
    /\ ready' = 0
    /\ UNCHANGED <<kind, on, busy, ctxDone, cclosed, vars>>

WaitEnd ==
    /\ pc = "wait"
    /\ pc' = "loop"
    /\ UNCHANGED <<kind, on, ready, busy, ctxDone, cclosed, vars>>

Cancel ==
    /\ ~ctxDone
    /\ ctxDone' = TRUE
    /\ UNCHANGED <<kind, pc, on, ready, busy, cclosed, vars>>

(* Consumer.Close sets a flag that only the top of the loop reads.         *)
CloseConsumer ==
    /\ ~cclosed
    /\ cclosed' = TRUE
    /\ UNCHANGED <<kind, pc, on, ready, busy, ctxDone, vars>>
-----------------------------------------------------------------------------
ConsumerNext ==
    \/ Next /\ UNCHANGED consumerVars
    \/ Start
    \/ Loop
    \/ Subscribe
    \/ Push
    \/ Deliver
    \/ HandlerDone
    \/ SingleStops
    \/ DistributorStops
    \/ PoolDrained
    \/ WaitEnd
    \/ Cancel
    \/ CloseConsumer

ConsumerSpec == ConsumerInit /\ [][ConsumerNext]_allVars

(* A handler returns (its context expires after 30 seconds), a timer       *)
(* fires, goroutines that can run do, and a select does not pass over a    *)
(* context that is done for ever.                                          *)
ConsumerFairness ==
    /\ Fairness
    /\ WF_allVars(Loop) /\ WF_allVars(Subscribe) /\ WF_allVars(WaitEnd)
    /\ WF_allVars(Deliver) /\ WF_allVars(HandlerDone)
    /\ SF_allVars(SingleStops)
    /\ WF_allVars(DistributorStops) /\ WF_allVars(PoolDrained)

FairConsumerSpec == ConsumerSpec /\ ConsumerFairness
-----------------------------------------------------------------------------
(* Start returns only when none of its messages is in a handler any more   *)
(* (consumer.go:234-295).                                                  *)
ReturnsIdle == pc \in Returned => busy = 0

Wanted == pc # "idle" /\ ~ctxDone /\ ~cclosed

(* A consumer of kind k that nobody stops ends up consuming on the current *)
(* connection, if one stays up.                                            *)
Recovers(k) ==
    (<>[](GetsPool /\ Usable(conn)) /\ []<>Wanted /\ kind = k) =>
        <>[](pc = "consuming" /\ on = conn)

(* A consumer with one worker recovers, whatever drops and reconnects came *)
(* before (consumer.go:122-164).                                           *)
SingleRecovers == Recovers("single")

(* After Shutdown the client comes to deliver nothing for ever after,      *)
(* although a consumer that is not stopped goes on asking for a channel    *)
(* pool (connection.go:248-251, 294-331).                                  *)
ClosedStaysQuiet ==
    closed ~> [](pc \notin {"gotPool", "consuming", "draining"} /\ busy = 0)

(* "starting consumer with auto-recovery" (consumer.go:123): the same of a *)
(* consumer with a worker pool.                                            *)
PooledRecovers == Recovers("pooled")
=============================================================================
