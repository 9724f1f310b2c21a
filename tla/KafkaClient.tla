----------------------------- MODULE KafkaClient -----------------------------
(***************************************************************************)
(* pkg/messaging/kafka/client.go: the client that dials a broker, the      *)
(* worker that replaces a connection whose health check failed, and Close. *)
(* The two flags are atomics, the connection is written under the mutex by *)
(* Connect and Close and without it by the worker.                         *)
(***************************************************************************)
EXTENDS Naturals, FiniteSets

CONSTANTS Connectors,   \* the goroutines that call Connect
          DialRetries,  \* the client's maxRetries
          MaxDials      \* bound: connections that are ever established

NoConn == 0
Worker == "worker"
Closer == "closer"

ASSUME KafkaClientAssumption ==
    /\ DialRetries \in Nat /\ MaxDials \in Nat
    /\ {Worker, Closer} \cap Connectors = {}

VARIABLES
    closed, connected,  \* the flags
    conn,               \* the connection in use
    mutex,              \* who holds mu, for writing; "none" is nobody
    cancel,             \* reconnectCancel: "none", "set" or "called"
    conns,              \* the connections: how many were made, which are
                        \* open, which were replaced, which came after Close
    dialer              \* for each actor: where it is, and its attempt

kafkaVars == <<closed, connected, conn, mutex, cancel, conns, dialer>>

Actors == Connectors \cup {Worker, Closer}
Dials == 1 .. MaxDials

KafkaTypeOK ==
    /\ closed \in BOOLEAN /\ connected \in BOOLEAN
    /\ conn \in Dials \cup {NoConn}
    /\ mutex \in Actors \cup {"none"}
    /\ cancel \in {"none", "set", "called"}
    /\ conns \in [made : 0 .. MaxDials, open : SUBSET Dials,
                  replaced : SUBSET Dials, late : SUBSET (Actors \X Dials)]
    /\ dialer \in [Actors ->
          [at : {"idle", "asked", "lock", "dial", "installed", "refused", "failed", "done",
                 "tick", "check", "retry", "cancel"},
           attempt : 0 .. DialRetries + 1]]

KafkaInit ==
    /\ closed = FALSE /\ connected = FALSE
    /\ conn = NoConn /\ mutex = "none" /\ cancel = "none"
    /\ conns = [made |-> 0, open |-> {}, replaced |-> {}, late |-> {}]
    /\ dialer = [a \in Actors |-> [at |-> "idle", attempt |-> 0]]
-----------------------------------------------------------------------------
At(a) == dialer[a].at
Goes(a, place) == dialer' = [dialer EXCEPT ![a] = [@ EXCEPT !.at = place]]

(* connectInternal has dialled: the connection replaces what was there.    *)
Install(a) ==
    /\ conns.made < MaxDials
    /\ conn' = conns.made + 1
    /\ conns' = [made |-> conn',
                 open |-> conns.open \cup {conn'},
                 replaced |-> conns.replaced \cup ({conn} \ {NoConn}),
                 late |-> conns.late \cup
                     (IF At(Closer) = "done" THEN {<<a, conn'>>} ELSE {})]

(* Connect: the two flags are read one after the other.                    *)
ConnectAsks(k) ==
    /\ At(k) = "idle"
    /\ Goes(k, IF closed THEN "refused" ELSE "asked")
    /\ UNCHANGED <<closed, connected, conn, mutex, cancel, conns>>

ConnectProceeds(k) ==
    /\ At(k) = "asked"
    /\ Goes(k, IF connected THEN "refused" ELSE "lock")
    /\ UNCHANGED <<closed, connected, conn, mutex, cancel, conns>>

ConnectLocks(k) ==
    /\ At(k) = "lock" /\ mutex = "none"
    /\ mutex' = k
    /\ Goes(k, "dial")
    /\ UNCHANGED <<closed, connected, conn, cancel, conns>>

ConnectDials(k) ==
    /\ At(k) = "dial"
    /\ Install(k)
    /\ Goes(k, "installed")
    /\ UNCHANGED <<closed, connected, mutex, cancel>>

ConnectFails(k) ==
    /\ At(k) = "dial"
    /\ IF dialer[k].attempt < DialRetries
       THEN /\ dialer' = [dialer EXCEPT ![k] = [at |-> "dial", attempt |-> @.attempt + 1]]
            /\ UNCHANGED mutex
       ELSE Goes(k, "failed") /\ mutex' = "none"
    /\ UNCHANGED <<closed, connected, conn, cancel, conns>>

(* The first connection ever starts the worker.                            *)
ConnectReturns(k) ==
    /\ At(k) = "installed"
    /\ connected' = TRUE
    /\ mutex' = "none"
    /\ cancel' = IF At(Worker) = "idle" THEN "set" ELSE cancel
    /\ dialer' = [dialer EXCEPT
          ![k] = [@ EXCEPT !.at = "done"],
          ![Worker] = IF @.at = "idle" THEN [@ EXCEPT !.at = "tick"] ELSE @]
    /\ UNCHANGED <<closed, conn, conns>>
-----------------------------------------------------------------------------
(* Mistake: only the cancellation ends the worker.                         *)
WorkerStopsOnCancel ==
    /\ At(Worker) = "tick" /\ cancel = "called"
    /\ Goes(Worker, "done")
    /\ UNCHANGED <<closed, connected, conn, mutex, cancel, conns>>

WorkerStops ==
    /\ At(Worker) = "tick" /\ (cancel = "called" \/ closed)
    /\ Goes(Worker, "done")
    /\ UNCHANGED <<closed, connected, conn, mutex, cancel, conns>>

WorkerTicks ==
    /\ At(Worker) = "tick" /\ ~closed
    /\ Goes(Worker, "check")
    /\ UNCHANGED <<closed, connected, conn, mutex, cancel, conns>>

(* HealthCheck: takes the lock for reading when the flags let it.          *)
HealthCheck(fails) ==
    /\ At(Worker) = "check"
    /\ IF closed \/ ~connected THEN fails
       ELSE /\ mutex = "none"
            /\ conn = NoConn => fails
    /\ IF fails
       THEN /\ connected' = FALSE
            /\ dialer' = [dialer EXCEPT ![Worker] = [at |-> "retry", attempt |-> 0]]
       ELSE Goes(Worker, "tick") /\ UNCHANGED connected
    /\ UNCHANGED <<closed, conn, mutex, cancel, conns>>

(* attemptReconnect: an attempt begins, and sleeps before it dials.        *)
ReconnectAttempt ==
    /\ At(Worker) = "retry"
    /\ Goes(Worker, IF \/ connected /\ dialer[Worker].attempt = 0
                       \/ dialer[Worker].attempt > DialRetries
                       \/ closed
                    THEN "tick" ELSE "dial")
    /\ UNCHANGED <<closed, connected, conn, mutex, cancel, conns>>

ReconnectDials ==
    /\ At(Worker) = "dial"
    /\ Install(Worker)
    /\ Goes(Worker, "installed")
    /\ UNCHANGED <<closed, connected, mutex, cancel>>

ReconnectFails ==
    /\ At(Worker) = "dial"
    /\ dialer' = [dialer EXCEPT ![Worker] = [at |-> "retry", attempt |-> @.attempt + 1]]
    /\ UNCHANGED <<closed, connected, conn, mutex, cancel, conns>>

ReconnectReturns ==
    /\ At(Worker) = "installed"
    /\ connected' = TRUE
    /\ Goes(Worker, "tick")
    /\ UNCHANGED <<closed, conn, mutex, cancel, conns>>
-----------------------------------------------------------------------------
(* Close; it does not wait for the worker, only 100 ms.                    *)
CloseBegins ==
    /\ At(Closer) = "idle"
    /\ closed' = TRUE /\ connected' = FALSE
    /\ Goes(Closer, "cancel")
    /\ UNCHANGED <<conn, mutex, cancel, conns>>

CloseCancels ==
    /\ At(Closer) = "cancel"
    /\ cancel' = IF cancel = "set" THEN "called" ELSE cancel
    /\ Goes(Closer, "lock")
    /\ UNCHANGED <<closed, connected, conn, mutex, conns>>

(* Mistake: the flag is asked whether there is a connection to close.      *)
CloseConnIfConnected ==
    /\ At(Closer) = "lock" /\ mutex = "none"
    /\ conns' = IF connected THEN [conns EXCEPT !.open = @ \ {conn}] ELSE conns
    /\ conn' = NoConn
    /\ Goes(Closer, "done")
    /\ UNCHANGED <<closed, connected, mutex, cancel>>

CloseConn ==
    /\ At(Closer) = "lock" /\ mutex = "none"
    /\ conns' = [conns EXCEPT !.open = @ \ {conn}]
    /\ conn' = NoConn
    /\ Goes(Closer, "done")
    /\ UNCHANGED <<closed, connected, mutex, cancel>>
-----------------------------------------------------------------------------
KafkaNext ==
    \/ \E k \in Connectors :
           \/ ConnectAsks(k) \/ ConnectProceeds(k) \/ ConnectLocks(k)
           \/ ConnectDials(k) \/ ConnectFails(k) \/ ConnectReturns(k)
    \/ WorkerStops \/ WorkerTicks
    \/ \E fails \in BOOLEAN : HealthCheck(fails)
    \/ ReconnectAttempt \/ ReconnectDials \/ ReconnectFails \/ ReconnectReturns
    \/ CloseBegins \/ CloseCancels \/ CloseConn

(* A dial ends within its timeout, a timer fires, and who waits for the    *)
(* mutex gets it once it stays free.                                       *)
KafkaProgress ==
    \/ \E k \in Connectors :
           ConnectProceeds(k) \/ ConnectLocks(k) \/ ConnectFails(k) \/ ConnectReturns(k)
    \/ WorkerStops \/ (\E fails \in BOOLEAN : HealthCheck(fails))
    \/ ReconnectAttempt \/ ReconnectFails \/ ReconnectReturns
    \/ CloseCancels \/ CloseConn

KafkaSpec == KafkaInit /\ [][KafkaNext]_kafkaVars /\ WF_kafkaVars(KafkaProgress)
-----------------------------------------------------------------------------
(* What a Close that returned leaves behind, which is less than it         *)
(* promises (CloseReleasesAll): connections that the worker or a second    *)
(* Connect has replaced, which nobody closes, and those of the dials that  *)
(* were under way, at most one for each actor.  None else stays open; and  *)
(* until Close, a client that says it is connected has a connection        *)
(* (client.go:178-195, 254-286, 336-375).                                  *)
CloseIsFinal ==
    /\ At(Closer) = "done" =>
           \A c \in conns.open \ conns.replaced : \E a \in Actors : <<a, c>> \in conns.late
    /\ \A a \in Actors : Cardinality({c \in Dials : <<a, c>> \in conns.late}) <= 1
    /\ connected /\ ~closed => conn # NoConn

(* "Close gracefully closes the Kafka client and all resources"            *)
(* (client.go:41, 253): no connection is open once it has returned.        *)
CloseReleasesAll == At(Closer) = "done" => conns.open = {}

(* A Close that has not returned, or a worker that is still there although *)
(* the client is closed, also one that a Connect started after the         *)
(* cancellation (client.go:296-334).                                       *)
KafkaWaits ==
    \/ At(Closer) \notin {"idle", "done"}
    \/ closed /\ At(Worker) \notin {"idle", "done"}
=============================================================================
