--------------------------- MODULE Services_proofs ---------------------------
(***************************************************************************)
(* The components of Services, each for every value of its constants: the  *)
(* Kafka client, the channels of RabbitMQ's consumers, the Kafka producer, *)
(* the HTTP client, the health checks, the telemetry of the database, the  *)
(* start of the database manager and of the provider, the migrations, the  *)
(* telemetry of a message, the arithmetic and the settings; then what all  *)
(* of them together promise.                                               *)
(***************************************************************************)
EXTENDS Services, HttpServer_proofs, EventDispatcher_proofs, SequenceTheorems
-----------------------------------------------------------------------------
(* The Kafka client.  A connection that nothing replaced is the one in use *)
(* or came after Close; who has brought such a late one does not dial      *)
(* again; and who has just dialled has put a connection there.             *)
Seats == {"idle", "asked", "lock", "dial", "installed", "refused", "failed", "done",
          "tick", "check", "retry", "cancel"}

DialerTypes ==
    /\ closed \in BOOLEAN /\ connected \in BOOLEAN
    /\ conn \in Dials \cup {NoConn}
    /\ mutex \in Actors \cup {"none"}
    /\ cancel \in {"none", "set", "called"}
    /\ conns \in [made : 0 .. MaxDials, open : SUBSET Dials,
                  replaced : SUBSET Dials, late : SUBSET (Actors \X Dials)]
    /\ dialer \in [Actors -> [at : Seats, attempt : 0 .. DialRetries + 1]]

ClosedInv == At(Closer) \in {"cancel", "lock", "done"} => closed

SeatsInv ==
    /\ At(Closer) \in {"idle", "cancel", "lock", "done"}
    /\ At(Worker) = "dial" => dialer[Worker].attempt <= DialRetries
    /\ At(Worker) \notin {"lock", "asked"}
    /\ \A a \in Actors : At(a) = "installed" /\ ~closed => conn # NoConn
    /\ connected /\ ~closed => conn # NoConn

LateInv ==
    /\ conns.late # {} => At(Closer) = "done"
    /\ \A a \in Actors, c \in Dials : <<a, c>> \in conns.late =>
           At(a) \in IF a = Worker THEN {"installed", "tick", "done"} ELSE {"installed", "done"}
    /\ \A a \in Actors, c, d \in Dials :
           <<a, c>> \in conns.late /\ <<a, d>> \in conns.late => c = d

OpenInv ==
    \A c \in conns.open \ conns.replaced :
        \/ \E a \in Actors : <<a, c>> \in conns.late
        \/ c = conn /\ At(Closer) # "done"

KafkaInv == DialerTypes /\ ClosedInv /\ SeatsInv /\ LateInv /\ OpenInv

Seat == [at : Seats, attempt : 0 .. DialRetries + 1]

Seated(s, place) == [s EXCEPT !.at = place]

LEMMA SeatedFields ==
    ASSUME NEW s \in Seat, NEW place \in Seats, NEW w, w = Seated(s, place)
    PROVE  w \in Seat /\ w.at = place /\ w.attempt = s.attempt
  BY DEF Seat, Seated

LEMMA ActorsAre ==
    /\ Worker \in Actors /\ Closer \in Actors /\ Worker # Closer
    /\ \A k \in Connectors : k \in Actors /\ k # Worker /\ k # Closer
    /\ DialRetries \in Nat /\ MaxDials \in Nat
  BY KafkaClientAssumption DEF KafkaClientAssumption, Actors, Worker, Closer

(* Only a's seat changes, to a place.                                      *)
Moves(a, place) ==
    /\ dialer' \in [Actors -> Seat]
    /\ dialer'[a].at = place /\ dialer'[a].attempt = dialer[a].attempt
    /\ \A b \in Actors : b # a => dialer'[b] = dialer[b]

LEMMA GoesMoves ==
    ASSUME DialerTypes, NEW a \in Actors, NEW place \in Seats, Goes(a, place)
    PROVE  Moves(a, place)
<1> DEFINE w == Seated(dialer[a], place)
<1>1. dialer' = [dialer EXCEPT ![a] = w]
  BY DEF Goes, Seated
<1>2. w = Seated(dialer[a], place) /\ dialer \in [Actors -> Seat]
  BY DEF DialerTypes, Seat
<1> HIDE DEF w
<1>3. w \in Seat /\ w.at = place /\ w.attempt = dialer[a].attempt
  BY <1>2, SeatedFields
<1> QED
  BY <1>1, <1>2, <1>3 DEF Moves

(* A step that moves one actor between places that are not the dial's, and *)
(* touches no connection, keeps what is said of them.                      *)
LEMMA MovesTypes ==
    ASSUME DialerTypes, dialer' \in [Actors -> Seat], UNCHANGED <<conn, conns>>,
           closed' \in BOOLEAN, connected' \in BOOLEAN, mutex' \in Actors \cup {"none"},
           cancel' \in {"none", "set", "called"}
    PROVE  DialerTypes'
  BY DEF DialerTypes, Seat

LEMMA ConnectStepKeeps ==
    ASSUME KafkaInv, NEW k \in Connectors,
           ConnectAsks(k) \/ ConnectProceeds(k) \/ ConnectLocks(k)
    PROVE  KafkaInv'
<1>1. k \in Actors /\ k # Worker /\ k # Closer /\ DialerTypes
  BY ActorsAre DEF KafkaInv
<1>2. PICK place \in {"refused", "asked", "lock", "dial"} : Goes(k, place)
  BY DEF ConnectAsks, ConnectProceeds, ConnectLocks
<1>3. Moves(k, place)
  BY <1>1, <1>2, GoesMoves DEF Seats
<1>4. UNCHANGED <<closed, connected, conn, cancel, conns>> /\ mutex' \in {mutex, k}
      /\ At(k) \in {"idle", "asked", "lock"}
  BY DEF ConnectAsks, ConnectProceeds, ConnectLocks
<1>5. DialerTypes'
  BY <1>1, <1>3, <1>4, MovesTypes DEF Moves, DialerTypes
<1>6. ClosedInv' /\ SeatsInv'
  BY <1>1, <1>3, <1>4, ActorsAre DEF KafkaInv, ClosedInv, SeatsInv, Moves, At
<1>7. LateInv' /\ OpenInv'
  BY <1>1, <1>3, <1>4, ActorsAre DEF KafkaInv, LateInv, OpenInv, Moves, At
<1> QED
  BY <1>5, <1>6, <1>7 DEF KafkaInv

(* A dial of a connector or of the worker.                                 *)
LEMMA InstallKeeps ==
    ASSUME KafkaInv, NEW a \in Actors \ {Closer}, At(a) = "dial", Install(a),
           Goes(a, "installed"), UNCHANGED <<closed, connected, mutex, cancel>>
    PROVE  KafkaInv'
<1> DEFINE n == conns.made + 1
           came == IF At(Closer) = "done" THEN {<<a, n>>} ELSE {}
<1>1. DialerTypes /\ conns.made \in 0 .. MaxDials /\ MaxDials \in Nat
  BY ActorsAre DEF KafkaInv, DialerTypes
<1>2. n \in Dials /\ n # NoConn /\ conn' = n
  BY <1>1 DEF Install, Dials, NoConn
<1>3. conns' = [made |-> n, open |-> conns.open \cup {n},
                replaced |-> conns.replaced \cup ({conn} \ {NoConn}),
                late |-> conns.late \cup came]
  BY <1>2 DEF Install
<1>4. Moves(a, "installed") /\ At(Closer)' = At(Closer)
  <2>1. Moves(a, "installed")
    BY <1>1, GoesMoves DEF Seats
  <2> QED
    BY <2>1, ActorsAre DEF Moves, At
<1>5. came \subseteq Actors \X Dials
  BY <1>2
<1>6. DialerTypes'
  <2>1. conns.open \cup {n} \in SUBSET Dials /\ conns.late \cup came \in SUBSET (Actors \X Dials)
        /\ conns.replaced \cup ({conn} \ {NoConn}) \in SUBSET Dials /\ n \in 0 .. MaxDials
    BY <1>1, <1>2, <1>5 DEF DialerTypes, Dials
  <2> HIDE DEF came, n
  <2>2. conns' \in [made : 0 .. MaxDials, open : SUBSET Dials,
                    replaced : SUBSET Dials, late : SUBSET (Actors \X Dials)]
    BY <1>3, <2>1
  <2> QED
    BY <1>1, <1>2, <1>4, <2>2 DEF DialerTypes, Moves, Seat
<1>7. /\ conns'.open = conns.open \cup {n} /\ conns'.late = conns.late \cup came
      /\ conns'.replaced = conns.replaced \cup ({conn} \ {NoConn})
  BY <1>3
<1>8. ClosedInv' /\ SeatsInv'
  BY <1>1, <1>2, <1>4, ActorsAre DEF KafkaInv, ClosedInv, SeatsInv, Moves, At
<1>9. LateInv'
  <2>1. \A c \in Dials : <<a, c>> \notin conns.late
    BY DEF KafkaInv, LateInv
  <2>2. conns'.late # {} => At(Closer)' = "done"
    BY <1>4, <1>7 DEF KafkaInv, LateInv
  <2>3. \A b \in Actors, c \in Dials : <<b, c>> \in conns'.late =>
            (<<b, c>> \in conns.late /\ b # a) \/ (b = a /\ c = n)
    <3>1. ASSUME NEW b \in Actors, NEW c \in Dials, <<b, c>> \in came
          PROVE  b = a /\ c = n
      BY <3>1
    <3> HIDE DEF came, n
    <3> QED
      BY <1>7, <2>1, <3>1
  <2>4. \A b \in Actors, c \in Dials : <<b, c>> \in conns'.late =>
           At(b)' \in IF b = Worker THEN {"installed", "tick", "done"} ELSE {"installed", "done"}
    BY <1>4, <2>3 DEF KafkaInv, LateInv, Moves, At
  <2>5. \A b \in Actors, c, d \in Dials :
           <<b, c>> \in conns'.late /\ <<b, d>> \in conns'.late => c = d
    BY <2>3 DEF KafkaInv, LateInv
  <2> QED
    BY <2>2, <2>4, <2>5 DEF LateInv
<1>10. OpenInv'
  <2>1. ASSUME NEW c \in conns'.open \ conns'.replaced
        PROVE  \/ \E b \in Actors : <<b, c>> \in conns'.late
               \/ c = conn' /\ At(Closer)' # "done"
    <3>1. CASE c = n
      BY <1>2, <1>4, <1>7, <3>1
    <3>2. CASE c # n
      <4>1. c \in conns.open \ conns.replaced /\ c \in Dials
        BY <1>1, <1>7, <3>2 DEF DialerTypes
      <4>2. c # conn
        BY <1>7, <4>1 DEF Dials, NoConn
      <4> QED
        BY <1>7, <4>1, <4>2 DEF KafkaInv, OpenInv
    <3> QED
      BY <3>1, <3>2
  <2> QED
    BY <2>1 DEF OpenInv
<1> QED
  BY <1>6, <1>8, <1>9, <1>10 DEF KafkaInv

LEMMA ConnectFailsKeeps ==
    ASSUME KafkaInv, NEW k \in Connectors, ConnectFails(k)
    PROVE  KafkaInv'
<1>1. k \in Actors /\ k # Worker /\ k # Closer /\ DialerTypes /\ DialRetries \in Nat
      /\ At(k) = "dial" /\ UNCHANGED <<closed, connected, conn, cancel, conns>>
  BY ActorsAre DEF KafkaInv, ConnectFails
<1>2. /\ dialer' \in [Actors -> Seat] /\ mutex' \in {mutex, "none"}
      /\ At(k)' \in {"dial", "failed"} /\ \A b \in Actors : b # k => dialer'[b] = dialer[b]
  <2>1. CASE dialer[k].attempt < DialRetries
    <3> DEFINE more == dialer[k].attempt + 1
               w == [at |-> "dial", attempt |-> more]
    <3>1. dialer' = [dialer EXCEPT ![k] = w] /\ mutex' = mutex
      BY <2>1 DEF ConnectFails
    <3>2. more \in 0 .. DialRetries + 1 /\ dialer[k] \in Seat /\ dialer[k].at = "dial"
          /\ dialer \in [Actors -> Seat]
      BY <1>1, <2>1 DEF DialerTypes, Seat, At
    <3> HIDE DEF more
    <3>3. w \in Seat /\ w.at = "dial"
      BY <3>2 DEF Seat
    <3> HIDE DEF w
    <3> QED
      BY <1>1, <3>1, <3>2, <3>3 DEF At
  <2>2. CASE ~(dialer[k].attempt < DialRetries)
    <3>1. Moves(k, "failed") /\ mutex' = "none"
      BY <1>1, <2>2, GoesMoves DEF ConnectFails, Seats
    <3> QED
      BY <3>1 DEF Moves, At
  <2> QED
    BY <2>1, <2>2
<1>3. DialerTypes'
  BY <1>1, <1>2, MovesTypes DEF DialerTypes
<1>4. ClosedInv' /\ SeatsInv'
  BY <1>1, <1>2, ActorsAre DEF KafkaInv, ClosedInv, SeatsInv, At
<1>5. LateInv' /\ OpenInv'
  BY <1>1, <1>2, ActorsAre DEF KafkaInv, LateInv, OpenInv, At
<1> QED
  BY <1>3, <1>4, <1>5 DEF KafkaInv

LEMMA ConnectReturnsKeeps ==
    ASSUME KafkaInv, NEW k \in Connectors, ConnectReturns(k)
    PROVE  KafkaInv'
<1> DEFINE v == Seated(dialer[k], "done")
           w == IF dialer[Worker].at = "idle" THEN Seated(dialer[Worker], "tick")
                ELSE dialer[Worker]
<1>1. k \in Actors /\ k # Worker /\ k # Closer /\ DialerTypes /\ Worker \in Actors
      /\ At(k) = "installed" /\ UNCHANGED <<closed, conn, conns>> /\ Worker # Closer
      /\ connected' = TRUE /\ mutex' = "none" /\ cancel' \in {"set", cancel}
      /\ dialer \in [Actors -> Seat] /\ dialer[k] \in Seat /\ dialer[Worker] \in Seat
  BY ActorsAre DEF KafkaInv, ConnectReturns, DialerTypes, Seat
<1>2. dialer' = [[dialer EXCEPT ![k] = v] EXCEPT ![Worker] = w]
  BY <1>1, Zenon DEF ConnectReturns, Seated
<1>3. v \in Seat /\ v.at = "done" /\ v.attempt = dialer[k].attempt
  <2> HIDE DEF v
  <2>1. v = Seated(dialer[k], "done") /\ "done" \in Seats
    BY DEF v, Seats
  <2> QED
    BY <1>1, <2>1, SeatedFields
<1>4. w \in Seat /\ w.at = (IF dialer[Worker].at = "idle" THEN "tick" ELSE dialer[Worker].at)
      /\ w.attempt = dialer[Worker].attempt
  <2> HIDE DEF w
  <2>1. CASE dialer[Worker].at = "idle"
    <3>1. w = Seated(dialer[Worker], "tick") /\ "tick" \in Seats
      BY <2>1 DEF w, Seats
    <3> QED
      BY <1>1, <2>1, <3>1, SeatedFields
  <2>2. CASE dialer[Worker].at # "idle"
    BY <1>1, <2>2 DEF w
  <2> QED
    BY <2>1, <2>2
<1> HIDE DEF v, w
<1>5. /\ dialer' \in [Actors -> Seat] /\ At(k)' = "done"
      /\ At(Worker)' = (IF At(Worker) = "idle" THEN "tick" ELSE At(Worker))
      /\ dialer'[Worker].attempt = dialer[Worker].attempt
      /\ \A b \in Actors : b \notin {k, Worker} => dialer'[b] = dialer[b]
  BY <1>1, <1>2, <1>3, <1>4 DEF At
<1>6. DialerTypes'
  BY <1>1, <1>5, MovesTypes DEF DialerTypes
<1>7. ClosedInv'
  BY <1>1, <1>5, ActorsAre DEF KafkaInv, ClosedInv, At
<1>8. SeatsInv'
  <2>1. ~closed => conn # NoConn
    BY <1>1 DEF KafkaInv, SeatsInv
  <2> QED
    BY <1>1, <1>5, <2>1, ActorsAre DEF KafkaInv, SeatsInv, At
<1>9. LateInv'
  BY <1>1, <1>5, ActorsAre DEF KafkaInv, LateInv, At
<1>10. OpenInv'
  BY <1>1, <1>5, ActorsAre DEF KafkaInv, OpenInv, At
<1> QED
  BY <1>6, <1>7, <1>8, <1>9, <1>10 DEF KafkaInv

(* The worker, but for its dial.                                           *)
LEMMA WorkerStepKeeps ==
    ASSUME KafkaInv, WorkerStops \/ WorkerTicks \/ ReconnectAttempt
    PROVE  KafkaInv'
<1>1. DialerTypes /\ Worker \in Actors /\ Worker # Closer /\ DialRetries \in Nat
      /\ UNCHANGED <<closed, connected, conn, mutex, cancel, conns>>
  BY ActorsAre DEF KafkaInv, WorkerStops, WorkerTicks, ReconnectAttempt
<1>2. PICK place \in Seats :
          /\ Goes(Worker, place)
          /\ \/ At(Worker) = "tick" /\ place = "done"
             \/ At(Worker) = "tick" /\ place = "check" /\ ~closed
             \/ At(Worker) = "retry" /\ place = "tick"
             \/ At(Worker) = "retry" /\ place = "dial" /\ dialer[Worker].attempt <= DialRetries
  <2>1. dialer[Worker].attempt \in Nat
    BY <1>1 DEF DialerTypes
  <2> QED
    BY <1>1, <2>1 DEF WorkerStops, WorkerTicks, ReconnectAttempt, Seats
<1>3. Moves(Worker, place)
  BY <1>1, <1>2, GoesMoves
<1>4. DialerTypes'
  BY <1>1, <1>3, MovesTypes DEF Moves, DialerTypes
<1>5. ClosedInv' /\ SeatsInv'
  BY <1>1, <1>2, <1>3, ActorsAre DEF KafkaInv, ClosedInv, SeatsInv, Moves, At
<1>6. LateInv'
  BY <1>1, <1>2, <1>3, ActorsAre DEF KafkaInv, ClosedInv, LateInv, Moves, At
<1>7. OpenInv'
  BY <1>1, <1>3, ActorsAre DEF KafkaInv, OpenInv, Moves, At
<1> QED
  BY <1>4, <1>5, <1>6, <1>7 DEF KafkaInv

LEMMA WorkerSetsKeeps ==
    ASSUME KafkaInv, NEW w \in Seat, dialer' = [dialer EXCEPT ![Worker] = w],
           w.at \in {"retry", "tick"}, At(Worker) \in {"check", "dial", "installed"},
           At(Worker) = "dial" => w.at = "retry", At(Worker) = "installed" => w.at = "tick",
           UNCHANGED <<closed, conn, mutex, cancel, conns>>,
           connected' \in BOOLEAN, connected' /\ ~connected => At(Worker) = "installed"
    PROVE  KafkaInv'
<1>1. DialerTypes /\ Worker \in Actors /\ Worker # Closer /\ dialer \in [Actors -> Seat]
  BY ActorsAre DEF KafkaInv, DialerTypes, Seat
<1>2. dialer' \in [Actors -> Seat] /\ dialer'[Worker] = w
      /\ \A b \in Actors : b # Worker => dialer'[b] = dialer[b]
  BY <1>1
<1>3. DialerTypes'
  BY <1>1, <1>2, MovesTypes DEF DialerTypes
<1>4. ClosedInv' /\ SeatsInv'
  BY <1>1, <1>2, ActorsAre DEF KafkaInv, ClosedInv, SeatsInv, At
<1>5. LateInv'
  BY <1>1, <1>2, ActorsAre DEF KafkaInv, LateInv, At
<1>6. OpenInv'
  BY <1>1, <1>2, ActorsAre DEF KafkaInv, OpenInv, At
<1> QED
  BY <1>3, <1>4, <1>5, <1>6 DEF KafkaInv

LEMMA WorkerGoesOnKeeps ==
    ASSUME KafkaInv,
           (\E fails \in BOOLEAN : HealthCheck(fails)) \/ ReconnectFails \/ ReconnectReturns
    PROVE  KafkaInv'
<1>1. dialer[Worker] \in Seat /\ DialRetries \in Nat /\ connected \in BOOLEAN
  BY ActorsAre DEF KafkaInv, DialerTypes, Seat
<1>2. [at |-> "retry", attempt |-> 0] \in Seat
  BY <1>1 DEF Seat, Seats
<1> DEFINE tick == Seated(dialer[Worker], "tick")
<1>3. tick \in Seat /\ tick.at = "tick"
  <2>1. tick = Seated(dialer[Worker], "tick") /\ "tick" \in Seats
    BY DEF Seats
  <2> HIDE DEF tick
  <2> QED
    BY <1>1, <2>1, SeatedFields
<1>4. Goes(Worker, "tick") => dialer' = [dialer EXCEPT ![Worker] = tick]
  BY DEF Goes, Seated
<1> HIDE DEF tick
<1>5. ASSUME NEW fails \in BOOLEAN, HealthCheck(fails)
      PROVE  KafkaInv'
  <2>1. At(Worker) = "check" /\ UNCHANGED <<closed, conn, mutex, cancel, conns>>
    BY <1>5 DEF HealthCheck
  <2>2. CASE fails
    <3> DEFINE w == [at |-> "retry", attempt |-> 0]
    <3>1. dialer' = [dialer EXCEPT ![Worker] = w] /\ connected' = FALSE /\ w.at = "retry"
          /\ w \in Seat
      BY <1>2, <1>5, <2>2 DEF HealthCheck
    <3> HIDE DEF w
    <3> QED
      BY <2>1, <3>1, WorkerSetsKeeps
  <2>3. CASE ~fails
    <3>1. dialer' = [dialer EXCEPT ![Worker] = tick] /\ connected' = connected
      BY <1>4, <1>5, <2>3 DEF HealthCheck
    <3> QED
      BY <1>1, <1>3, <2>1, <3>1, WorkerSetsKeeps
  <2> QED
    BY <2>2, <2>3
<1>6. CASE ReconnectFails
  <2> DEFINE w == [at |-> "retry", attempt |-> dialer[Worker].attempt + 1]
  <2>1. dialer' = [dialer EXCEPT ![Worker] = w] /\ w.at = "retry" /\ At(Worker) = "dial"
        /\ UNCHANGED <<closed, connected, conn, mutex, cancel, conns>>
    BY <1>6 DEF ReconnectFails
  <2>2. dialer[Worker].attempt <= DialRetries
    BY <2>1 DEF KafkaInv, SeatsInv
  <2>3. w \in Seat
    BY <1>1, <2>2 DEF Seat, Seats
  <2> HIDE DEF w
  <2> QED
    BY <1>1, <2>1, <2>3, WorkerSetsKeeps
<1>7. CASE ReconnectReturns
  <2>1. dialer' = [dialer EXCEPT ![Worker] = tick] /\ At(Worker) = "installed"
        /\ connected' = TRUE /\ UNCHANGED <<closed, conn, mutex, cancel, conns>>
    BY <1>4, <1>7 DEF ReconnectReturns
  <2> QED
    BY <1>3, <2>1, WorkerSetsKeeps
<1> QED
  BY <1>5, <1>6, <1>7

LEMMA CloseStepKeeps ==
    ASSUME KafkaInv, CloseBegins \/ CloseCancels
    PROVE  KafkaInv'
<1>1. DialerTypes /\ Closer \in Actors /\ Worker # Closer
      /\ UNCHANGED <<conn, mutex, conns>>
  BY ActorsAre DEF KafkaInv, CloseBegins, CloseCancels
<1>2. /\ \/ At(Closer) = "idle" /\ Goes(Closer, "cancel")
            /\ closed' = TRUE /\ connected' = FALSE
         \/ At(Closer) = "cancel" /\ Goes(Closer, "lock") /\ UNCHANGED <<closed, connected>>
      /\ cancel' \in {cancel, "called"}
  BY DEF CloseBegins, CloseCancels
<1>3. \/ At(Closer) = "idle" /\ Moves(Closer, "cancel") /\ closed' = TRUE /\ connected' = FALSE
      \/ At(Closer) = "cancel" /\ Moves(Closer, "lock") /\ UNCHANGED <<closed, connected>>
  BY <1>1, <1>2, GoesMoves DEF Seats
<1>4. DialerTypes'
  BY <1>1, <1>2, <1>3, MovesTypes DEF Moves, DialerTypes
<1>5. ClosedInv' /\ SeatsInv'
  BY <1>1, <1>3, ActorsAre DEF KafkaInv, ClosedInv, SeatsInv, Moves, At
<1>6. LateInv' /\ OpenInv'
  BY <1>1, <1>3, ActorsAre DEF KafkaInv, LateInv, OpenInv, Moves, At
<1> QED
  BY <1>4, <1>5, <1>6 DEF KafkaInv

LEMMA CloseConnKeeps ==
    ASSUME KafkaInv, CloseConn
    PROVE  KafkaInv'
<1>1. DialerTypes /\ Closer \in Actors /\ Worker # Closer
      /\ UNCHANGED <<closed, connected, mutex, cancel>> /\ At(Closer) = "lock"
      /\ conn' = NoConn /\ conns' = [conns EXCEPT !.open = @ \ {conn}]
  BY ActorsAre DEF KafkaInv, CloseConn
<1>2. Moves(Closer, "done")
  BY <1>1, GoesMoves DEF CloseConn, Seats
<1>3. /\ conns' \in [made : 0 .. MaxDials, open : SUBSET Dials,
                     replaced : SUBSET Dials, late : SUBSET (Actors \X Dials)]
      /\ conns'.open = conns.open \ {conn}
      /\ conns'.replaced = conns.replaced /\ conns'.late = conns.late
  BY <1>1 DEF DialerTypes
<1>4. DialerTypes'
  BY <1>1, <1>2, <1>3 DEF DialerTypes, Moves, Seat
<1>5. closed
  BY <1>1 DEF KafkaInv, ClosedInv
<1>6. ClosedInv' /\ SeatsInv'
  BY <1>1, <1>2, <1>5, ActorsAre DEF KafkaInv, ClosedInv, SeatsInv, Moves, At
<1>7. LateInv' /\ OpenInv'
  BY <1>1, <1>2, <1>3, ActorsAre DEF KafkaInv, LateInv, OpenInv, Moves, At
<1> QED
  BY <1>4, <1>6, <1>7 DEF KafkaInv

LEMMA KafkaStarts ==
    ASSUME KafkaInit
    PROVE  KafkaInv
<1>1. DialRetries \in Nat /\ MaxDials \in Nat
  BY ActorsAre
<1>2. DialerTypes
  <2>1. 0 \in 0 .. MaxDials /\ 0 \in 0 .. DialRetries + 1
    BY <1>1
  <2>2. [at |-> "idle", attempt |-> 0] \in [at : Seats, attempt : 0 .. DialRetries + 1]
    BY <2>1 DEF Seats
  <2>3. [made |-> 0, open |-> {}, replaced |-> {}, late |-> {}] \in
            [made : 0 .. MaxDials, open : SUBSET Dials,
             replaced : SUBSET Dials, late : SUBSET (Actors \X Dials)]
    BY <2>1
  <2> QED
    BY <2>2, <2>3 DEF KafkaInit, DialerTypes
<1>3. ClosedInv /\ SeatsInv /\ LateInv /\ OpenInv
  BY ActorsAre DEF KafkaInit, ClosedInv, SeatsInv, LateInv, OpenInv, At
<1> QED
  BY <1>2, <1>3 DEF KafkaInv

LEMMA KafkaNextKeeps ==
    ASSUME KafkaInv, KafkaNext
    PROVE  KafkaInv'
<1>1. CASE \E k \in Connectors : ConnectAsks(k) \/ ConnectProceeds(k) \/ ConnectLocks(k)
  BY <1>1, ConnectStepKeeps
<1>2. CASE \E k \in Connectors : ConnectDials(k)
  BY <1>2, InstallKeeps, ActorsAre DEF ConnectDials
<1>3. CASE \E k \in Connectors : ConnectFails(k)
  BY <1>3, ConnectFailsKeeps
<1>4. CASE \E k \in Connectors : ConnectReturns(k)
  BY <1>4, ConnectReturnsKeeps
<1>5. CASE WorkerStops \/ WorkerTicks \/ ReconnectAttempt
  BY <1>5, WorkerStepKeeps
<1>6. CASE (\E fails \in BOOLEAN : HealthCheck(fails)) \/ ReconnectFails \/ ReconnectReturns
  BY <1>6, WorkerGoesOnKeeps
<1>7. CASE ReconnectDials
  BY <1>7, InstallKeeps, ActorsAre DEF ReconnectDials
<1>8. CASE CloseBegins \/ CloseCancels
  BY <1>8, CloseStepKeeps
<1>9. CASE CloseConn
  BY <1>9, CloseConnKeeps
<1> QED
  BY <1>1, <1>2, <1>3, <1>4, <1>5, <1>6, <1>7, <1>8, <1>9 DEF KafkaNext

LEMMA KafkaRests ==
    ASSUME KafkaInv, UNCHANGED kafkaVars
    PROVE  KafkaInv'
  BY DEF KafkaInv, DialerTypes, ClosedInv, SeatsInv, LateInv, OpenInv, At, kafkaVars

LEMMA KafkaCloseIsFinal ==
    ASSUME KafkaInv
    PROVE  CloseIsFinal
<1>1. ASSUME NEW a \in Actors
      PROVE  Cardinality({c \in Dials : <<a, c>> \in conns.late}) <= 1
  <2> DEFINE S == {c \in Dials : <<a, c>> \in conns.late}
  <2>1. \A c, d \in S : c = d
    BY DEF KafkaInv, LateInv
  <2> HIDE DEF S
  <2>2. S = {} => Cardinality(S) = 0
    <3>1. Cardinality({}) = 0
      BY FS_EmptySet
    <3> QED
      BY <3>1
  <2>3. S # {} => Cardinality(S) = 1
    <3> SUFFICES ASSUME NEW c \in S
                 PROVE  Cardinality(S) = 1
      OBVIOUS
    <3>1. S = {c}
      BY <2>1
    <3>2. Cardinality({c}) = 1
      BY FS_Singleton
    <3> QED
      BY <3>1, <3>2
  <2>4. Cardinality(S) <= 1
    BY <2>2, <2>3
  <2> QED
    BY <2>4 DEF S
<1>2. At(Closer) = "done" =>
          \A c \in conns.open \ conns.replaced : \E a \in Actors : <<a, c>> \in conns.late
  BY DEF KafkaInv, OpenInv
<1>3. connected /\ ~closed => conn # NoConn
  BY DEF KafkaInv, SeatsInv
<1> QED
  BY <1>1, <1>2, <1>3 DEF CloseIsFinal
-----------------------------------------------------------------------------
(* The channels of the consumers.  The channels are numbered as they are   *)
(* opened; a channel is kept for one queue at most, and who uses a channel *)
(* that is kept is a consumer of that queue.                               *)
NoUse == Channels \cup {NoChannel}

NumbersInv ==
    /\ \E k \in Nat : Channels = 1 .. k /\ k <= MaxChannels
    /\ kept \in [Queues -> NoUse] /\ using \in [Users -> NoUse]
    /\ flagged \subseteq Channels /\ poolClosed \in BOOLEAN
    /\ \A n \in Channels : closer[n] \in Users \cup {"", ThePool, TheBroker}

KeptInv ==
    /\ \A p, q \in Queues : kept[p] = kept[q] /\ kept[p] # NoChannel => p = q
    /\ \A u \in Users, q \in Queues :
           using[u] # NoChannel /\ kept[q] = using[u] => q = QueueOf[u]

SharedInv ==
    \A n \in Open :
        /\ ~poolClosed /\ n \notin flagged
        /\ \E u \in Users : using[u] = n /\ Kept(u) = n

LostInv ==
    \A u \in Users :
        using[u] \notin Open \cup {NoChannel} =>
            \/ closer[using[u]] \in {ThePool, TheBroker}
            \/ closer[using[u]] # u /\ QueueOf[closer[using[u]]] = QueueOf[u]

ChannelsInv == NumbersInv /\ KeptInv /\ SharedInv /\ LostInv

LEMMA ChannelFacts ==
    ASSUME NumbersInv
    PROVE  /\ NoChannel \notin Channels
           /\ \A u \in Users : QueueOf[u] \in Queues /\ Kept(u) \in NoUse
           /\ Cardinality(Channels) \in Nat /\ Cardinality(Channels) <= MaxChannels
           /\ Channels = 1 .. Cardinality(Channels)
           /\ Cardinality(Channels) + 1 \notin Channels
           /\ "" \notin Users /\ ThePool \notin Users /\ TheBroker \notin Users
           /\ ThePool # "" /\ TheBroker # ""
<1>1. PICK k \in Nat : Channels = 1 .. k /\ k <= MaxChannels
  BY DEF NumbersInv
<1>2. Cardinality(1 .. k) = k
  <2>1. 1 \in Int /\ k \in Int
    OBVIOUS
  <2> QED
    BY <2>1, FS_Interval
<1>3. Cardinality(Channels) = k
  BY <1>1, <1>2
<1>4. NoChannel \notin Channels /\ k + 1 \notin Channels
  BY <1>1 DEF NoChannel
<1>5. \A u \in Users : QueueOf[u] \in Queues /\ Kept(u) \in NoUse
  BY DEF NumbersInv, Kept, Queues
<1> QED
  BY <1>1, <1>3, <1>4, <1>5, ChannelsAssumption DEF ChannelsAssumption, ThePool, TheBroker

(* A consumer is given a channel, or no longer has one kept.               *)
LEMMA ShareChannelKeeps ==
    ASSUME ChannelsInv, NEW u \in Users, ShareChannel(u)
    PROVE  ChannelsInv'
<1>1. UNCHANGED <<kept, flagged, closer, poolClosed>> /\ using[u] = NoChannel
      /\ Kept(u) \in Open /\ using' = [using EXCEPT ![u] = Kept(u)]
  BY DEF ShareChannel, MayShare
<1>2. Channels' = Channels /\ NoUse' = NoUse /\ Open' = Open /\ Open \subseteq Channels
  BY <1>1 DEF Channels, NoUse, Open
<1>3. using' \in [Users -> NoUse] /\ using'[u] = Kept(u)
      /\ \A v \in Users : v # u => using'[v] = using[v]
  BY <1>1, ChannelFacts DEF ChannelsInv, NumbersInv
<1>4. \A v \in Users : Kept(v)' = Kept(v)
  BY <1>1 DEF Kept
<1>5. NumbersInv'
  BY <1>1, <1>2, <1>3 DEF ChannelsInv, NumbersInv
<1>6. KeptInv'
  <2>1. Kept(u) # NoChannel /\ Kept(u) = kept[QueueOf[u]] /\ QueueOf[u] \in Queues
    BY <1>1, <1>2, ChannelFacts DEF ChannelsInv, Kept
  <2> QED
    BY <1>1, <1>3, <2>1 DEF ChannelsInv, KeptInv
<1>7. SharedInv'
  <2>1. ASSUME NEW n \in Open
        PROVE  \E v \in Users : using'[v] = n /\ Kept(v)' = n
    <3>1. PICK v \in Users : using[v] = n /\ Kept(v) = n
      BY DEF ChannelsInv, SharedInv
    <3>2. v # u
      BY <1>1, <1>2, <3>1, ChannelFacts DEF ChannelsInv
    <3> QED
      BY <1>3, <1>4, <3>1, <3>2
  <2> QED
    BY <1>1, <1>2, <2>1 DEF ChannelsInv, SharedInv
<1>8. LostInv'
  BY <1>1, <1>2, <1>3 DEF ChannelsInv, LostInv
<1> QED
  BY <1>5, <1>6, <1>7, <1>8 DEF ChannelsInv

(* What is kept for a queue is another channel, or none, once it is not    *)
(* open any more: nobody shares an open one it displaces.                  *)
LEMMA Displaced ==
    ASSUME ChannelsInv, NEW u \in Users, ~MayShare(u),
           NEW v \in Users, Kept(v) \in Open
    PROVE  QueueOf[v] # QueueOf[u]
  BY DEF ChannelsInv, SharedInv, MayShare, Kept

LEMMA OpenChannelKeeps ==
    ASSUME ChannelsInv, NEW u \in Users, OpenChannel(u)
    PROVE  ChannelsInv'
<1> DEFINE k == Cardinality(Channels)
           n == k + 1
           q == QueueOf[u]
<1>0. NumbersInv
  BY DEF ChannelsInv
<1>a. k \in Nat /\ k <= MaxChannels /\ Channels = 1 .. k /\ n \notin Channels
      /\ q \in Queues /\ NoChannel \notin Channels
  BY <1>0, ChannelFacts
<1>b. using[u] = NoChannel /\ ~poolClosed /\ ~MayShare(u) /\ k < MaxChannels
  BY DEF OpenChannel, MayOpen
<1>1. /\ closer' = [m \in Channels \cup {n} |-> IF m = n THEN "" ELSE closer[m]]
      /\ kept' = [kept EXCEPT ![q] = n] /\ using' = [using EXCEPT ![u] = n]
      /\ UNCHANGED <<flagged, poolClosed>>
  BY DEF OpenChannel
<1> HIDE DEF k
<1>2. n \in Nat /\ n <= MaxChannels /\ n # NoChannel
  <2>1. MaxChannels \in Nat
    BY ChannelsAssumption DEF ChannelsAssumption
  <2> QED
    BY <1>a, <1>b, <2>1 DEF NoChannel
<1>3. Channels' = Channels \cup {n} /\ Channels' = 1 .. n
  <2>1. Channels' = Channels \cup {n}
    BY <1>1 DEF Channels
  <2>2. 1 .. n = (1 .. k) \cup {n}
    BY <1>a
  <2> QED
    BY <1>a, <2>1, <2>2
<1> HIDE DEF n
<1>4. closer'[n] = "" /\ \A m \in Channels : closer'[m] = closer[m]
  BY <1>0, <1>a, <1>b, <1>1, <1>2
<1>5. Open' = Open \cup {n}
  BY <1>3, <1>4 DEF Open
<1>6. /\ kept' \in [Queues -> NoUse'] /\ kept'[q] = n
      /\ \A p \in Queues : p # q => kept'[p] = kept[p]
  BY <1>0, <1>a, <1>b, <1>1, <1>2, <1>3 DEF NumbersInv, NoUse
<1>7. /\ using' \in [Users -> NoUse'] /\ using'[u] = n
      /\ \A v \in Users : v # u => using'[v] = using[v]
  BY <1>0, <1>a, <1>b, <1>1, <1>2, <1>3 DEF NumbersInv, NoUse
<1>8. \A p \in Queues : kept[p] # n
  BY <1>0, <1>a, <1>2 DEF NumbersInv, NoUse
<1>9. \A v \in Users : using[v] # n
  BY <1>0, <1>a, <1>2 DEF NumbersInv, NoUse
<1>10. NumbersInv'
  <2>1. \A m \in Channels' : closer'[m] \in Users \cup {"", ThePool, TheBroker}
    BY <1>0, <1>a, <1>2, <1>3, <1>4 DEF NumbersInv
  <2>2. flagged' \subseteq Channels'
    BY <1>0, <1>a, <1>b, <1>1, <1>2, <1>3 DEF NumbersInv
  <2>3. Channels' = 1 .. n /\ n <= MaxChannels /\ poolClosed' \in BOOLEAN
    BY <1>0, <1>a, <1>b, <1>1, <1>2, <1>3 DEF NumbersInv
  <2> QED
    BY <1>0, <1>a, <1>2, <1>6, <1>7, <2>1, <2>2, <2>3 DEF NumbersInv
<1>11. KeptInv'
  <2>1. \A p, o \in Queues : kept'[p] = kept'[o] /\ kept'[p] # NoChannel => p = o
    BY <1>6, <1>8 DEF ChannelsInv, KeptInv
  <2>2. \A v \in Users, p \in Queues :
            using'[v] # NoChannel /\ kept'[p] = using'[v] => p = QueueOf[v]
    BY <1>6, <1>7, <1>8, <1>9 DEF ChannelsInv, KeptInv
  <2> QED
    BY <2>1, <2>2 DEF KeptInv
<1>12. SharedInv'
  <2>1. ASSUME NEW m \in Open
        PROVE  \E v \in Users : using'[v] = m /\ Kept(v)' = m
    <3>1. PICK v \in Users : using[v] = m /\ Kept(v) = m
      BY DEF ChannelsInv, SharedInv
    <3>2. QueueOf[v] # q /\ QueueOf[v] \in Queues
      BY <1>0, <1>a, <1>b, <1>1, <1>2, <3>1, Displaced, ChannelFacts
    <3>3. Kept(v)' = m
      BY <1>6, <3>1, <3>2 DEF Kept
    <3>4. m # NoChannel
      BY <1>0, <1>a, <1>2, ChannelFacts DEF Open
    <3> QED
      BY <1>b, <1>1, <1>2, <1>7, <3>1, <3>3, <3>4
  <2>2. using'[u] = n /\ Kept(u)' = n
    BY <1>6, <1>7 DEF Kept
  <2>3. n \notin flagged
    BY <1>0, <1>a, <1>2 DEF NumbersInv
  <2> QED
    BY <1>b, <1>1, <1>5, <2>1, <2>2, <2>3 DEF ChannelsInv, SharedInv
<1>13. LostInv'
  <2>1. ASSUME NEW v \in Users, using'[v] \notin Open' \cup {NoChannel}
        PROVE  \/ closer'[using'[v]] \in {ThePool, TheBroker}
               \/ closer'[using'[v]] # v /\ QueueOf[closer'[using'[v]]] = QueueOf[v]
    <3>1. v # u /\ using'[v] = using[v] /\ using[v] \notin Open \cup {NoChannel}
      BY <1>5, <1>7, <2>1
    <3>2. using[v] \in Channels
      BY <1>0, <1>a, <1>2, <3>1 DEF NumbersInv, NoUse
    <3>3. closer'[using'[v]] = closer[using[v]]
      BY <1>4, <3>1, <3>2
    <3> QED
      BY <3>1, <3>3 DEF ChannelsInv, LostInv
  <2> QED
    BY <2>1 DEF LostInv
<1> QED
  BY <1>10, <1>11, <1>12, <1>13 DEF ChannelsInv

LEMMA OpenFailsKeeps ==
    ASSUME ChannelsInv, NEW u \in Users, OpenFails(u)
    PROVE  ChannelsInv'
<1>1. UNCHANGED <<flagged, closer, using, poolClosed>> /\ ~MayShare(u)
      /\ kept' = [kept EXCEPT ![QueueOf[u]] = NoChannel]
  BY DEF OpenFails
<1>2. Channels' = Channels /\ NoUse' = NoUse /\ Open' = Open /\ NumbersInv
  BY <1>1 DEF Channels, NoUse, Open, ChannelsInv
<1>3. QueueOf[u] \in Queues
  BY <1>2, ChannelFacts
<1>4. kept' \in [Queues -> NoUse] /\ kept'[QueueOf[u]] = NoChannel
      /\ \A q \in Queues : q # QueueOf[u] => kept'[q] = kept[q]
  BY <1>1, <1>2, <1>3 DEF NumbersInv, NoUse
<1>5. NumbersInv'
  BY <1>1, <1>2, <1>4 DEF NumbersInv
<1>6. KeptInv'
  BY <1>1, <1>4 DEF ChannelsInv, KeptInv
<1>7. SharedInv'
  <2>1. ASSUME NEW n \in Open
        PROVE  \E v \in Users : using[v] = n /\ Kept(v)' = n
    <3>1. PICK v \in Users : using[v] = n /\ Kept(v) = n
      BY DEF ChannelsInv, SharedInv
    <3>2. QueueOf[v] # QueueOf[u] /\ QueueOf[v] \in Queues
      BY <1>1, <1>2, <3>1, Displaced, ChannelFacts
    <3> QED
      BY <1>4, <3>1, <3>2 DEF Kept
  <2> QED
    BY <1>1, <1>2, <2>1 DEF ChannelsInv, SharedInv
<1>8. LostInv'
  BY <1>1, <1>2 DEF ChannelsInv, LostInv
<1> QED
  BY <1>5, <1>6, <1>7, <1>8 DEF ChannelsInv

(* The broker closes one: whoever uses it has lost it to the broker.       *)
LEMMA ChannelDiesKeeps ==
    ASSUME ChannelsInv, NEW n \in Channels, ChannelDies(n)
    PROVE  ChannelsInv'
<1>1. /\ closer' = [m \in Channels |-> IF m \in {n} /\ closer[m] = "" THEN TheBroker
                                       ELSE closer[m]]
      /\ n \in Open /\ UNCHANGED <<kept, flagged, using, poolClosed>>
  BY DEF ChannelDies, CloseAll
<1>2. NumbersInv /\ TheBroker # ""
  BY ChannelFacts DEF ChannelsInv
<1>3. Channels' = Channels /\ NoUse' = NoUse
  BY <1>1 DEF Channels, NoUse
<1>4. closer'[n] = TheBroker /\ \A m \in Channels : m # n => closer'[m] = closer[m]
  BY <1>1 DEF Open
<1>5. Open' = Open \ {n}
  BY <1>2, <1>3, <1>4 DEF Open
<1>6. NumbersInv'
  BY <1>1, <1>2, <1>3, <1>4 DEF NumbersInv
<1>7. KeptInv'
  BY <1>1 DEF ChannelsInv, KeptInv
<1>8. SharedInv'
  BY <1>1, <1>5 DEF ChannelsInv, SharedInv, Kept
<1>9. LostInv'
  <2>1. ASSUME NEW v \in Users, using[v] \notin Open' \cup {NoChannel}
        PROVE  \/ closer'[using[v]] \in {ThePool, TheBroker}
               \/ closer'[using[v]] # v /\ QueueOf[closer'[using[v]]] = QueueOf[v]
    <3>1. using[v] \in Channels
      BY <1>2, <2>1 DEF NumbersInv, NoUse
    <3>2. CASE using[v] = n
      BY <1>4, <3>2
    <3>3. CASE using[v] # n
      <4>1. closer'[using[v]] = closer[using[v]] /\ using[v] \notin Open \cup {NoChannel}
        BY <1>4, <1>5, <2>1, <3>1, <3>3
      <4> QED
        BY <4>1 DEF ChannelsInv, LostInv
    <3> QED
      BY <3>2, <3>3
  <2> QED
    BY <1>1, <2>1 DEF LostInv
<1> QED
  BY <1>6, <1>7, <1>8, <1>9 DEF ChannelsInv

(* A consumer releases what is kept for its queue: of an open channel only *)
(* consumers of the queue lose the use, and the others were not kept it.   *)
LEMMA ReleaseChannelKeeps ==
    ASSUME ChannelsInv, NEW u \in Users, NEW fails \in BOOLEAN, ReleaseChannel(u, fails)
    PROVE  ChannelsInv'
<1> DEFINE n == Kept(u)
           q == QueueOf[u]
<1>1. /\ closer' = [m \in Channels |-> IF m \in {n} /\ closer[m] = "" THEN u ELSE closer[m]]
      /\ flagged' = flagged \cup ({n} \cap Channels)
      /\ kept' = IF fails THEN kept ELSE [kept EXCEPT ![q] = NoChannel]
      /\ using' = [using EXCEPT ![u] = NoChannel]
      /\ UNCHANGED poolClosed
  BY DEF ReleaseChannel, CloseAll
<1>2. NumbersInv /\ u # "" /\ q \in Queues /\ n \in NoUse /\ NoChannel \notin Channels
  BY ChannelFacts DEF ChannelsInv
<1>a. n = kept[q]
  BY DEF Kept
<1> HIDE DEF n
<1>3. Channels' = Channels /\ NoUse' = NoUse
  BY <1>1 DEF Channels, NoUse
<1>4. \A m \in Channels : closer'[m] = IF m = n /\ closer[m] = "" THEN u ELSE closer[m]
  BY <1>1
<1>5. Open' = Open \ {n}
  BY <1>2, <1>3, <1>4 DEF Open
<1>6. /\ kept' \in [Queues -> NoUse]
      /\ \A p \in Queues : kept'[p] \in {kept[p], NoChannel} /\ (p # q => kept'[p] = kept[p])
  BY <1>1, <1>2 DEF NumbersInv, NoUse
<1>7. /\ using' \in [Users -> NoUse] /\ using'[u] = NoChannel
      /\ \A v \in Users : v # u => using'[v] = using[v]
  BY <1>1, <1>2 DEF NumbersInv, NoUse
<1>8. NumbersInv'
  <2>1. \A m \in Channels : closer'[m] \in Users \cup {"", ThePool, TheBroker}
    BY <1>2, <1>4 DEF NumbersInv
  <2> QED
    BY <1>1, <1>2, <1>3, <1>6, <1>7, <2>1 DEF NumbersInv
<1>9. KeptInv'
  <2>1. \A p, o \in Queues : kept'[p] = kept'[o] /\ kept'[p] # NoChannel => p = o
    BY <1>6 DEF ChannelsInv, KeptInv
  <2>2. \A v \in Users, p \in Queues :
            using'[v] # NoChannel /\ kept'[p] = using'[v] => p = QueueOf[v]
    BY <1>6, <1>7 DEF ChannelsInv, KeptInv
  <2> QED
    BY <2>1, <2>2 DEF KeptInv
<1>10. SharedInv'
  <2>1. ASSUME NEW m \in Open, m # n
        PROVE  \E v \in Users : using'[v] = m /\ Kept(v)' = m
    <3>1. PICK v \in Users : using[v] = m /\ Kept(v) = m
      BY DEF ChannelsInv, SharedInv
    <3>2. QueueOf[v] # q /\ QueueOf[v] \in Queues
      BY <1>2, <1>a, <2>1, <3>1, ChannelFacts DEF Kept
    <3>3. Kept(v)' = m
      BY <1>6, <3>1, <3>2 DEF Kept
    <3>4. v # u
      BY <3>2
    <3> QED
      BY <1>7, <3>1, <3>3, <3>4
  <2> QED
    BY <1>1, <1>5, <2>1 DEF ChannelsInv, SharedInv
<1>11. LostInv'
  <2>1. ASSUME NEW v \in Users, using'[v] \notin Open' \cup {NoChannel}
        PROVE  \/ closer'[using'[v]] \in {ThePool, TheBroker}
               \/ closer'[using'[v]] # v /\ QueueOf[closer'[using'[v]]] = QueueOf[v]
    <3>1. v # u /\ using'[v] = using[v] /\ using[v] \in Channels
      BY <1>2, <1>7, <2>1 DEF NumbersInv, NoUse
    <3>2. CASE using[v] \in Open
      <4>1. using[v] = n
        BY <1>5, <2>1, <3>1, <3>2
      <4>2. closer'[using[v]] = u
        BY <1>4, <3>1, <3>2, <4>1 DEF Open
      <4>3. q = QueueOf[v]
        BY <1>2, <1>a, <3>1, <4>1 DEF ChannelsInv, KeptInv
      <4> QED
        BY <3>1, <4>2, <4>3
    <3>3. CASE using[v] \notin Open
      <4>1. closer'[using[v]] = closer[using[v]] /\ using[v] \notin Open \cup {NoChannel}
        BY <1>2, <1>4, <3>1, <3>3 DEF Open
      <4> QED
        BY <3>1, <4>1 DEF ChannelsInv, LostInv
    <3> QED
      BY <3>2, <3>3
  <2> QED
    BY <2>1 DEF LostInv
<1> QED
  BY <1>8, <1>9, <1>10, <1>11 DEF ChannelsInv

(* Close: what is open is kept, so that none is open any more.             *)
LEMMA ClosePoolKeeps ==
    ASSUME ChannelsInv, ClosePool
    PROVE  ChannelsInv'
<1> DEFINE all == {kept[q] : q \in Queues} \ {NoChannel}
<1>1. /\ closer' = [m \in Channels |-> IF m \in all /\ closer[m] = "" THEN ThePool
                                       ELSE closer[m]]
      /\ flagged' = flagged \cup all /\ poolClosed' = TRUE
      /\ kept' = [q \in Queues |-> NoChannel] /\ UNCHANGED using
  BY DEF ClosePool, CloseAll
<1>2. NumbersInv /\ ThePool # "" /\ NoChannel \notin Channels
  BY ChannelFacts DEF ChannelsInv
<1>3. Channels' = Channels /\ NoUse' = NoUse
  BY <1>1 DEF Channels, NoUse
<1>4. all \subseteq Channels
  BY <1>2 DEF NumbersInv, NoUse
<1>5. Open \subseteq all
  <2>1. ASSUME NEW n \in Open
        PROVE  n \in all
    <3>1. PICK u \in Users : using[u] = n /\ Kept(u) = n
      BY DEF ChannelsInv, SharedInv
    <3>2. QueueOf[u] \in Queues /\ kept[QueueOf[u]] = n
      BY <1>2, <3>1, ChannelFacts DEF Kept
    <3>3. n # NoChannel
      BY <1>2 DEF Open
    <3> QED
      BY <3>2, <3>3
  <2> QED
    BY <2>1
<1> HIDE DEF all
<1>6. \A m \in Channels : closer'[m] = IF m \in Open THEN ThePool ELSE closer[m]
  BY <1>1, <1>5 DEF Open
<1>7. Open' = {}
  BY <1>2, <1>3, <1>6 DEF Open
<1>8. NumbersInv'
  <2>1. \A m \in Channels : closer'[m] \in Users \cup {"", ThePool, TheBroker}
    BY <1>2, <1>6 DEF NumbersInv
  <2>2. kept' \in [Queues -> NoUse]
    BY <1>1 DEF NoUse
  <2> QED
    BY <1>1, <1>2, <1>3, <1>4, <2>1, <2>2 DEF NumbersInv
<1>9. KeptInv'
  BY <1>1 DEF KeptInv
<1>10. SharedInv'
  BY <1>7 DEF SharedInv
<1>11. LostInv'
  <2>1. ASSUME NEW v \in Users, using[v] # NoChannel
        PROVE  \/ closer'[using[v]] \in {ThePool, TheBroker}
               \/ closer'[using[v]] # v /\ QueueOf[closer'[using[v]]] = QueueOf[v]
    <3>1. using[v] \in Channels
      BY <1>2, <2>1 DEF NumbersInv, NoUse
    <3>2. CASE using[v] \in Open
      BY <1>6, <3>1, <3>2
    <3>3. CASE using[v] \notin Open
      BY <1>6, <2>1, <3>1, <3>3 DEF ChannelsInv, LostInv
    <3> QED
      BY <3>2, <3>3
  <2> QED
    BY <1>1, <2>1 DEF LostInv
<1> QED
  BY <1>8, <1>9, <1>10, <1>11 DEF ChannelsInv

LEMMA ChannelsStart ==
    ASSUME ChannelsInit
    PROVE  ChannelsInv
<1>1. Channels = {} /\ Open = {}
  BY DEF ChannelsInit, Channels, Open
<1>2. Channels = 1 .. 0 /\ 0 <= MaxChannels
  <2>1. \A i \in Int : i \notin 1 .. 0
    OBVIOUS
  <2>2. 1 .. 0 = {}
    BY <2>1
  <2>3. MaxChannels \in Nat
    BY ChannelsAssumption DEF ChannelsAssumption
  <2> QED
    BY <1>1, <2>2, <2>3
<1>3. NumbersInv
  BY <1>1, <1>2 DEF ChannelsInit, NumbersInv, NoUse
<1>4. KeptInv /\ SharedInv /\ LostInv
  BY <1>1 DEF ChannelsInit, KeptInv, SharedInv, LostInv
<1> QED
  BY <1>3, <1>4 DEF ChannelsInv

LEMMA ChannelsNextKeeps ==
    ASSUME ChannelsInv, ChannelsNext
    PROVE  ChannelsInv'
<1>1. ASSUME NEW u \in Users, ShareChannel(u) \/ OpenChannel(u) \/ OpenFails(u)
      PROVE  ChannelsInv'
  BY <1>1, ShareChannelKeeps, OpenChannelKeeps, OpenFailsKeeps
<1>2. ASSUME NEW u \in Users, NEW fails \in BOOLEAN, ReleaseChannel(u, fails)
      PROVE  ChannelsInv'
  BY <1>2, ReleaseChannelKeeps
<1>3. ASSUME NEW n \in Channels, ChannelDies(n)
      PROVE  ChannelsInv'
  BY <1>3, ChannelDiesKeeps
<1>4. CASE ClosePool
  BY <1>4, ClosePoolKeeps
<1> QED
  BY <1>1, <1>2, <1>3, <1>4 DEF ChannelsNext

LEMMA ChannelsRest ==
    ASSUME ChannelsInv, UNCHANGED channelVars
    PROVE  ChannelsInv'
  BY DEF ChannelsInv, NumbersInv, KeptInv, SharedInv, LostInv, channelVars, Channels, Open,
         NoUse, Kept

LEMMA ChannelsReleased ==
    ASSUME ChannelsInv
    PROVE  ChannelsAreReleased
  BY DEF ChannelsInv, SharedInv, LostInv, ChannelsAreReleased
-----------------------------------------------------------------------------
(* One publish of a Kafka producer.  As long as it has not returned it has *)
(* tries left, and stored nothing before the first.                        *)
Writing == [at : {"start", "publish", "write", "sleep", "over"}, tries : Nat,
            result : {"none", "ok", "closed", "failed", "invalid"}]

WritingInv ==
    /\ production \in Productions /\ writing \in Writing
    /\ stored \in [1 .. production.size -> Nat]
    /\ abandoned \in BOOLEAN
    /\ writing.at \in {"start", "publish"} => writing.tries = 0
    /\ writing.at \in {"write", "sleep"} => writing.tries <= ProducerRetries
    /\ \A m \in 1 .. production.size : stored[m] <= writing.tries

ResultInv ==
    writing.at = "over" =>
        /\ writing.result = "ok" =>
               \/ production.async \/ \A m \in 1 .. production.size : stored[m] >= 1
               \/ production.via = "dlq" /\ DLQStrategy # "publish_to_dlq"
        /\ writing.result = "failed" =>
               \/ writing.tries = ProducerRetries + 1 \/ abandoned
               \/ production.via = "dlq" /\ ~production.publisher
        /\ writing.result \notin {"ok", "failed"} =>
               \A m \in 1 .. production.size : stored[m] = 0

ProducerInv == WritingInv /\ ResultInv

LEMMA ProductionFacts ==
    ASSUME NEW c \in Productions
    PROVE  /\ ProducerRetries \in Nat /\ c.size \in Nat
           /\ c.topic \in BOOLEAN /\ c.publisher \in BOOLEAN /\ c.async \in BOOLEAN
  BY ProducerAssumption DEF ProducerAssumption

LEMMA ProducerStarts ==
    ASSUME NEW c \in Productions, ProducerStart(c)
    PROVE  ProducerInv
<1>1. writing.at = "start" /\ writing.tries = 0 /\ writing.result = "none" /\ writing \in Writing
  BY DEF ProducerStart, Writing
<1>2. production \in Productions /\ production = c /\ abandoned \in BOOLEAN
  BY DEF ProducerStart
<1>3. stored \in [1 .. production.size -> Nat] /\ \A m \in 1 .. production.size : stored[m] = 0
  BY DEF ProducerStart
<1> QED
  BY <1>1, <1>2, <1>3 DEF ProducerInv, WritingInv, ResultInv

(* It returns without another try, for a reason.                           *)
LEMMA ReturnsKeeps ==
    ASSUME ProducerInv, NEW r \in {"ok", "closed", "failed", "invalid"}, Returned(r),
           UNCHANGED <<production, stored, closing, abandoned>>,
           r = "ok" => \/ production.size = 0
                       \/ production.via = "dlq" /\ DLQStrategy # "publish_to_dlq",
           r = "failed" => abandoned \/ (production.via = "dlq" /\ ~production.publisher),
           r \in {"closed", "invalid"} => writing.at \in {"start", "publish"}
    PROVE  ProducerInv'
<1>1. writing'.at = "over" /\ writing'.tries = writing.tries /\ writing'.result = r
      /\ writing' \in Writing
  BY DEF Returned, ProducerInv, WritingInv, Writing
<1>2. WritingInv'
  BY <1>1 DEF ProducerInv, WritingInv
<1>3. production.size \in Nat
  BY ProductionFacts DEF ProducerInv, WritingInv
<1>4. r \in {"closed", "invalid"} => \A m \in 1 .. production.size : stored[m] = 0
  BY <1>3 DEF ProducerInv, WritingInv
<1>5. r = "ok" => \/ \A m \in 1 .. production.size : stored[m] >= 1
                  \/ production.via = "dlq" /\ DLQStrategy # "publish_to_dlq"
  BY <1>3
<1>6. DLQStrategy' = DLQStrategy
  BY DEF DLQStrategy
<1>7. ResultInv'
  BY <1>1, <1>4, <1>5, <1>6 DEF ResultInv
<1> QED
  BY <1>2, <1>7 DEF ProducerInv

LEMMA GoesToKeeps ==
    ASSUME ProducerInv, NEW p \in {"publish", "write"}, writing' = [writing EXCEPT !.at = p],
           writing.at \in {"start", "publish", "sleep"},
           writing.at = "sleep" => p = "write",
           UNCHANGED <<production, stored, closing, abandoned>>
    PROVE  ProducerInv'
<1>1. writing'.at = p /\ writing'.tries = writing.tries /\ writing' \in Writing
  BY DEF ProducerInv, WritingInv, Writing
<1>2. ProducerRetries \in Nat
  BY ProductionFacts DEF ProducerInv, WritingInv
<1>3. WritingInv'
  BY <1>1, <1>2 DEF ProducerInv, WritingInv
<1> QED
  BY <1>1, <1>3 DEF ProducerInv, ResultInv

LEMMA ProduceKeeps ==
    ASSUME ProducerInv, Produce
    PROVE  ProducerInv'
<1>1. /\ writing.at = "start" /\ UNCHANGED <<production, stored, closing, abandoned>>
      /\ IF production.via = "dlq" THEN HandleFailure
         ELSE writing' = [writing EXCEPT !.at = "publish"]
  BY DEF Produce
<1>2. CASE writing' = [writing EXCEPT !.at = "publish"]
  BY <1>1, <1>2, GoesToKeeps
<1>3. CASE production.via = "dlq" /\ Returned("invalid")
  BY <1>1, <1>3, ReturnsKeeps
<1>4. CASE production.via = "dlq" /\ DLQStrategy # "publish_to_dlq" /\ Returned("ok")
  BY <1>1, <1>4, ReturnsKeeps
<1>5. CASE production.via = "dlq" /\ ~production.publisher /\ Returned("failed")
  BY <1>1, <1>5, ReturnsKeeps
<1> QED
  BY <1>1, <1>2, <1>3, <1>4, <1>5 DEF HandleFailure

LEMMA CheckProducerKeeps ==
    ASSUME ProducerInv, CheckProducer
    PROVE  ProducerInv'
<1>1. writing.at = "publish" /\ UNCHANGED <<production, stored, closing, abandoned>>
  BY DEF CheckProducer
<1>2. CASE Returned("closed")
  BY <1>1, <1>2, ReturnsKeeps
<1>3. CASE production.size = 0 /\ Returned("ok")
  BY <1>1, <1>3, ReturnsKeeps
<1>4. CASE writing' = [writing EXCEPT !.at = "write"]
  BY <1>1, <1>4, GoesToKeeps
<1> QED
  BY <1>2, <1>3, <1>4 DEF CheckProducer

(* A write is one more try, and stores a message at most once more.        *)
LEMMA WriteMessagesKeeps ==
    ASSUME ProducerInv, NEW S \in SUBSET DOMAIN stored, NEW ok \in BOOLEAN, WriteMessages(S, ok)
    PROVE  ProducerInv'
<1> DEFINE n == production.size
<1>1. /\ WritingInv /\ ProducerRetries \in Nat /\ n \in Nat
      /\ writing.at = "write" /\ UNCHANGED <<production, closing, abandoned>>
  BY ProductionFacts DEF ProducerInv, WritingInv, WriteMessages
<1>2. /\ writing'.tries = writing.tries + 1 /\ writing' \in Writing
      /\ ok => writing'.at = "over" /\ writing'.result = "ok"
      /\ ~ok /\ writing.tries + 1 <= ProducerRetries => writing'.at = "sleep"
      /\ ~ok /\ ~(writing.tries + 1 <= ProducerRetries) =>
             writing'.at = "over" /\ writing'.result = "failed"
  <2>1. writing \in Writing /\ writing.tries \in Nat
    BY <1>1 DEF WritingInv, Writing
  <2> DEFINE tried == [writing EXCEPT !.tries = @ + 1]
  <2>2. tried \in Writing /\ tried.tries = writing.tries + 1
    BY <2>1 DEF Writing
  <2> HIDE DEF tried
  <2>3. writing' = IF ok THEN [tried EXCEPT !.at = "over", !.result = "ok"]
                   ELSE IF tried.tries <= ProducerRetries THEN [tried EXCEPT !.at = "sleep"]
                   ELSE [tried EXCEPT !.at = "over", !.result = "failed"]
    BY DEF WriteMessages, MayWriteAgain, tried
  <2> QED
    BY <2>2, <2>3 DEF Writing
<1>3. /\ stored' \in [1 .. n -> Nat]
      /\ \A m \in 1 .. n : stored'[m] <= stored[m] + 1
      /\ \A m \in S : stored'[m] = stored[m] + 1
  <2>1. DOMAIN stored = 1 .. n /\ stored \in [1 .. n -> Nat]
    BY <1>1 DEF WritingInv
  <2>2. stored' = [m \in 1 .. n |-> stored[m] + (IF m \in S THEN 1 ELSE 0)]
    BY <2>1 DEF WriteMessages
  <2> QED
    BY <2>1, <2>2
<1>4. writing.tries \in Nat /\ writing.tries <= ProducerRetries
  BY <1>1 DEF WritingInv, Writing
<1>5. \A m \in 1 .. n : stored'[m] <= writing.tries + 1
  BY <1>1, <1>3, <1>4 DEF WritingInv
<1>6. ok /\ ~production.async => \A m \in 1 .. n : stored'[m] >= 1
  <2>1. ok /\ ~production.async => S = 1 .. n
    BY <1>1 DEF WriteMessages, Written, WritingInv
  <2> QED
    BY <1>1, <1>3, <2>1 DEF WritingInv
<1>7. WritingInv'
  BY <1>1, <1>2, <1>3, <1>4, <1>5 DEF WritingInv
<1>8. ResultInv'
  BY <1>1, <1>2, <1>4, <1>6 DEF ResultInv
<1> QED
  BY <1>7, <1>8 DEF ProducerInv

LEMMA ProducerNextKeeps ==
    ASSUME ProducerInv, ProducerNext
    PROVE  ProducerInv'
<1>1. CASE Produce
  BY <1>1, ProduceKeeps
<1>2. CASE CheckProducer
  BY <1>2, CheckProducerKeeps
<1>3. ASSUME NEW S \in SUBSET DOMAIN stored, NEW ok \in BOOLEAN, WriteMessages(S, ok)
      PROVE  ProducerInv'
  BY <1>3, WriteMessagesKeeps
<1>4. CASE WriteAgain
  BY <1>4, GoesToKeeps DEF WriteAgain
<1>5. CASE AbandonWrite
  BY <1>5, ReturnsKeeps DEF AbandonWrite
<1>6. CASE CallerLeaves
  BY <1>6 DEF CallerLeaves, ProducerInv, WritingInv, ResultInv, DLQStrategy
<1>7. CASE CloseFlags \/ CloseWriter
  BY <1>7 DEF CloseFlags, CloseWriter, ProducerInv, WritingInv, ResultInv, DLQStrategy
<1> QED
  BY <1>1, <1>2, <1>3, <1>4, <1>5, <1>6, <1>7 DEF ProducerNext

LEMMA ProducerRests ==
    ASSUME ProducerInv, UNCHANGED producerVars
    PROVE  ProducerInv'
  BY DEF ProducerInv, WritingInv, ResultInv, DLQStrategy, producerVars

LEMMA ProducerIsTrue ==
    ASSUME ProducerInv
    PROVE  PublishIsTrue
<1>1. DOMAIN stored = 1 .. production.size /\ \A m \in DOMAIN stored : stored[m] <= writing.tries
  BY DEF ProducerInv, WritingInv
<1>2. writing.result = "ok" \/ writing.result = "failed" \/ writing.result \notin {"ok", "failed"}
  OBVIOUS
<1> QED
  BY <1>1, <1>2 DEF ProducerInv, ResultInv, PublishIsTrue
-----------------------------------------------------------------------------
(* One call of the HTTP client: at every place, how many attempts were     *)
(* made, which answer is open, and what the hook and the span were told.   *)
Results == Outcomes \cup {NoResult, "invalid", "tooLarge", "unread", "decoded", "success",
                          "errorBody", "responseTooLarge", "unreadable", "closeFailed"}

Trip == [at : Places, attempt : Nat, log : Seq(Outcomes), result : Results, open : Int,
         request : {"open", "closed"}, hooks : Nat]

CallTold == [requests : Nat, errors : Nat, span : {"none", "open", "ok", "error"}]

MostAttempts == IF RetryEnabled THEN call.attempts ELSE 1

(* The outcomes before the last, or all of them, made it try again.        *)
TriedAgain(n) == \A i \in 1 .. n : IsRetryable(call.policy, trip.log[i])

LogInv ==
    /\ trip.at \in {"call", "buffer"} => trip.log = << >> /\ trip.attempt = 1
    /\ trip.at = "send" => Len(trip.log) = trip.attempt - 1 /\ TriedAgain(Len(trip.log))
                           /\ trip.attempt <= MostAttempts
    /\ trip.at = "judge" => Len(trip.log) = trip.attempt
    /\ trip.at = "sleep" => Len(trip.log) = trip.attempt /\ TriedAgain(Len(trip.log))
                            /\ trip.attempt < MostAttempts
    /\ Len(trip.log) <= MostAttempts /\ TriedAgain(Len(trip.log) - 1)

OpenAnswerInv ==
    /\ trip.at \in {"call", "buffer", "send", "sleep"} => trip.open = 0
    /\ trip.at = "judge" => trip.open = IF LastOutcome \in Errors THEN 0 ELSE 1
    /\ trip.at \in {"judge", "sleep", "returned", "decode"} => trip.request = "closed"
    /\ trip.at = "decode" => /\ trip.open = 1 /\ trip.result \in DOMAIN Answers
                             /\ call.client = "make"
    /\ trip.at \in {"returned", "over"} =>
           /\ trip.open = IF trip.result \in DOMAIN Answers THEN 1 ELSE 0
           /\ trip.result \in Outcomes =>
                  trip.result = LastOutcome \/ (trip.result = "ctxErr" /\ expired)
           /\ trip.request = "open" => trip.result = "invalid"
    /\ trip.at = "returned" /\ call.client = "make" => trip.result \in Outcomes
    /\ trip.at = "buffer" => RetryEnabled

ToldInv ==
    /\ trip.at \in {"call", "buffer"} => trip.hooks = 0
    /\ trip.at \in {"send", "judge"} => trip.hooks = trip.attempt - 1
    /\ trip.at = "sleep" => trip.hooks = trip.attempt
    /\ Observed /\ trip.at \notin {"returned", "over"} => told.requests = 0 /\ told.errors = 0
    /\ Observed /\ trip.at \in {"returned", "over"} /\ trip.result # "invalid" =>
           /\ told.requests = 1
           /\ told.errors = IF trip.result \in DOMAIN Answers THEN 0 ELSE 1
           /\ told.span = IF trip.result \in {"ok", "noContent"} THEN "ok" ELSE "error"
           /\ \/ trip.log # << >> /\ trip.hooks = Len(trip.log) - 1
              \/ trip.hooks = Len(trip.log) /\ trip.result # "ok"

ClientInv ==
    /\ call \in Calls /\ trip \in Trip /\ told \in CallTold /\ expired \in BOOLEAN
    /\ LogInv /\ OpenAnswerInv /\ ToldInv

LEMMA CallFacts ==
    ASSUME ClientInv
    PROVE  /\ call.attempts \in Nat /\ MostAttempts \in Nat /\ MostAttempts >= 1
           /\ Len(trip.log) \in Nat /\ trip.attempt \in Nat /\ trip.hooks \in Nat
           /\ trip.at \in Places /\ trip.open \in Int /\ trip.log \in Seq(Outcomes)
           /\ told.requests \in Nat /\ told.errors \in Nat
<1>1. call.attempts \in Nat
  BY HttpClientAssumption DEF HttpClientAssumption, ClientInv
<1>2. MostAttempts \in Nat /\ MostAttempts >= 1
  BY <1>1 DEF MostAttempts, RetryEnabled
<1>3. trip \in Trip /\ told \in CallTold
  BY DEF ClientInv
<1> QED
  BY <1>1, <1>2, <1>3 DEF Trip, CallTold

LEMMA ClientStarts ==
    ASSUME NEW c \in Calls, ClientStart(c)
    PROVE  ClientInv
<1>1. call \in Calls /\ trip.at = "call" /\ trip.attempt = 1 /\ trip.log = << >>
      /\ trip.open = 0 /\ trip.hooks = 0 /\ told.requests = 0 /\ told.errors = 0
      /\ expired = FALSE
  BY DEF ClientStart
<1>2. trip \in Trip /\ told \in CallTold
  BY DEF ClientStart, Trip, CallTold, Places, Results
<1>3. call.attempts \in Nat
  BY <1>1, HttpClientAssumption DEF HttpClientAssumption
<1>4. Len(trip.log) = 0 /\ 0 <= MostAttempts
  BY <1>1, <1>3 DEF MostAttempts, RetryEnabled
<1>5. LogInv
  BY <1>1, <1>4 DEF LogInv, TriedAgain
<1>6. OpenAnswerInv /\ ToldInv
  BY <1>1 DEF OpenAnswerInv, ToldInv
<1> QED
  BY <1>1, <1>2, <1>5, <1>6 DEF ClientInv

(* The transports return r; t is where the trip was by then.               *)
LEMMA ReturnKeeps ==
    ASSUME ClientInv, NEW t \in Trip, NEW r \in Results \ {"invalid"}, Return(t, r),
           trip.at \in {"buffer", "judge", "sleep"},
           t.log = trip.log, t.request = "closed",
           t.open = IF r \in DOMAIN Answers THEN 1 ELSE 0,
           r \in Outcomes => r = LastOutcome \/ (r = "ctxErr" /\ expired),
           call.client = "make" => r \in Outcomes,
           \/ trip.log # << >> /\ t.hooks = Len(trip.log) - 1
           \/ t.hooks = Len(trip.log) /\ r # "ok"
    PROVE  ClientInv'
<1>1. /\ trip'.at = "returned" /\ trip'.result = r /\ trip'.log = trip.log
      /\ trip'.open = t.open /\ trip'.request = "closed" /\ trip'.hooks = t.hooks
      /\ trip' \in Trip
  BY DEF Return, Trip, Places
<1>2. call' = call /\ expired' = expired /\ told' = Report(r)
  BY DEF Return
<1>3. LogInv'
  BY <1>1, <1>2 DEF ClientInv, LogInv, TriedAgain, MostAttempts, RetryEnabled
<1>4. OpenAnswerInv'
  BY <1>1, <1>2 DEF OpenAnswerInv, LastOutcome
<1>5. Answers["ok"] = 200 /\ Answers["noContent"] = 204 /\ Answers["notFound"] = 404
      /\ Answers["tooMany"] = 429 /\ Answers["broken"] = 500
      /\ DOMAIN Answers = {"ok", "noContent", "notFound", "tooMany", "broken"}
  BY DEF Answers
<1>6. told' \in CallTold /\
      (Observed => /\ told'.requests = 1
                   /\ told'.errors = IF r \in DOMAIN Answers THEN 0 ELSE 1
                   /\ told'.span = IF r \in {"ok", "noContent"} THEN "ok" ELSE "error")
  <2>1. told \in CallTold /\ (Observed => told.requests = 0 /\ told.errors = 0)
    BY DEF ClientInv, ToldInv
  <2>2. CASE ~Observed
    BY <1>2, <2>1, <2>2 DEF Report
  <2>3. CASE Observed /\ r \notin DOMAIN Answers
    <3>1. r \notin {"ok", "noContent"}
      BY <1>5, <2>3
    <3>2. told' = [requests |-> 1, errors |-> 1, span |-> "error"]
      BY <1>2, <2>1, <2>3 DEF Report
    <3> QED
      BY <2>3, <3>1, <3>2 DEF CallTold
  <2>4. CASE Observed /\ r \in DOMAIN Answers
    <3> DEFINE s == IF r \in {"ok", "noContent"} THEN "ok" ELSE "error"
    <3>1. (IF Answers[r] >= 400 THEN "error" ELSE "ok") = s
      BY <1>5, <2>4
    <3>2. told' = [requests |-> 1, errors |-> 0, span |-> s]
      BY <1>2, <2>1, <2>4, <3>1 DEF Report
    <3> QED
      BY <2>4, <3>2 DEF CallTold
  <2> QED
    BY <2>2, <2>3, <2>4
<1>7. ToldInv'
  BY <1>1, <1>2, <1>6 DEF ToldInv, Observed
<1> QED
  BY <1>1, <1>2, <1>3, <1>4, <1>6, <1>7 DEF ClientInv

LEMMA ExpiresKeeps ==
    ASSUME ClientInv, CallExpires
    PROVE  ClientInv'
<1>1. UNCHANGED <<call, trip, told>> /\ expired' = TRUE
  BY DEF CallExpires
<1>2. LogInv'
  BY <1>1 DEF ClientInv, LogInv, TriedAgain, MostAttempts, RetryEnabled
<1>3. OpenAnswerInv'
  BY <1>1 DEF ClientInv, OpenAnswerInv, LastOutcome, RetryEnabled
<1>4. ToldInv'
  BY <1>1 DEF ClientInv, ToldInv, Observed
<1> QED
  BY <1>1, <1>2, <1>3, <1>4 DEF ClientInv

LEMMA ExecuteKeeps ==
    ASSUME ClientInv, ExecuteCall
    PROVE  ClientInv'
<1>1. /\ trip \in Trip /\ told \in CallTold /\ trip.at = "call" /\ call' = call
      /\ expired' = expired /\ trip.log = << >> /\ trip.attempt = 1
      /\ trip.open = 0 /\ trip.hooks = 0 /\ Len(trip.log) = 0
      /\ Observed => told.requests = 0 /\ told.errors = 0
  BY DEF ClientInv, LogInv, OpenAnswerInv, ToldInv, ExecuteCall
<1>2. CASE trip' = [trip EXCEPT !.at = "over", !.result = "invalid"] /\ told' = told
  <2>1. /\ trip'.at = "over" /\ trip'.result = "invalid" /\ trip'.log = << >>
        /\ trip'.open = 0 /\ trip' \in Trip
    BY <1>1, <1>2 DEF Trip, Places, Results
  <2>2. "invalid" \notin DOMAIN Answers /\ "invalid" \notin Outcomes
    BY DEF Answers, Outcomes, Errors
  <2>3. LogInv'
    BY <1>1, <2>1, CallFacts DEF LogInv, TriedAgain, MostAttempts, RetryEnabled
  <2>4. OpenAnswerInv' /\ ToldInv'
    BY <1>1, <1>2, <2>1, <2>2 DEF OpenAnswerInv, ToldInv
  <2> QED
    BY <1>1, <1>2, <2>1, <2>3, <2>4 DEF ClientInv
<1>3. ASSUME NEW p \in {"buffer", "send"}, p = "buffer" => RetryEnabled,
             trip' = [trip EXCEPT !.at = p],
             told' = [told EXCEPT !.span = IF Observed THEN "open" ELSE @]
      PROVE  ClientInv'
  <2>1. /\ trip'.at = p /\ trip'.log = << >> /\ trip'.open = 0 /\ trip'.hooks = 0
        /\ trip'.attempt = 1 /\ trip' \in Trip
    BY <1>1, <1>3 DEF Trip, Places
  <2>2. told'.requests = told.requests /\ told'.errors = told.errors /\ told' \in CallTold
    BY <1>1, <1>3 DEF CallTold
  <2>3. MostAttempts \in Nat /\ MostAttempts >= 1 /\ MostAttempts' = MostAttempts
    BY <1>1, CallFacts DEF MostAttempts, RetryEnabled
  <2>4. LogInv'
    BY <1>1, <1>3, <2>1, <2>3 DEF LogInv, TriedAgain
  <2>5. OpenAnswerInv'
    BY <1>1, <1>3, <2>1 DEF OpenAnswerInv, RetryEnabled
  <2>6. ToldInv'
    BY <1>1, <1>3, <2>1, <2>2 DEF ToldInv, Observed
  <2> QED
    BY <1>1, <2>1, <2>2, <2>4, <2>5, <2>6 DEF ClientInv
<1>4. CASE RetryEnabled /\ ~ValidateRetryConfig
  BY <1>2, <1>4 DEF ExecuteCall
<1>5. CASE RetryEnabled /\ ValidateRetryConfig
  BY <1>3, <1>5 DEF ExecuteCall
<1>6. CASE ~RetryEnabled
  BY <1>3, <1>6 DEF ExecuteCall
<1> QED
  BY <1>4, <1>5, <1>6

LEMMA BufferKeeps ==
    ASSUME ClientInv, BufferBody
    PROVE  ClientInv'
<1> DEFINE t == [trip EXCEPT !.request = "closed"]
<1>1. /\ trip \in Trip /\ trip.at = "buffer" /\ trip.log = << >> /\ trip.attempt = 1
      /\ trip.open = 0 /\ trip.hooks = 0 /\ Len(trip.log) = 0 /\ RetryEnabled
  BY DEF ClientInv, LogInv, OpenAnswerInv, ToldInv, BufferBody
<1>2. /\ t \in Trip /\ t.at = "buffer" /\ t.log = trip.log /\ t.open = 0 /\ t.hooks = 0
      /\ t.request = "closed" /\ t.attempt = 1
  BY <1>1 DEF Trip
<1>3. call.client # "make"
  BY <1>1 DEF RetryEnabled
<1>4. \/ Return(t, "tooLarge") \/ Return(t, "unread")
      \/ trip' = [t EXCEPT !.at = "send"] /\ UNCHANGED <<call, expired, told>>
  BY DEF BufferBody
<1> HIDE DEF t
<1>5. ASSUME NEW r \in {"tooLarge", "unread"}, Return(t, r)
      PROVE  ClientInv'
  <2>1. r \notin DOMAIN Answers /\ r \notin Outcomes /\ r \in Results \ {"invalid"}
    BY <1>5 DEF Answers, Outcomes, Errors, Results
  <2> QED
    BY <1>1, <1>2, <1>3, <1>5, <2>1, ReturnKeeps
<1>6. CASE trip' = [t EXCEPT !.at = "send"] /\ UNCHANGED <<call, expired, told>>
  <2>1. /\ trip'.at = "send" /\ trip'.log = << >> /\ trip'.open = 0 /\ trip'.hooks = 0
        /\ trip'.attempt = 1 /\ trip' \in Trip
    BY <1>1, <1>2, <1>6 DEF Trip, Places
  <2>2. MostAttempts \in Nat /\ MostAttempts >= 1 /\ MostAttempts' = MostAttempts
    BY <1>6, CallFacts DEF MostAttempts, RetryEnabled
  <2>3. LogInv'
    BY <1>1, <1>6, <2>1, <2>2 DEF LogInv, TriedAgain
  <2>4. OpenAnswerInv'
    BY <1>6, <2>1 DEF OpenAnswerInv
  <2>5. ToldInv'
    BY <1>1, <1>6, <2>1 DEF ClientInv, ToldInv, Observed
  <2> QED
    BY <1>6, <2>1, <2>3, <2>4, <2>5 DEF ClientInv
<1> QED
  BY <1>4, <1>5, <1>6

(* One more attempt, and its outcome is the last.                          *)
LEMMA SendKeeps ==
    ASSUME ClientInv, NEW o \in Outcomes, Send(o)
    PROVE  ClientInv'
<1> DEFINE n == Len(trip.log)
<1>1. /\ trip \in Trip /\ trip.at = "send" /\ n = trip.attempt - 1 /\ TriedAgain(n)
      /\ trip.attempt <= MostAttempts /\ trip.open = 0 /\ trip.hooks = trip.attempt - 1
      /\ UNCHANGED <<call, expired, told>>
  BY DEF ClientInv, LogInv, OpenAnswerInv, ToldInv, Send
<1>2. n \in Nat /\ trip.log \in Seq(Outcomes) /\ trip.attempt \in Nat /\ MostAttempts \in Nat
  BY CallFacts
<1>3. /\ trip'.at = "judge" /\ trip'.log = Append(trip.log, o) /\ trip'.request = "closed"
      /\ trip'.hooks = trip.hooks /\ trip'.attempt = trip.attempt
      /\ trip'.open = IF o \in Errors THEN 0 ELSE 1
      /\ trip' \in Trip
  <2> DEFINE w == IF o \in Errors THEN 0 ELSE 1
  <2>1. trip.open + w = w /\ w \in Int
    BY <1>1
  <2>2. Append(trip.log, o) \in Seq(Outcomes)
    BY <1>2
  <2>3. trip' = [trip EXCEPT !.at = "judge", !.log = Append(trip.log, o),
                             !.open = trip.open + w, !.request = "closed"]
    BY DEF Send
  <2> HIDE DEF w
  <2>4. trip' = [at |-> "judge", attempt |-> trip.attempt, log |-> Append(trip.log, o),
                 result |-> trip.result, open |-> w, request |-> "closed",
                 hooks |-> trip.hooks]
    BY <1>1, <2>1, <2>3 DEF Trip
  <2>5. trip.result \in Results /\ trip.hooks \in Nat
    BY <1>1 DEF Trip
  <2>6. trip' \in Trip
    BY <1>2, <2>1, <2>2, <2>4, <2>5 DEF Trip, Places
  <2> QED
    BY <2>4, <2>6 DEF w
<1>4. /\ Len(trip'.log) = n + 1 /\ trip'.log[n + 1] = o
      /\ \A i \in 1 .. n : trip'.log[i] = trip.log[i]
  BY <1>2, <1>3
<1>5. LogInv'
  <2>1. MostAttempts' = MostAttempts
    BY <1>1 DEF MostAttempts, RetryEnabled
  <2>2. \A i \in 1 .. n : IsRetryable(call'.policy, trip'.log[i])
    BY <1>1, <1>4 DEF TriedAgain
  <2>3. n + 1 - 1 = n /\ n + 1 = trip.attempt /\ n + 1 <= MostAttempts
    BY <1>1, <1>2
  <2> QED
    BY <1>3, <1>4, <2>1, <2>2, <2>3 DEF LogInv, TriedAgain
<1>6. OpenAnswerInv'
  BY <1>3, <1>4 DEF OpenAnswerInv, LastOutcome
<1>7. ToldInv'
  BY <1>1, <1>3 DEF ClientInv, ToldInv, Observed
<1> QED
  BY <1>1, <1>3, <1>5, <1>6, <1>7 DEF ClientInv

LEMMA JudgeFacts ==
    ASSUME ClientInv, trip.at = "judge"
    PROVE  /\ trip \in Trip /\ Len(trip.log) = trip.attempt /\ trip.hooks = trip.attempt - 1
           /\ trip.log # << >> /\ LastOutcome \in Outcomes
           /\ trip.open = IF LastOutcome \in Errors THEN 0 ELSE 1
           /\ trip.request = "closed" /\ Outcomes \subseteq Results
           /\ \A o \in Outcomes : (o \in DOMAIN Answers) = (o \notin Errors)
           /\ "invalid" \notin Outcomes
<1>1. trip \in Trip /\ Len(trip.log) = trip.attempt /\ trip.hooks = trip.attempt - 1
      /\ trip.open = (IF LastOutcome \in Errors THEN 0 ELSE 1) /\ trip.request = "closed"
  BY DEF ClientInv, LogInv, OpenAnswerInv, ToldInv
<1>2. Len(trip.log) \in Nat /\ trip.attempt \in Nat /\ trip.log \in Seq(Outcomes)
      /\ trip.hooks \in Nat
  BY CallFacts
<1>3. trip.attempt >= 1
  BY <1>1, <1>2
<1>4. trip.log # << >> /\ LastOutcome \in Outcomes
  BY <1>1, <1>2, <1>3 DEF LastOutcome
<1>5. \A o \in Outcomes : (o \in DOMAIN Answers) = (o \notin Errors)
  BY DEF Outcomes, Answers, Errors
<1>6. "invalid" \notin Outcomes /\ Outcomes \subseteq Results
  BY DEF Outcomes, Answers, Errors, Results
<1> QED
  BY <1>1, <1>4, <1>5, <1>6

LEMMA ReturnAnswerKeeps ==
    ASSUME ClientInv, ReturnAnswer
    PROVE  ClientInv'
<1>1. trip.at = "judge" /\ Return(trip, LastOutcome)
  BY DEF ReturnAnswer
<1>2. trip.open = IF LastOutcome \in DOMAIN Answers THEN 1 ELSE 0
  BY <1>1, JudgeFacts
<1>3. LastOutcome \in Results \ {"invalid"} /\ trip.hooks = Len(trip.log) - 1
  BY <1>1, JudgeFacts
<1> QED
  BY <1>1, <1>2, <1>3, JudgeFacts, ReturnKeeps

(* drain: the answer that is not used is closed.                           *)
LEMMA DrainedFacts ==
    ASSUME ClientInv, trip.at = "judge"
    PROVE  /\ Drained \in Trip /\ Drained.open = 0 /\ Drained.log = trip.log
           /\ Drained.hooks = trip.hooks /\ Drained.request = "closed"
           /\ Drained.attempt = trip.attempt
<1>1. trip \in Trip /\ trip.request = "closed"
      /\ trip.open = IF LastOutcome \in Errors THEN 0 ELSE 1
  BY JudgeFacts
<1>2. Drained = [trip EXCEPT !.open = 0]
  BY <1>1 DEF Drained
<1> QED
  BY <1>1, <1>2 DEF Trip

LEMMA AbandonRetryKeeps ==
    ASSUME ClientInv, AbandonRetry
    PROVE  ClientInv'
<1>1. trip.at = "judge" /\ ~GiveUp /\ expired /\ Return(Drained, "ctxErr")
  BY DEF AbandonRetry
<1>2. "ctxErr" \in Outcomes /\ "ctxErr" \notin DOMAIN Answers /\ "ctxErr" \in Results \ {"invalid"}
  BY DEF Outcomes, Answers, Errors, Results
<1>3. call.client # "make"
  BY <1>1 DEF GiveUp, RetryEnabled
<1>4. Drained.hooks = Len(trip.log) - 1
  BY <1>1, JudgeFacts, DrainedFacts
<1> QED
  BY <1>1, <1>2, <1>3, <1>4, JudgeFacts, DrainedFacts, ReturnKeeps

LEMMA PrepareRetryKeeps ==
    ASSUME ClientInv, PrepareRetry
    PROVE  ClientInv'
<1>1. /\ trip.at = "judge" /\ ~GiveUp /\ UNCHANGED <<call, expired, told>>
      /\ trip' = [Drained EXCEPT !.at = "sleep", !.hooks = Drained.hooks + 1]
  BY DEF PrepareRetry
<1>2. /\ trip'.at = "sleep" /\ trip'.log = trip.log /\ trip'.open = 0
      /\ trip'.request = "closed" /\ trip'.attempt = trip.attempt
      /\ trip'.hooks = trip.hooks + 1 /\ trip' \in Trip
  <2>1. Drained \in Trip
    BY <1>1, DrainedFacts
  <2>2. Drained.hooks + 1 \in Nat
    BY <2>1 DEF Trip
  <2>3. trip' = [at |-> "sleep", attempt |-> Drained.attempt, log |-> Drained.log,
                 result |-> Drained.result, open |-> Drained.open,
                 request |-> Drained.request, hooks |-> Drained.hooks + 1]
    BY <1>1, <2>1 DEF Trip
  <2>4. trip' \in Trip
    BY <2>1, <2>2, <2>3 DEF Trip, Places
  <2> QED
    BY <1>1, <2>3, <2>4, DrainedFacts
<1>3. Len(trip.log) = trip.attempt /\ trip.hooks = trip.attempt - 1 /\ trip.attempt \in Nat
      /\ trip.log # << >>
  BY <1>1, JudgeFacts, CallFacts
<1>4. RetryEnabled /\ IsRetryable(call.policy, LastOutcome) /\ trip.attempt < call.attempts
  BY <1>1, CallFacts DEF GiveUp
<1>5. LogInv'
  <2>1. MostAttempts' = MostAttempts /\ MostAttempts = call.attempts
    BY <1>1, <1>4 DEF MostAttempts, RetryEnabled
  <2>2. TriedAgain(Len(trip.log) - 1)
    BY DEF ClientInv, LogInv
  <2>3. \A i \in 1 .. Len(trip.log) : IsRetryable(call.policy, trip.log[i])
    BY <1>3, <1>4, <2>2 DEF TriedAgain, LastOutcome
  <2>4. \A i \in 1 .. Len(trip.log) - 1 : IsRetryable(call.policy, trip.log[i])
    BY <2>2 DEF TriedAgain
  <2> QED
    BY <1>1, <1>2, <1>3, <1>4, <2>1, <2>3, <2>4, CallFacts DEF LogInv, TriedAgain
<1>6. OpenAnswerInv'
  BY <1>2 DEF OpenAnswerInv
<1>7. ToldInv'
  BY <1>1, <1>2, <1>3 DEF ClientInv, ToldInv, Observed
<1> QED
  BY <1>1, <1>2, <1>5, <1>6, <1>7 DEF ClientInv

LEMMA SleepKeeps ==
    ASSUME ClientInv, Sleep
    PROVE  ClientInv'
<1>1. /\ trip \in Trip /\ trip.at = "sleep" /\ UNCHANGED <<call, expired, told>>
      /\ Len(trip.log) = trip.attempt /\ trip.hooks = trip.attempt /\ trip.open = 0
      /\ trip.request = "closed" /\ TriedAgain(Len(trip.log)) /\ trip.attempt < MostAttempts
      /\ trip.attempt \in Nat
  BY CallFacts DEF Sleep, ClientInv, LogInv, OpenAnswerInv, ToldInv
<1>2. /\ trip'.at = "send" /\ trip'.log = trip.log /\ trip'.open = 0 /\ trip'.hooks = trip.hooks
      /\ trip'.attempt = trip.attempt + 1 /\ trip' \in Trip
  <2>1. trip' = [trip EXCEPT !.at = "send", !.attempt = trip.attempt + 1]
    BY DEF Sleep
  <2>2. trip' = [at |-> "send", attempt |-> trip.attempt + 1, log |-> trip.log,
                 result |-> trip.result, open |-> trip.open, request |-> trip.request,
                 hooks |-> trip.hooks]
    BY <1>1, <2>1 DEF Trip
  <2>3. trip.attempt + 1 \in Nat
    BY <1>1
  <2>4. trip' \in Trip
    BY <1>1, <2>2, <2>3 DEF Trip, Places
  <2> QED
    BY <1>1, <2>2, <2>4
<1>3. LogInv'
  <2>1. MostAttempts' = MostAttempts /\ MostAttempts \in Nat
    BY <1>1, CallFacts DEF MostAttempts, RetryEnabled
  <2>2. (\A i \in 1 .. Len(trip.log) : IsRetryable(call.policy, trip.log[i]))
        /\ (\A i \in 1 .. Len(trip.log) - 1 : IsRetryable(call.policy, trip.log[i]))
    BY <1>1 DEF TriedAgain
  <2>3. Len(trip.log) <= MostAttempts /\ trip.attempt + 1 <= MostAttempts
        /\ Len(trip.log) = trip.attempt + 1 - 1
    BY <1>1, <2>1
  <2>4. Len(trip'.log) = Len(trip.log) /\ Len(trip'.log) = trip'.attempt - 1
        /\ trip'.attempt <= MostAttempts' /\ Len(trip'.log) <= MostAttempts'
    <3>2. Len(trip'.log) = Len(trip.log)
      BY <1>2
    <3>1. trip'.attempt <= MostAttempts' /\ Len(trip'.log) <= MostAttempts'
      BY <1>2, <2>1, <2>3, <3>2
    <3>3. trip'.attempt - 1 = trip.attempt + 1 - 1
      BY <1>1, <1>2
    <3> QED
      BY <2>3, <3>1, <3>2, <3>3
  <2>5. TriedAgain(Len(trip.log))' /\ TriedAgain(Len(trip.log) - 1)'
    BY <1>1, <1>2, <2>2 DEF TriedAgain
  <2> QED
    BY <1>2, <2>4, <2>5 DEF LogInv
<1>4. OpenAnswerInv'
  BY <1>2 DEF OpenAnswerInv
<1>5. ToldInv'
  BY <1>1, <1>2 DEF ClientInv, ToldInv, Observed
<1> QED
  BY <1>1, <1>2, <1>3, <1>4, <1>5 DEF ClientInv

LEMMA SleepCancelledKeeps ==
    ASSUME ClientInv, SleepCancelled
    PROVE  ClientInv'
<1>1. /\ trip \in Trip /\ trip.at = "sleep" /\ expired /\ Return(trip, "ctxErr")
      /\ trip.hooks = Len(trip.log) /\ trip.open = 0 /\ trip.request = "closed"
  BY DEF SleepCancelled, ClientInv, LogInv, OpenAnswerInv, ToldInv
<1>2. "ctxErr" \in Outcomes /\ "ctxErr" \notin DOMAIN Answers /\ "ctxErr" \in Results \ {"invalid"}
  BY DEF Outcomes, Answers, Errors, Results
<1> QED
  BY <1>1, <1>2, ReturnKeeps

LEMMA EndCallKeeps ==
    ASSUME ClientInv, EndCall
    PROVE  ClientInv'
<1> DEFINE p == IF call.client = "make" /\ trip.result \notin Errors THEN "decode" ELSE "over"
<1>1. /\ trip \in Trip /\ trip.at = "returned" /\ UNCHANGED <<call, expired, told>>
      /\ trip' = [trip EXCEPT !.at = p]
  BY DEF EndCall, ClientInv
<1>2. p \in {"decode", "over"} /\ (p = "decode" => call.client = "make" /\ trip.result \notin Errors)
  OBVIOUS
<1> HIDE DEF p
<1>3. /\ trip'.at = p /\ trip'.log = trip.log /\ trip'.open = trip.open
      /\ trip'.hooks = trip.hooks /\ trip'.request = trip.request
      /\ trip'.result = trip.result /\ trip' \in Trip
  BY <1>1, <1>2 DEF Trip, Places
<1>4. LogInv'
  BY <1>1, <1>2, <1>3 DEF ClientInv, LogInv, TriedAgain, MostAttempts, RetryEnabled
<1>5. OpenAnswerInv'
  <2>1. p = "decode" => trip.result \in DOMAIN Answers
    BY <1>1, <1>2 DEF ClientInv, OpenAnswerInv, Outcomes
  <2> QED
    BY <1>1, <1>2, <1>3, <2>1 DEF ClientInv, OpenAnswerInv, LastOutcome
<1>6. ToldInv'
  BY <1>1, <1>2, <1>3 DEF ClientInv, ToldInv, Observed
<1> QED
  BY <1>1, <1>3, <1>4, <1>5, <1>6 DEF ClientInv

LEMMA DecodeKeeps ==
    ASSUME ClientInv, NEW how \in {"decoded", "responseTooLarge", "unreadable", "closeFailed"},
           Decode(how)
    PROVE  ClientInv'
<1> DEFINE r == IF how # "decoded" THEN how
                ELSE IF Answers[trip.result] \in 200 .. 299 THEN "success" ELSE "errorBody"
<1>1. /\ trip \in Trip /\ trip.at = "decode" /\ UNCHANGED <<call, expired, told>>
      /\ trip.open = 1 /\ trip.request = "closed"
      /\ trip' = [trip EXCEPT !.at = "over", !.open = trip.open - 1, !.result = r]
  BY DEF Decode, ClientInv, OpenAnswerInv
<1>2. r \in {"success", "errorBody", "responseTooLarge", "unreadable", "closeFailed"}
  OBVIOUS
<1> HIDE DEF r
<1>3. r \notin Outcomes /\ r \notin DOMAIN Answers /\ r \in Results /\ r # "invalid"
  BY <1>2 DEF Outcomes, Answers, Errors, Results
<1>4. /\ trip'.at = "over" /\ trip'.log = trip.log /\ trip'.open = 0
      /\ trip'.request = "closed" /\ trip'.result = r /\ trip' \in Trip
  <2>0. trip.open - 1 = 0
    BY <1>1
  <2>1. trip' = [at |-> "over", attempt |-> trip.attempt, log |-> trip.log, result |-> r,
                 open |-> 0, request |-> trip.request, hooks |-> trip.hooks]
    BY <1>1, <2>0 DEF Trip
  <2>2. trip' \in Trip
    BY <1>1, <1>3, <2>1 DEF Trip, Places
  <2> QED
    BY <1>1, <2>1, <2>2
<1>5. LogInv'
  BY <1>1, <1>4 DEF ClientInv, LogInv, TriedAgain, MostAttempts, RetryEnabled
<1>6. OpenAnswerInv'
  BY <1>3, <1>4 DEF OpenAnswerInv
<1>7. ToldInv'
  <2>1. ~Observed'
    BY <1>1 DEF Observed, ClientInv, OpenAnswerInv
  <2> QED
    BY <1>4, <2>1 DEF ToldInv
<1> QED
  BY <1>1, <1>4, <1>5, <1>6, <1>7 DEF ClientInv

LEMMA ClientNextKeeps ==
    ASSUME ClientInv, ClientNext
    PROVE  ClientInv'
<1>1. CASE CallExpires \/ ExecuteCall \/ BufferBody
  BY <1>1, ExpiresKeeps, ExecuteKeeps, BufferKeeps
<1>2. ASSUME NEW o \in Outcomes, Send(o)
      PROVE  ClientInv'
  BY <1>2, SendKeeps
<1>3. CASE ReturnAnswer \/ AbandonRetry \/ PrepareRetry
  BY <1>3, ReturnAnswerKeeps, AbandonRetryKeeps, PrepareRetryKeeps
<1>4. CASE Sleep \/ SleepCancelled \/ EndCall
  BY <1>4, SleepKeeps, SleepCancelledKeeps, EndCallKeeps
<1>5. ASSUME NEW how \in {"decoded", "responseTooLarge", "unreadable", "closeFailed"}, Decode(how)
      PROVE  ClientInv'
  BY <1>5, DecodeKeeps
<1> QED
  BY <1>1, <1>2, <1>3, <1>4, <1>5 DEF ClientNext

LEMMA ClientRests ==
    ASSUME ClientInv, UNCHANGED clientVars
    PROVE  ClientInv'
<1>1. call' = call /\ trip' = trip /\ told' = told /\ expired' = expired
  BY DEF clientVars
<1>2. LogInv'
  BY <1>1 DEF ClientInv, LogInv, TriedAgain, MostAttempts, RetryEnabled
<1>3. OpenAnswerInv' /\ ToldInv'
  BY <1>1 DEF ClientInv, OpenAnswerInv, ToldInv, LastOutcome, RetryEnabled, Observed
<1> QED
  BY <1>1, <1>2, <1>3 DEF ClientInv

LEMMA ClientIsAccounted ==
    ASSUME ClientInv
    PROVE  CallIsAccounted
<1>1. Len(trip.log) <= IF RetryEnabled THEN call.attempts ELSE 1
  BY DEF ClientInv, LogInv, MostAttempts
<1>2. \A i \in 1 .. Len(trip.log) - 1 : IsRetryable(call.policy, trip.log[i])
  BY DEF ClientInv, LogInv, TriedAgain
<1>3. trip.at = "over" => Given = (trip.result \in DOMAIN Answers)
  BY DEF Given
<1> QED
  BY <1>1, <1>2, <1>3 DEF ClientInv, OpenAnswerInv, CallIsAccounted

LEMMA ClientIsReported ==
    ASSUME ClientInv
    PROVE  CallIsReported
<1>1. "ok" \in DOMAIN Answers /\ "noContent" \in DOMAIN Answers
  BY DEF Answers
<1> QED
  BY <1>1 DEF ClientInv, ToldInv, CallIsReported, Given
-----------------------------------------------------------------------------
(* One probe.  A check holds a slot as long as it runs, and has a result   *)
(* once it is over.                                                        *)
Running == {c \in Checks : checkAt[c] = "run"}

HealthInv ==
    /\ probe \in [endpoint : {"health", "ready", "live"}, late : BOOLEAN, code : {0, 200, 503}]
    /\ checkAt \in [Checks -> {"none", "select", "run", "over"}]
    /\ result \in [Checks -> {"none", "healthy", "timeout", "failed"}]
    /\ IsFiniteSet(Running) /\ semaphore = Cardinality(Running)
    /\ \A c \in Checks :
           /\ checkAt[c] = "none" => probe.endpoint = "live"
           /\ checkAt[c] = "over" => result[c] # "none"
    /\ probe.code # 0 => \A c \in Checks : checkAt[c] \in {"none", "over"}
    /\ probe.code = 200 => \A c \in Checks : result[c] \notin {"timeout", "failed"}
    /\ probe.code = 503 => \E c \in Checks : result[c] \in {"timeout", "failed"}

LEMMA HealthStarts ==
    ASSUME NEW e \in {"health", "ready", "live"}, HealthStart(e)
    PROVE  HealthInv
<1>1. \A c \in Checks : checkAt[c] = IF e = "live" THEN "none" ELSE "select"
  BY DEF HealthStart
<1>2. Running = {}
  BY <1>1 DEF Running
<1>3. IsFiniteSet({}) /\ Cardinality({}) = 0
  BY FS_EmptySet
<1>4. probe.endpoint = e /\ probe.code = 0 /\ semaphore = 0
  BY DEF HealthStart
<1> QED
  BY <1>1, <1>2, <1>3, <1>4 DEF HealthStart, HealthInv

LEMMA AcquireKeeps ==
    ASSUME HealthInv, NEW c \in Checks, AcquireSlot(c)
    PROVE  HealthInv'
<1>1. /\ checkAt[c] = "select" /\ semaphore' = semaphore + 1 /\ UNCHANGED <<probe, result>>
      /\ checkAt' = [checkAt EXCEPT ![c] = "run"]
  BY DEF AcquireSlot
<1>2. c \notin Running /\ Running' = Running \cup {c}
  BY <1>1 DEF HealthInv, Running
<1>3. IsFiniteSet(Running') /\ Cardinality(Running') = Cardinality(Running) + 1
  BY <1>2, FS_AddElement DEF HealthInv
<1> QED
  BY <1>1, <1>3 DEF HealthInv

LEMMA CheckReturnsKeeps ==
    ASSUME HealthInv, NEW c \in Checks, NEW err \in BOOLEAN, CheckReturns(c, err)
    PROVE  HealthInv'
<1> DEFINE r == IF err THEN "failed" ELSE "healthy"
<1>1. /\ checkAt[c] = "run" /\ semaphore' = semaphore - 1 /\ UNCHANGED probe
      /\ checkAt' = [checkAt EXCEPT ![c] = "over"] /\ result' = [result EXCEPT ![c] = r]
      /\ r \in {"failed", "healthy"}
  BY DEF CheckReturns
<1> HIDE DEF r
<1>2. c \in Running /\ Running' = Running \ {c}
  BY <1>1 DEF HealthInv, Running
<1>3. IsFiniteSet(Running') /\ Cardinality(Running') = Cardinality(Running) - 1
  BY <1>2, FS_RemoveElement DEF HealthInv
<1>4. probe.code = 0
  BY <1>1 DEF HealthInv
<1> QED
  BY <1>1, <1>3, <1>4 DEF HealthInv

LEMMA SlotTimeoutKeeps ==
    ASSUME HealthInv, NEW c \in Checks, SlotTimeout(c)
    PROVE  HealthInv'
<1>1. /\ checkAt[c] = "select" /\ UNCHANGED <<probe, semaphore>>
      /\ checkAt' = [checkAt EXCEPT ![c] = "over"]
      /\ result' = [result EXCEPT ![c] = "timeout"]
  BY DEF SlotTimeout
<1>2. Running' = Running
  BY <1>1 DEF HealthInv, Running
<1>3. probe.code = 0
  BY <1>1 DEF HealthInv
<1> QED
  BY <1>1, <1>2, <1>3 DEF HealthInv

LEMMA ProbeKeeps ==
    ASSUME HealthInv, DeadlinePasses \/ AnswerProbe
    PROVE  HealthInv'
<1>1. UNCHANGED <<semaphore, checkAt, result>> /\ Running' = Running /\ probe.code = 0
  BY DEF DeadlinePasses, AnswerProbe, Running
<1>2. CASE DeadlinePasses
  <2>1. probe' = [endpoint |-> probe.endpoint, late |-> TRUE, code |-> probe.code]
    <3>1. probe \in [endpoint : {"health", "ready", "live"}, late : BOOLEAN, code : {0, 200, 503}]
      BY DEF HealthInv
    <3>2. probe' = [probe EXCEPT !.late = TRUE]
      BY <1>2 DEF DeadlinePasses
    <3> QED
      BY <3>1, <3>2
  <2>2. probe'.code = 0 /\ probe'.endpoint = probe.endpoint
        /\ probe' \in [endpoint : {"health", "ready", "live"}, late : BOOLEAN,
                       code : {0, 200, 503}]
    BY <1>1, <2>1 DEF HealthInv
  <2> QED
    BY <1>1, <2>2 DEF HealthInv
<1>3. CASE AnswerProbe
  <2> DEFINE code == IF \E c \in Checks : result[c] \in {"timeout", "failed"} THEN 503 ELSE 200
  <2>1. /\ probe' = [endpoint |-> probe.endpoint, late |-> probe.late, code |-> code]
        /\ code \in {200, 503}
        /\ \A c \in Checks : checkAt[c] \in {"none", "over"}
    BY <1>3 DEF AnswerProbe, HealthInv
  <2>2. /\ code = 503 => \E c \in Checks : result[c] \in {"timeout", "failed"}
        /\ code = 200 => \A c \in Checks : result[c] \notin {"timeout", "failed"}
    OBVIOUS
  <2> HIDE DEF code
  <2>3. probe'.code = code /\ probe'.endpoint = probe.endpoint
        /\ probe' \in [endpoint : {"health", "ready", "live"}, late : BOOLEAN,
                       code : {0, 200, 503}]
    BY <2>1 DEF HealthInv
  <2> QED
    BY <1>1, <2>1, <2>2, <2>3 DEF HealthInv
<1> QED
  BY <1>2, <1>3

LEMMA HealthNextKeeps ==
    ASSUME HealthInv, HealthNext
    PROVE  HealthInv'
<1>1. ASSUME NEW c \in Checks, AcquireSlot(c) \/ SlotTimeout(c)
      PROVE  HealthInv'
  BY <1>1, AcquireKeeps, SlotTimeoutKeeps
<1>2. ASSUME NEW c \in Checks, NEW err \in BOOLEAN, CheckReturns(c, err)
      PROVE  HealthInv'
  BY <1>2, CheckReturnsKeeps
<1> QED
  BY <1>1, <1>2, ProbeKeeps DEF HealthNext

LEMMA HealthRests ==
    ASSUME HealthInv, UNCHANGED healthVars
    PROVE  HealthInv'
  BY DEF HealthInv, healthVars, Running

LEMMA ProbeIsTrue ==
    ASSUME HealthInv
    PROVE  HealthIsTrue
<1>1. probe.code = 200 /\ probe.endpoint # "live" => \A c \in Checks : result[c] = "healthy"
  BY DEF HealthInv
<1> QED
  BY <1>1 DEF HealthInv, HealthIsTrue, Running
-----------------------------------------------------------------------------
(* One statement and the scraper.  A span that is open has not ended; the  *)
(* last differences are all that the gauges lack.                          *)
PoolStats == [open : Nat, idle : Nat, waits : Nat, waited : Nat]

StatementInv ==
    /\ statement \in [kind : StatementKinds, rows : Int, broken : BOOLEAN,
           at : {"idle", "running", "rows", "row", "forgotten", "over"}]
    /\ sqlSpan \in [open : BOOLEAN, ended : Nat, status : {"none", "ok", "error"}, measured : Nat]
    /\ sqlSpan.ended = IF sqlSpan.open \/ statement.at = "idle" THEN 0 ELSE 1
    /\ sqlSpan.measured = sqlSpan.ended
    /\ sqlSpan.ended = 0 => sqlSpan.status = "none"
    /\ sqlSpan.ended = 1 => sqlSpan.status # "none"
    /\ statement.at \in {"running", "row", "forgotten"} => sqlSpan.open
    /\ statement.at \in {"idle", "over"} => ~sqlSpan.open
    /\ sqlSpan.status = "error" => statement.broken
    /\ statement.at = "over" /\ statement.kind \in {"exec", "commit"} =>
           (sqlSpan.status = "error" <=> statement.broken)
    /\ statement.at \in {"row", "forgotten"} => statement.kind = "query_row"
    /\ statement.at = "rows" => statement.kind = "query"

ScraperInv ==
    /\ pool \in PoolStats
    /\ scraper \in [running : BOOLEAN, ticks : Nat, saw : PoolStats]
    /\ scraper.saw.waits <= pool.waits /\ scraper.saw.waited <= pool.waited
    /\ gauges.open = scraper.saw.open /\ gauges.idle = scraper.saw.idle
    /\ gauges.waits = scraper.saw.waits /\ gauges.waitedMs \in Nat
    /\ 2 * gauges.waitedMs <= scraper.saw.waited
    /\ scraper.saw.waited <= 2 * gauges.waitedMs + scraper.ticks

TelemetryInv == StatementInv /\ ScraperInv

LEMMA TelemetryStarts ==
    ASSUME NEW k \in StatementKinds, StatementStart(k)
    PROVE  TelemetryInv
<1>1. StatementInv
  BY DEF StatementStart, StatementInv
<1>2. ScraperInv
  BY DEF StatementStart, ScraperInv, PoolStats, NoStats
<1> QED
  BY <1>1, <1>2 DEF TelemetryInv

(* finish: the span that is open ends with s, another stays as it is.      *)
Finishes(s) ==
    sqlSpan' = IF ~sqlSpan.open THEN sqlSpan
               ELSE [open |-> FALSE, ended |-> sqlSpan.ended + 1, status |-> s,
                     measured |-> sqlSpan.measured + 1]

LEMMA FinishFacts ==
    ASSUME StatementInv, statement.at # "idle", NEW s \in {"ok", "error"}, Finishes(s)
    PROVE  /\ sqlSpan' \in [open : BOOLEAN, ended : Nat, status : {"none", "ok", "error"},
                            measured : Nat]
           /\ ~sqlSpan'.open /\ sqlSpan'.ended = 1 /\ sqlSpan'.measured = 1
           /\ sqlSpan.open => sqlSpan'.status = s
           /\ ~sqlSpan.open => sqlSpan' = sqlSpan
           /\ sqlSpan'.status # "none"
<1>1. CASE sqlSpan.open
  <2>1. sqlSpan.ended = 0 /\ sqlSpan.measured = 0
    BY <1>1 DEF StatementInv
  <2>2. sqlSpan' = [open |-> FALSE, ended |-> 1, status |-> s, measured |-> 1]
    BY <1>1, <2>1 DEF Finishes
  <2> QED
    BY <1>1, <2>2
<1>2. CASE ~sqlSpan.open
  <2>1. sqlSpan' = sqlSpan /\ sqlSpan.ended = 1 /\ sqlSpan.measured = 1
    BY <1>2 DEF Finishes, StatementInv
  <2> QED
    BY <1>2, <2>1 DEF StatementInv
<1> QED
  BY <1>1, <1>2

LEMMA StartStatementKeeps ==
    ASSUME StatementInv, StartStatement
    PROVE  StatementInv'
<1>1. /\ statement.at = "idle" /\ ~sqlSpan.open /\ sqlSpan.ended = 0 /\ sqlSpan.measured = 0
      /\ sqlSpan.status = "none"
  BY DEF StartStatement, StatementInv
<1>2. /\ statement' = [kind |-> statement.kind, rows |-> statement.rows,
                       broken |-> statement.broken, at |-> "running"]
      /\ sqlSpan' = [open |-> TRUE, ended |-> 0, status |-> "none", measured |-> 0]
  BY <1>1 DEF StartStatement, StatementInv
<1> QED
  BY <1>1, <1>2 DEF StatementInv

LEMMA StatementReturnsKeeps ==
    ASSUME StatementInv, NEW ok \in BOOLEAN, StatementReturns(ok)
    PROVE  StatementInv'
<1> DEFINE s == IF ok THEN "ok" ELSE "error"
           p == IF statement.kind = "query_row" THEN "row"
                ELSE IF statement.kind = "query" /\ ok THEN "rows" ELSE "over"
<1>1. /\ statement.at = "running" /\ sqlSpan.open /\ sqlSpan.ended = 0 /\ sqlSpan.status = "none"
      /\ statement.kind \in StatementKinds
  BY DEF StatementReturns, StatementInv
<1>2. statement' = [kind |-> statement.kind, rows |-> statement.rows, broken |-> ~ok, at |-> p]
  BY <1>1 DEF StatementReturns, StatementInv
<1>3. p \in {"row", "rows", "over"} /\ s \in {"ok", "error"}
  OBVIOUS
<1>4. CASE statement.kind = "query_row" \/ (statement.kind = "query" /\ ok)
  <2>1. sqlSpan' = sqlSpan /\ p \in {"row", "rows"}
        /\ (p = "row" => statement.kind = "query_row") /\ (p = "rows" => statement.kind = "query")
    BY <1>4 DEF StatementReturns
  <2> HIDE DEF p
  <2> QED
    BY <1>1, <1>2, <2>1 DEF StatementInv
<1>5. CASE ~(statement.kind = "query_row" \/ (statement.kind = "query" /\ ok))
  <2>1. Finishes(s) /\ p = "over"
    BY <1>5 DEF StatementReturns, Finishes, FinishOnce
  <2>2. (s = "error") <=> ~ok
    OBVIOUS
  <2> HIDE DEF p, s
  <2> QED
    BY <1>1, <1>2, <1>3, <2>1, <2>2, FinishFacts DEF StatementInv
<1> QED
  BY <1>4, <1>5

LEMMA RowsBreakKeeps ==
    ASSUME StatementInv, RowsBreak
    PROVE  StatementInv'
<1>1. /\ statement.at = "rows" /\ sqlSpan' = sqlSpan
      /\ statement' = [kind |-> statement.kind, rows |-> statement.rows, broken |-> TRUE,
                       at |-> "rows"]
  BY DEF RowsBreak, StatementInv
<1> QED
  BY <1>1 DEF StatementInv

LEMMA NextRowKeeps ==
    ASSUME StatementInv, NEW more \in BOOLEAN, NextRow(more)
    PROVE  StatementInv'
<1> DEFINE s == IF ~statement.broken THEN "ok" ELSE "error"
           n == statement.rows + (IF more THEN 1 ELSE 0)
<1>1. statement.at = "rows" /\ statement.rows \in Int
  BY DEF NextRow, StatementInv
<1>2. statement' = [kind |-> statement.kind, rows |-> n, broken |-> statement.broken,
                    at |-> "rows"] /\ n \in Int
  BY <1>1 DEF NextRow, StatementInv
<1> HIDE DEF n
<1>3. CASE sqlSpan' = sqlSpan
  BY <1>1, <1>2, <1>3 DEF StatementInv
<1>4. CASE Finishes(s)
  <2>1. s \in {"ok", "error"} /\ (s = "error" => statement.broken)
    OBVIOUS
  <2> HIDE DEF s
  <2> QED
    BY <1>1, <1>2, <1>4, <2>1, FinishFacts DEF StatementInv
<1> QED
  BY <1>3, <1>4 DEF NextRow, Finishes, FinishOnce

LEMMA RowsErrKeeps ==
    ASSUME StatementInv, RowsErr
    PROVE  StatementInv'
<1>1. statement.at = "rows" /\ statement' = statement
  BY DEF RowsErr
<1>2. CASE sqlSpan' = sqlSpan
  BY <1>1, <1>2 DEF StatementInv
<1>3. CASE statement.broken /\ Finishes("error")
  BY <1>1, <1>3, FinishFacts DEF StatementInv
<1> QED
  BY <1>2, <1>3 DEF RowsErr, Finishes, FinishOnce

LEMMA StatementOverKeeps ==
    ASSUME StatementInv, CloseRows \/ FinishOrphanRowSpan
    PROVE  StatementInv'
<1>1. /\ statement.at \in {"rows", "forgotten"} /\ Finishes("ok")
      /\ statement' = [kind |-> statement.kind, rows |-> statement.rows,
                       broken |-> statement.broken, at |-> "over"]
  BY DEF CloseRows, FinishOrphanRowSpan, Finishes, FinishOnce, StatementInv
<1>2. statement.kind \notin {"exec", "commit"}
  BY <1>1 DEF StatementInv
<1> QED
  BY <1>1, <1>2, FinishFacts DEF StatementInv

LEMMA ScanRowKeeps ==
    ASSUME StatementInv, NEW ok \in BOOLEAN, ScanRow(ok)
    PROVE  StatementInv'
<1> DEFINE s == IF ok THEN "ok" ELSE "error"
<1>1. /\ statement.at = "row" /\ Finishes(s) /\ s \in {"ok", "error"}
      /\ statement' = [kind |-> statement.kind, rows |-> statement.rows, broken |-> ~ok,
                       at |-> "over"]
  BY DEF ScanRow, Finishes, FinishOnce, StatementInv
<1>2. sqlSpan.open /\ statement.kind = "query_row" /\ (s = "error" => ~ok)
  BY <1>1 DEF StatementInv
<1> HIDE DEF s
<1> QED
  BY <1>1, <1>2, FinishFacts DEF StatementInv

LEMMA ForgetRowKeeps ==
    ASSUME StatementInv, ForgetRow
    PROVE  StatementInv'
<1>1. /\ statement.at = "row" /\ sqlSpan' = sqlSpan
      /\ statement' = [kind |-> statement.kind, rows |-> statement.rows,
                       broken |-> statement.broken, at |-> "forgotten"]
  BY DEF ForgetRow, StatementInv
<1> QED
  BY <1>1 DEF StatementInv

(* Half of the time waited is rounded down at every tick.                  *)
LEMMA ScrapeKeeps ==
    ASSUME ScraperInv, Scrape
    PROVE  ScraperInv'
<1> DEFINE d == pool.waited - scraper.saw.waited
<1>1. /\ scraper' = [running |-> scraper.running, ticks |-> scraper.ticks + 1, saw |-> pool]
      /\ UNCHANGED pool
      /\ gauges' = [open |-> (gauges.open + pool.open) - scraper.saw.open,
                    idle |-> (gauges.idle + pool.idle) - scraper.saw.idle,
                    waits |-> gauges.waits + (pool.waits - scraper.saw.waits),
                    waitedMs |-> gauges.waitedMs + (d \div 2)]
  BY DEF Scrape, ScraperInv
<1>2. /\ pool \in PoolStats /\ scraper.saw \in PoolStats /\ scraper.ticks \in Nat
      /\ scraper.running \in BOOLEAN
      /\ scraper.saw.waited <= pool.waited /\ gauges.waitedMs \in Nat
      /\ 2 * gauges.waitedMs <= scraper.saw.waited
      /\ scraper.saw.waited <= 2 * gauges.waitedMs + scraper.ticks
      /\ gauges.open = scraper.saw.open /\ gauges.idle = scraper.saw.idle
      /\ gauges.waits = scraper.saw.waits
  BY DEF ScraperInv
<1>3. d \in Nat /\ pool.waited = scraper.saw.waited + d
  BY <1>2 DEF PoolStats
<1>4. d \div 2 \in Nat /\ 2 * (d \div 2) <= d /\ d <= 2 * (d \div 2) + 1
  BY <1>3
<1>5. /\ gauges'.open = pool.open /\ gauges'.idle = pool.idle /\ gauges'.waits = pool.waits
      /\ gauges'.waitedMs = gauges.waitedMs + (d \div 2)
  BY <1>1, <1>2 DEF PoolStats
<1> HIDE DEF d
<1>6. gauges'.waitedMs \in Nat /\ 2 * gauges'.waitedMs <= pool.waited
      /\ pool.waited <= 2 * gauges'.waitedMs + (scraper.ticks + 1)
  BY <1>2, <1>3, <1>4, <1>5 DEF PoolStats
<1>7. /\ scraper'.ticks = scraper.ticks + 1 /\ scraper'.saw = pool
      /\ scraper' \in [running : BOOLEAN, ticks : Nat, saw : PoolStats]
  BY <1>1, <1>2
<1>8. pool.waits <= pool.waits /\ pool.waited <= pool.waited
  BY <1>2 DEF PoolStats
<1> QED
  BY <1>1, <1>2, <1>5, <1>6, <1>7, <1>8 DEF ScraperInv

LEMMA PoolWorksKeeps ==
    ASSUME ScraperInv, NEW s \in Stats, PoolWorks(s)
    PROVE  ScraperInv'
<1>1. /\ pool' = s /\ UNCHANGED <<scraper, gauges>>
      /\ s.waits >= pool.waits /\ s.waited >= pool.waited
  BY DEF PoolWorks
<1>2. s \in PoolStats
  BY TelemetryAssumption DEF TelemetryAssumption, Stats, PoolStats
<1>3. pool \in PoolStats /\ scraper.saw \in PoolStats
  BY DEF ScraperInv
<1>4. scraper.saw.waits <= s.waits /\ scraper.saw.waited <= s.waited
  BY <1>1, <1>2, <1>3 DEF ScraperInv, PoolStats
<1> QED
  BY <1>1, <1>2, <1>4 DEF ScraperInv

LEMMA StopScraperKeeps ==
    ASSUME ScraperInv, StopScraper
    PROVE  ScraperInv'
<1>1. /\ scraper' = [running |-> FALSE, ticks |-> scraper.ticks, saw |-> scraper.saw]
      /\ UNCHANGED <<pool, gauges>>
  BY DEF StopScraper, ScraperInv
<1> QED
  BY <1>1 DEF ScraperInv

LEMMA TelemetryNextKeeps ==
    ASSUME TelemetryInv, TelemetryNext
    PROVE  TelemetryInv'
<1>1. StatementInv /\ ScraperInv
  BY DEF TelemetryInv
<1>2. ASSUME StatementInv', UNCHANGED <<pool, scraper, gauges>>
      PROVE  TelemetryInv'
  BY <1>1, <1>2 DEF TelemetryInv, ScraperInv
<1>3. ASSUME ScraperInv', UNCHANGED <<statement, sqlSpan>>
      PROVE  TelemetryInv'
  BY <1>1, <1>3 DEF TelemetryInv, StatementInv
<1>4. CASE StartStatement \/ RowsBreak \/ RowsErr
  BY <1>1, <1>2, <1>4, StartStatementKeeps, RowsBreakKeeps, RowsErrKeeps
     DEF StartStatement, RowsBreak, RowsErr
<1>5. CASE CloseRows \/ ForgetRow \/ FinishOrphanRowSpan
  BY <1>1, <1>2, <1>5, StatementOverKeeps, ForgetRowKeeps
     DEF CloseRows, ForgetRow, FinishOrphanRowSpan
<1>6. ASSUME NEW ok \in BOOLEAN, StatementReturns(ok) \/ ScanRow(ok)
      PROVE  TelemetryInv'
  BY <1>1, <1>2, <1>6, StatementReturnsKeeps, ScanRowKeeps DEF StatementReturns, ScanRow
<1>7. ASSUME NEW more \in BOOLEAN, NextRow(more)
      PROVE  TelemetryInv'
  BY <1>1, <1>2, <1>7, NextRowKeeps DEF NextRow
<1>8. ASSUME NEW s \in Stats, PoolWorks(s)
      PROVE  TelemetryInv'
  BY <1>1, <1>3, <1>8, PoolWorksKeeps DEF PoolWorks
<1>9. CASE Scrape
  BY <1>1, <1>3, <1>9, ScrapeKeeps DEF Scrape
<1>10. CASE StopScraper
  BY <1>1, <1>3, <1>10, StopScraperKeeps DEF StopScraper
<1> QED
  BY <1>4, <1>5, <1>6, <1>7, <1>8, <1>9, <1>10 DEF TelemetryNext

LEMMA TelemetryRests ==
    ASSUME TelemetryInv, UNCHANGED telemetryVars
    PROVE  TelemetryInv'
  BY DEF TelemetryInv, StatementInv, ScraperInv, telemetryVars

LEMMA StatementsTold ==
    ASSUME TelemetryInv
    PROVE  StatementsAreTold
<1>1. StatementInv /\ ScraperInv
  BY DEF TelemetryInv
<1>2. /\ sqlSpan.ended <= 1 /\ sqlSpan.measured = sqlSpan.ended
      /\ statement.at = "over" => sqlSpan.ended = 1 /\ ~sqlSpan.open
      /\ sqlSpan.status = "error" => statement.broken
  BY <1>1 DEF StatementInv
<1>3. statement.at = "over" /\ statement.kind \in {"exec", "commit"} =>
          ((sqlSpan.status = "error") = statement.broken)
  <2>1. statement.broken \in BOOLEAN
    BY <1>1 DEF StatementInv
  <2> QED
    BY <1>1, <2>1 DEF StatementInv
<1>4. /\ gauges.open = scraper.saw.open /\ gauges.idle = scraper.saw.idle
      /\ gauges.waits = scraper.saw.waits
      /\ 2 * gauges.waitedMs \in scraper.saw.waited - scraper.ticks .. scraper.saw.waited
  <2>1. /\ scraper.saw.waited \in Nat /\ scraper.ticks \in Nat /\ gauges.waitedMs \in Nat
        /\ 2 * gauges.waitedMs <= scraper.saw.waited
        /\ scraper.saw.waited <= 2 * gauges.waitedMs + scraper.ticks
    BY <1>1 DEF ScraperInv, PoolStats
  <2> QED
    BY <1>1, <2>1 DEF ScraperInv
<1> QED
  BY <1>2, <1>3, <1>4 DEF StatementsAreTold
-----------------------------------------------------------------------------
(* A start of the database manager: at every step, what it holds.          *)
DBPools == [state : {"none", "open", "closed"}, conns : {"none", "given", "project"},
            lifetime : {"none", "given", "project", "library"}]

Migrates == setup.kind # "adapter" /\ setup.migrations \in {"dir", "fs"}

HoldsInv ==
    /\ setup \in Setups /\ dbPool \in DBPools
    /\ startAt \in {"resolve", "build"} => dbPool.state = "none"
    /\ startAt \in {"ping", "migrate", "up", "instrument", "ok"} => dbPool.state = "open"
    /\ startAt = "failed" => dbPool.state # "open"
    /\ handle = "open" <=> startAt = "up"
    /\ scraping <=> startAt = "ok" /\ setup.observed
    /\ startAt \in {"build", "ping", "migrate", "up"} => setup.kind # "adapter"
    /\ startAt \in {"resolve", "build", "ping", "migrate", "up"} => schema = "old"
    /\ startAt = "up" => setup.migrations \in {"dir", "fs"}
    /\ startAt \in {"instrument", "ok"} => (schema = "migrated" <=> Migrates)
    /\ startAt = "failed" => schema # "migrated"
    /\ scraping \in BOOLEAN
    /\ startAt \in {"resolve", "build", "ping", "migrate", "up", "instrument", "ok", "failed"}

OpenedInv ==
    startAt \in {"ping", "migrate", "up", "instrument", "ok"}
        /\ setup.kind \in {"nil"} \cup Drivers /\ ~setup.factory =>
            dbPool.conns = (IF setup.tuned THEN "given" ELSE "project")

(* What is given explicitly is not replaced.                               *)
GivenInv(c) ==
    c.kind # "nil" =>
        /\ setup.given \subseteq c.fields \/ setup.kind = "nil"
        /\ setup.dsn # "none" /\ setup.kind # "nil" => c.from = "given"
        /\ setup.dsn = "none" /\ setup.kind \in Drivers /\ setup.given # {} => c.dsn = "none"

StartInv == HoldsInv /\ OpenedInv /\ GivenInv(config)

LEMMA ManagerStarted ==
    ASSUME NEW s \in Setups, ManagerStarts(s)
    PROVE  StartInv
<1>1. startAt = "resolve" /\ setup \in Setups /\ handle = "none" /\ schema = "old"
      /\ scraping = FALSE /\ config = NoConfig
      /\ dbPool = [state |-> "none", conns |-> "none", lifetime |-> "none"]
  BY DEF ManagerStarts
<1>2. HoldsInv
  BY <1>1 DEF HoldsInv, DBPools
<1>3. OpenedInv /\ GivenInv(config)
  BY <1>1 DEF OpenedInv, GivenInv, NoConfig
<1> QED
  BY <1>2, <1>3 DEF StartInv

LEMMA ResolvedIsGiven ==
    GivenInv(Merged) /\ (setup.kind = "nil" => GivenInv(FromEnvironment))
<1>1. setup.kind = "nil" => GivenInv(FromEnvironment)
  BY DEF GivenInv, Drivers
<1>2. CASE setup.kind \notin Drivers \/ setup.dsn # "none"
  <2>1. Merged = [kind |-> setup.kind, dsn |-> setup.dsn, fields |-> setup.given,
                  from |-> IF setup.dsn = "none" THEN "none" ELSE "given"]
    BY <1>2 DEF Merged
  <2> QED
    BY <1>1, <1>2, <2>1 DEF GivenInv
<1>3. CASE ~(setup.kind \notin Drivers \/ setup.dsn # "none")
  <2>1. Merged = [kind |-> setup.kind, dsn |-> IF Structured THEN "none" ELSE setup.envDSN,
                  fields |-> setup.given \cup setup.env,
                  from |-> IF Structured \/ setup.envDSN = "none" THEN "none" ELSE "env"]
    BY <1>3 DEF Merged
  <2> QED
    BY <1>1, <1>3, <2>1 DEF GivenInv, Structured
<1> QED
  BY <1>2, <1>3

LEMMA ResolveKeeps ==
    ASSUME StartInv, NEW refused \in BOOLEAN, ResolveConfig(refused)
    PROVE  StartInv'
<1>1. /\ startAt = "resolve" /\ setup.kind # "adapter"
      /\ UNCHANGED <<setup, dbPool, handle, schema, scraping>>
  BY DEF ResolveConfig
<1>2. HoldsInv /\ OpenedInv /\ GivenInv(config)
  BY DEF StartInv
<1>3. CASE startAt' = "failed" /\ config' = config
  BY <1>1, <1>2, <1>3 DEF StartInv, HoldsInv, OpenedInv, GivenInv
<1>4. ASSUME NEW c, GivenInv(c), startAt' = "build", config' = c
      PROVE  StartInv'
  BY <1>1, <1>2, <1>4 DEF StartInv, HoldsInv, OpenedInv, GivenInv
<1>5. CASE setup.kind = "nil"
  BY <1>3, <1>4, <1>5, ResolvedIsGiven DEF ResolveConfig
<1>6. CASE setup.kind # "nil"
  BY <1>3, <1>4, <1>6, ResolvedIsGiven DEF ResolveConfig
<1> QED
  BY <1>5, <1>6

LEMMA BuildKeeps ==
    ASSUME StartInv, NEW made \in BOOLEAN, BuildAdapter(made)
    PROVE  StartInv'
<1>1. startAt = "build" /\ UNCHANGED <<setup, config, handle, schema, scraping>>
  BY DEF BuildAdapter
<1>2. HoldsInv /\ OpenedInv /\ GivenInv(config)
  BY DEF StartInv
<1>3. GivenInv(config)'
  BY <1>1, <1>2 DEF GivenInv
<1>4. CASE setup.factory /\ made
  <2>1. startAt' = "migrate" /\ dbPool' = Opened("given", "given")
    BY <1>4 DEF BuildAdapter
  <2>2. HoldsInv'
    BY <1>1, <1>2, <2>1 DEF HoldsInv, DBPools, Opened
  <2>3. OpenedInv'
    BY <1>1, <1>4 DEF OpenedInv
  <2> QED
    BY <1>3, <2>2, <2>3 DEF StartInv
<1>5. CASE ~setup.factory /\ made /\ config.kind \in Drivers /\ DSNParses
  <2>1. startAt' = "ping" /\ dbPool' \in {PgxPool, SQLPool}
    BY <1>5 DEF BuildAdapter
  <2>2. dbPool' \in DBPools /\ dbPool'.state = "open"
        /\ dbPool'.conns = (IF setup.tuned THEN "given" ELSE "project")
    BY <2>1 DEF PgxPool, SQLPool, Opened, DBPools
  <2>3. HoldsInv'
    BY <1>1, <1>2, <2>1, <2>2 DEF HoldsInv
  <2>4. OpenedInv'
    BY <1>1, <2>2 DEF OpenedInv
  <2> QED
    BY <1>3, <2>3, <2>4 DEF StartInv
<1>6. CASE startAt' = "failed" /\ dbPool' = dbPool
  BY <1>1, <1>2, <1>3, <1>6 DEF StartInv, HoldsInv, OpenedInv
<1> QED
  BY <1>4, <1>5, <1>6 DEF BuildAdapter

LEMMA ClosedPool ==
    ASSUME dbPool \in DBPools, dbPool' = [dbPool EXCEPT !.state = "closed"]
    PROVE  dbPool' \in DBPools /\ dbPool'.state = "closed"
<1>1. dbPool' = [state |-> "closed", conns |-> dbPool.conns, lifetime |-> dbPool.lifetime]
  BY DEF DBPools
<1> QED
  BY <1>1 DEF DBPools

LEMMA PingKeeps ==
    ASSUME StartInv, NEW answers \in BOOLEAN, PingPool(answers)
    PROVE  StartInv'
<1>1. startAt = "ping" /\ UNCHANGED <<setup, config, handle, schema, scraping>>
  BY DEF PingPool
<1>2. HoldsInv /\ OpenedInv /\ GivenInv(config) /\ dbPool \in DBPools
  BY DEF StartInv, HoldsInv
<1>3. GivenInv(config)'
  BY <1>1, <1>2 DEF GivenInv
<1>4. CASE startAt' = "migrate" /\ dbPool' = dbPool
  BY <1>1, <1>2, <1>3, <1>4 DEF StartInv, HoldsInv, OpenedInv
<1>5. CASE startAt' = "failed" /\ dbPool' = [dbPool EXCEPT !.state = "closed"]
  BY <1>1, <1>2, <1>3, <1>5, ClosedPool DEF StartInv, HoldsInv, OpenedInv
<1> QED
  BY <1>4, <1>5 DEF PingPool

(* New closes the adapter when the migrations fail.                        *)
LEMMA AbortKeeps ==
    ASSUME StartInv, AbortStart, startAt \in {"migrate", "up"}, handle' # "open",
           UNCHANGED <<setup, config, scraping>>, schema' \in {schema, "partly"}
    PROVE  StartInv'
<1>1. HoldsInv /\ OpenedInv /\ GivenInv(config) /\ dbPool \in DBPools
  BY DEF StartInv, HoldsInv
<1>2. startAt' = "failed" /\ dbPool' \in DBPools /\ dbPool'.state = "closed"
  BY <1>1, ClosedPool DEF AbortStart
<1>3. HoldsInv'
  BY <1>1, <1>2 DEF HoldsInv
<1>4. OpenedInv' /\ GivenInv(config)'
  BY <1>1, <1>2 DEF OpenedInv, GivenInv
<1> QED
  BY <1>3, <1>4 DEF StartInv

LEMMA FindKeeps ==
    ASSUME StartInv, NEW connects \in BOOLEAN, FindMigrations(connects)
    PROVE  StartInv'
<1>1. startAt = "migrate" /\ UNCHANGED <<setup, config, schema, scraping>>
  BY DEF FindMigrations
<1>2. HoldsInv /\ OpenedInv /\ GivenInv(config) /\ handle # "open"
  BY <1>1 DEF StartInv, HoldsInv
<1>3. GivenInv(config)'
  BY <1>1, <1>2 DEF GivenInv
<1>4. CASE AbortStart /\ handle' = handle
  BY <1>1, <1>2, <1>4, AbortKeeps
<1>5. CASE /\ HasMigrationDSN /\ setup.migrations = "absent"
           /\ startAt' = "instrument" /\ UNCHANGED <<dbPool, handle>>
  BY <1>1, <1>2, <1>3, <1>5 DEF StartInv, HoldsInv, OpenedInv, Migrates
<1>6. CASE /\ HasMigrationDSN /\ setup.migrations \in {"dir", "fs"}
           /\ startAt' = "up" /\ handle' = "open" /\ dbPool' = dbPool
  BY <1>1, <1>2, <1>3, <1>6 DEF StartInv, HoldsInv, OpenedInv
<1> QED
  BY <1>4, <1>5, <1>6 DEF FindMigrations

LEMMA MigrateUpKeeps ==
    ASSUME StartInv, NEW applied \in BOOLEAN, MigrateUp(applied)
    PROVE  StartInv'
<1>1. startAt = "up" /\ handle' = "closed" /\ UNCHANGED <<setup, config, scraping>>
  BY DEF MigrateUp
<1>2. HoldsInv /\ OpenedInv /\ GivenInv(config)
  BY DEF StartInv
<1>3. CASE startAt' = "instrument" /\ schema' = "migrated" /\ dbPool' = dbPool
  <2>1. GivenInv(config)'
    BY <1>1, <1>2 DEF GivenInv
  <2> QED
    BY <1>1, <1>2, <1>3, <2>1 DEF StartInv, HoldsInv, OpenedInv, Migrates
<1>4. CASE schema' = "partly" /\ AbortStart
  BY <1>1, <1>4, AbortKeeps
<1> QED
  BY <1>3, <1>4 DEF MigrateUp

LEMMA TakeAdapterKeeps ==
    ASSUME StartInv, TakeAdapter
    PROVE  StartInv'
<1>1. /\ startAt = "resolve" /\ setup.kind = "adapter"
      /\ UNCHANGED <<setup, config, handle, schema, scraping>>
  BY DEF TakeAdapter
<1>2. HoldsInv /\ GivenInv(config)
  BY DEF StartInv
<1>3. GivenInv(config)' /\ OpenedInv'
  BY <1>1, <1>2 DEF GivenInv, OpenedInv, Drivers
<1>4. CASE startAt' = "instrument" /\ dbPool' = Opened("given", "given")
  <2>1. HoldsInv'
    BY <1>1, <1>2, <1>4 DEF HoldsInv, DBPools, Opened, Migrates
  <2> QED
    BY <1>3, <2>1 DEF StartInv
<1>5. CASE startAt' = "failed" /\ dbPool' = dbPool
  BY <1>1, <1>2, <1>3, <1>5 DEF StartInv, HoldsInv
<1> QED
  BY <1>4, <1>5 DEF TakeAdapter

LEMMA InstrumentKeeps ==
    ASSUME StartInv, InstrumentManager
    PROVE  StartInv'
<1>1. /\ startAt = "instrument" /\ startAt' = "ok" /\ scraping' = setup.observed
      /\ UNCHANGED <<setup, config, dbPool, handle, schema>>
  BY DEF InstrumentManager
<1>2. HoldsInv /\ OpenedInv /\ GivenInv(config)
  BY DEF StartInv
<1>3. setup.observed \in BOOLEAN
  BY <1>2, SetupAssumption DEF HoldsInv, SetupAssumption
<1>4. HoldsInv'
  BY <1>1, <1>2, <1>3 DEF HoldsInv, Migrates
<1>5. OpenedInv' /\ GivenInv(config)'
  BY <1>1, <1>2 DEF OpenedInv, GivenInv
<1> QED
  BY <1>4, <1>5 DEF StartInv

LEMMA StartNextKeeps ==
    ASSUME StartInv, StartNext
    PROVE  StartInv'
<1>1. ASSUME NEW b \in BOOLEAN,
             ResolveConfig(b) \/ BuildAdapter(b) \/ PingPool(b) \/ FindMigrations(b) \/ MigrateUp(b)
      PROVE  StartInv'
  BY <1>1, ResolveKeeps, BuildKeeps, PingKeeps, FindKeeps, MigrateUpKeeps
<1>2. CASE TakeAdapter \/ InstrumentManager
  BY <1>2, TakeAdapterKeeps, InstrumentKeeps
<1> QED
  BY <1>1, <1>2 DEF StartNext

LEMMA StartRests ==
    ASSUME StartInv, UNCHANGED startVars
    PROVE  StartInv'
  BY DEF StartInv, HoldsInv, OpenedInv, GivenInv, Migrates, startVars

LEMMA StartLeavesNothing ==
    ASSUME StartInv
    PROVE  FailedStartLeavesNothing
<1>1. HoldsInv /\ OpenedInv /\ GivenInv(config)
  BY DEF StartInv
<1>2. startAt = "failed" =>
          /\ dbPool.state # "open" /\ handle # "open" /\ ~scraping /\ schema # "migrated"
  BY <1>1 DEF HoldsInv
<1>3. startAt = "ok" =>
          /\ dbPool.state = "open" /\ handle # "open" /\ scraping = setup.observed
          /\ (schema = "migrated") = Migrates
  <2>1. setup.observed \in BOOLEAN
    BY <1>1, SetupAssumption DEF HoldsInv, SetupAssumption
  <2> QED
    BY <1>1, <2>1 DEF HoldsInv, Migrates
<1>4. startAt = "ok" /\ setup.kind \in {"nil"} \cup Drivers /\ ~setup.factory =>
          dbPool.conns = (IF setup.tuned THEN "given" ELSE "project")
  BY <1>1 DEF OpenedInv
<1> QED
  BY <1>1, <1>2, <1>3, <1>4 DEF FailedStartLeavesNothing, GivenInv, Migrates
-----------------------------------------------------------------------------
(* The start of the OpenTelemetry provider: the stages it goes through.    *)
Made(stopped, made, global) ==
    /\ steps = stopped
    /\ signals = [x \in made |-> Exporter]
    /\ globals = IF otelConfig.global THEN global ELSE {}

OtelStage(n) ==
    \/ /\ n = 0 /\ providerAt \in {"check", "resource", "tracer", "failed"}
       /\ Made(<< >>, {}, {})
    \/ /\ n = 1 /\ providerAt \in {"meter", "failed"}
       /\ Made(<<"tracer">>, {"tracer"}, {"tracer"})
    \/ /\ n = 2 /\ providerAt \in {"logger", "failed"}
       /\ Made(<<"tracer", "meter">>, {"tracer", "meter"}, {"tracer", "meter"})
    \/ /\ n = 3 /\ providerAt = "started"
       /\ Made(<<"tracer", "meter", "logger">>, {"tracer", "meter", "logger"},
               {"tracer", "meter", "propagator"})

OtelInv ==
    /\ otelConfig \in OtelConfigs
    /\ \/ OtelStage(0) /\ (providerAt \in {"resource", "tracer"} => OtelConfigValid)
       \/ \E n \in 1 .. 3 : OtelStage(n) /\ OtelConfigValid

LEMMA OtelStarts ==
    ASSUME NEW c \in OtelConfigs, OtelStart(c)
    PROVE  OtelInv
<1>1. otelConfig \in OtelConfigs /\ providerAt = "check"
      /\ signals = [s \in {} |-> {}] /\ steps = << >> /\ globals = {}
  BY DEF OtelStart
<1>2. signals = [x \in {} |-> Exporter]
  BY <1>1
<1>3. OtelStage(0)
  BY <1>1, <1>2 DEF OtelStage, Made
<1> QED
  BY <1>1, <1>3 DEF OtelInv

LEMMA SignalsCounted ==
    /\ Cardinality({}) = 0 /\ Cardinality({"tracer"}) = 1
    /\ Cardinality({"tracer", "meter"}) = 2
<1>1. Cardinality({}) = 0
  BY FS_EmptySet
<1>2. Cardinality({"tracer"}) = 1
  BY FS_Singleton
<1>3. Cardinality({"tracer"} \cup {"meter"}) = Cardinality({"tracer"}) + 1
  BY FS_Singleton, FS_AddElement
<1>4. {"tracer"} \cup {"meter"} = {"tracer", "meter"}
  OBVIOUS
<1> QED
  BY <1>1, <1>2, <1>3, <1>4

LEMMA SignalsNamed ==
    /\ Range(Signals) = {"tracer", "meter", "logger"}
    /\ Signals[1] = "tracer" /\ Signals[2] = "meter" /\ Signals[3] = "logger"
<1>1. /\ DOMAIN Signals = 1 .. 3
      /\ Signals[1] = "tracer" /\ Signals[2] = "meter" /\ Signals[3] = "logger"
  BY DEF Signals
<1>2. \A n \in 1 .. 3 : n = 1 \/ n = 2 \/ n = 3
  OBVIOUS
<1> QED
  BY <1>1, <1>2 DEF Range

LEMMA SignalsAppended ==
    /\ Append(<< >>, "tracer") = <<"tracer">>
    /\ Append(<<"tracer">>, "meter") = <<"tracer", "meter">>
    /\ Append(<<"tracer", "meter">>, "logger") = <<"tracer", "meter", "logger">>
<1> DEFINE S == {"tracer", "meter", "logger"}
<1>1. /\ << >> \in Seq(S) /\ <<"tracer">> \in Seq(S) /\ <<"tracer", "meter">> \in Seq(S)
      /\ <<"tracer", "meter", "logger">> \in Seq(S)
  OBVIOUS
<1>2. Append(<< >>, "tracer") = <<"tracer">>
  BY <1>1
<1>3. Append(<<"tracer">>, "meter") = <<"tracer", "meter">>
  <2>1. /\ Append(<<"tracer">>, "meter") \in Seq(S)
        /\ Len(Append(<<"tracer">>, "meter")) = 2 /\ Len(<<"tracer", "meter">>) = 2
    BY <1>1
  <2>2. \A i \in 1 .. 2 : Append(<<"tracer">>, "meter")[i] = <<"tracer", "meter">>[i]
    BY <1>1
  <2> QED
    BY <1>1, <2>1, <2>2, SeqEqual
<1>4. Append(<<"tracer", "meter">>, "logger") = <<"tracer", "meter", "logger">>
  <2>1. /\ Append(<<"tracer", "meter">>, "logger") \in Seq(S)
        /\ Len(Append(<<"tracer", "meter">>, "logger")) = 3
        /\ Len(<<"tracer", "meter", "logger">>) = 3
    BY <1>1
  <2>2. \A i \in 1 .. 3 :
            Append(<<"tracer", "meter">>, "logger")[i] = <<"tracer", "meter", "logger">>[i]
    BY <1>1
  <2> QED
    BY <1>1, <2>1, <2>2, SeqEqual
<1> QED
  BY <1>2, <1>3, <1>4

(* A provider made over the ones made before it.                           *)
LEMMA ProvideMakes ==
    ASSUME NEW s \in {"tracer", "meter", "logger"}, NEW before, NEW after, NEW g, NEW h,
           Made(before, g, h), after = g \cup {s}, InitProvider(s)
    PROVE  /\ steps' = Append(before, s) /\ signals' = [x \in after |-> Exporter']
           /\ globals' = IF otelConfig.global
                         THEN h \cup (IF s = "logger" THEN {"propagator"} ELSE {s}) ELSE {}
           /\ providerAt = s
           /\ providerAt' = IF s = "logger" THEN "started" ELSE Signals[Cardinality(g) + 2]
           /\ otelConfig' = otelConfig
<1>1. /\ providerAt = s /\ otelConfig' = otelConfig /\ steps' = Append(steps, s)
      /\ signals' = [x \in DOMAIN signals \cup {s} |-> IF x = s THEN Exporter ELSE signals[x]]
      /\ globals' = (IF ~otelConfig.global THEN globals
                     ELSE globals \cup IF s = "logger" THEN {"propagator"} ELSE {s})
      /\ providerAt' = IF s = "logger" THEN "started" ELSE Signals[Cardinality(DOMAIN signals) + 2]
  BY DEF InitProvider, Provide
<1>2. steps = before /\ signals = [x \in g |-> Exporter] /\ DOMAIN signals = g
      /\ globals = IF otelConfig.global THEN h ELSE {}
  BY DEF Made
<1>3. Exporter' = Exporter
  BY <1>1 DEF Exporter
<1>4. signals' = [x \in after |-> Exporter']
  BY <1>1, <1>2, <1>3
<1>5. globals' = IF otelConfig.global
                 THEN h \cup (IF s = "logger" THEN {"propagator"} ELSE {s}) ELSE {}
  BY <1>1, <1>2
<1> QED
  BY <1>1, <1>2, <1>4, <1>5

LEMMA InitProviderKeeps ==
    ASSUME OtelInv, NEW s \in Range(Signals), InitProvider(s)
    PROVE  OtelInv'
<1>1. s \in {"tracer", "meter", "logger"} /\ providerAt = s
  BY SignalsNamed DEF InitProvider, Provide
<1>2. OtelConfigValid' = OtelConfigValid /\ (otelConfig \in OtelConfigs)'
  BY DEF InitProvider, Provide, OtelConfigValid, OtelInv
<1>3. OtelConfigValid
  BY <1>1 DEF OtelInv, OtelStage
<1>4. CASE s = "tracer"
  <2>1. Made(<< >>, {}, {})
    BY <1>1, <1>4 DEF OtelInv, OtelStage
  <2>2. /\ steps' = Append(<< >>, s) /\ signals' = [x \in {"tracer"} |-> Exporter']
        /\ globals' = (IF otelConfig.global THEN {} \cup {s} ELSE {})
        /\ providerAt' = Signals[Cardinality({}) + 2] /\ otelConfig' = otelConfig
    BY <1>1, <1>4, <2>1, ProvideMakes
  <2>3. providerAt' = "meter" /\ steps' = <<"tracer">>
    BY <1>4, <2>2, SignalsCounted, SignalsNamed, SignalsAppended
  <2>4. OtelStage(1)'
    BY <1>4, <2>2, <2>3 DEF OtelStage, Made
  <2> QED
    BY <1>2, <1>3, <2>4 DEF OtelInv
<1>5. CASE s = "meter"
  <2>1. Made(<<"tracer">>, {"tracer"}, {"tracer"})
    BY <1>1, <1>5 DEF OtelInv, OtelStage
  <2>2. /\ steps' = Append(<<"tracer">>, s) /\ signals' = [x \in {"tracer", "meter"} |-> Exporter']
        /\ globals' = (IF otelConfig.global THEN {"tracer"} \cup {s} ELSE {})
        /\ providerAt' = Signals[Cardinality({"tracer"}) + 2] /\ otelConfig' = otelConfig
    <3>1. {"tracer", "meter"} = {"tracer"} \cup {s}
      BY <1>5
    <3> QED
      BY <1>1, <1>5, <2>1, <3>1, ProvideMakes
  <2>3. providerAt' = "logger" /\ steps' = <<"tracer", "meter">>
    BY <1>5, <2>2, SignalsCounted, SignalsNamed, SignalsAppended
  <2>4. OtelStage(2)'
    BY <1>5, <2>2, <2>3 DEF OtelStage, Made
  <2> QED
    BY <1>2, <1>3, <2>4 DEF OtelInv
<1>6. CASE s = "logger"
  <2>1. Made(<<"tracer", "meter">>, {"tracer", "meter"}, {"tracer", "meter"})
    BY <1>1, <1>6 DEF OtelInv, OtelStage
  <2>2. /\ steps' = Append(<<"tracer", "meter">>, s)
        /\ signals' = [x \in {"tracer", "meter", "logger"} |-> Exporter']
        /\ globals' = (IF otelConfig.global THEN {"tracer", "meter"} \cup {"propagator"} ELSE {})
        /\ providerAt' = "started" /\ otelConfig' = otelConfig
    <3>1. {"tracer", "meter", "logger"} = {"tracer", "meter"} \cup {s}
      BY <1>6
    <3> QED
      BY <1>1, <1>6, <2>1, <3>1, ProvideMakes
  <2>3. steps' = <<"tracer", "meter", "logger">>
    BY <1>6, <2>2, SignalsAppended
  <2>4. OtelStage(3)'
    BY <1>6, <2>2, <2>3 DEF OtelStage, Made
  <2> QED
    BY <1>2, <1>3, <2>4 DEF OtelInv
<1> QED
  BY <1>1, <1>4, <1>5, <1>6

(* A step that makes nothing.                                              *)
LEMMA OtelNothingMade ==
    ASSUME OtelInv, UNCHANGED <<otelConfig, signals, steps, globals>>, providerAt # "started",
           \/ providerAt' = "failed"
           \/ /\ OtelStage(0) /\ OtelConfigValid
              /\ providerAt' \in {"resource", "tracer"}
    PROVE  OtelInv'
<1>1. OtelConfigValid' = OtelConfigValid /\ (otelConfig \in OtelConfigs)'
  BY DEF OtelConfigValid, OtelInv
<1>2. ASSUME NEW p, NEW g, NEW h, Made(p, g, h)
      PROVE  Made(p, g, h)'
  BY <1>2 DEF Made, Exporter
<1>3. CASE OtelStage(0) /\ (providerAt' = "failed" \/ (OtelConfigValid /\ providerAt' \in {"resource", "tracer"}))
  <2>1. Made(<< >>, {}, {})
    BY <1>3 DEF OtelStage
  <2>2. Made(<< >>, {}, {})'
    BY <1>2, <2>1
  <2>3. OtelStage(0)'
    BY <1>3, <2>2 DEF OtelStage
  <2> QED
    BY <1>1, <1>3, <2>3 DEF OtelInv
<1>4. ASSUME NEW n \in 1 .. 3, OtelStage(n), OtelConfigValid, n # 3, providerAt' = "failed"
      PROVE  OtelInv'
  <2>1. OtelStage(n)'
    <3>1. CASE n = 1
      <4>1. Made(<<"tracer">>, {"tracer"}, {"tracer"})
        BY <1>4, <3>1 DEF OtelStage
      <4>2. Made(<<"tracer">>, {"tracer"}, {"tracer"})'
        BY <1>2, <4>1
      <4> QED
        BY <1>4, <3>1, <4>2 DEF OtelStage
    <3>2. CASE n = 2
      <4>1. Made(<<"tracer", "meter">>, {"tracer", "meter"}, {"tracer", "meter"})
        BY <1>4, <3>2 DEF OtelStage
      <4>2. Made(<<"tracer", "meter">>, {"tracer", "meter"}, {"tracer", "meter"})'
        BY <1>2, <4>1
      <4> QED
        BY <1>4, <3>2, <4>2 DEF OtelStage
    <3> QED
      BY <1>4, <3>1, <3>2
  <2> QED
    BY <1>1, <1>4, <2>1 DEF OtelInv
<1>5. ASSUME NEW n \in 1 .. 3, OtelStage(n), OtelConfigValid
      PROVE  n # 3 /\ (providerAt' = "failed" \/ OtelStage(0))
  BY <1>5 DEF OtelStage
<1> QED
  BY <1>3, <1>4, <1>5 DEF OtelInv

LEMMA OtelNextKeeps ==
    ASSUME OtelInv, OtelNext
    PROVE  OtelInv'
<1>1. CASE CheckOtelConfig
  <2>1. /\ providerAt = "check" /\ UNCHANGED <<otelConfig, signals, steps, globals>>
        /\ providerAt' = "failed" \/ (OtelConfigValid /\ providerAt' = "resource")
    BY <1>1 DEF CheckOtelConfig
  <2>2. OtelStage(0)
    BY <2>1 DEF OtelInv, OtelStage
  <2> QED
    BY <2>1, <2>2, OtelNothingMade
<1>2. ASSUME NEW fails \in BOOLEAN, CreateResource(fails)
      PROVE  OtelInv'
  <2>1. /\ providerAt = "resource" /\ UNCHANGED <<otelConfig, signals, steps, globals>>
        /\ providerAt' = "failed" \/ providerAt' = "tracer"
    BY <1>2, SignalsNamed DEF CreateResource
  <2>2. OtelStage(0) /\ OtelConfigValid
    BY <2>1 DEF OtelInv, OtelStage
  <2> QED
    BY <2>1, <2>2, OtelNothingMade
<1>3. ASSUME NEW s \in Range(Signals), InitProviderFails(s)
      PROVE  OtelInv'
  <2>1. /\ providerAt # "started" /\ UNCHANGED <<otelConfig, signals, steps, globals>>
        /\ providerAt' = "failed"
    BY <1>3, SignalsNamed DEF InitProviderFails
  <2> QED
    BY <2>1, OtelNothingMade
<1> QED
  BY <1>1, <1>2, <1>3, InitProviderKeeps DEF OtelNext

LEMMA OtelRests ==
    ASSUME OtelInv, UNCHANGED providerVars
    PROVE  OtelInv'
  BY DEF OtelInv, OtelStage, Made, Exporter, OtelConfigValid, providerVars

(* A provider is made in the clear only when its caller asked.             *)
LEMMA SecureExporter ==
    ASSUME otelConfig \in OtelConfigs
    PROVE  Exporter.secure = "insecure" => otelConfig.insecure
  BY DEF Exporter

LEMMA ProviderWhole ==
    ASSUME OtelInv
    PROVE  ProviderIsWhole
<1>1. ASSUME NEW p, NEW g, NEW h, Made(p, g, h)
      PROVE  /\ steps = p /\ DOMAIN signals = g /\ \A x \in g : signals[x] = Exporter
             /\ globals = IF otelConfig.global THEN h ELSE {}
  BY <1>1 DEF Made
<1>2. Signals = <<"tracer", "meter", "logger">>
  BY DEF Signals
<1>3. CASE OtelStage(0)
  <2>1. Made(<< >>, {}, {}) /\ providerAt # "started"
    BY <1>3 DEF OtelStage
  <2>2. steps = << >> /\ DOMAIN signals = {} /\ globals = {}
    BY <1>1, <2>1
  <2>3. Range(steps) = {} /\ IsPrefix(steps, Signals)
    BY <2>2, <1>2 DEF Range, IsPrefix
  <2>4. signals = [s \in {} |-> {}]
    BY <2>1 DEF Made
  <2> QED
    BY <2>1, <2>2, <2>3, <2>4 DEF ProviderIsWhole
<1>4. CASE OtelStage(1) /\ OtelConfigValid
  <2>1. Made(<<"tracer">>, {"tracer"}, {"tracer"}) /\ providerAt # "started"
    BY <1>4 DEF OtelStage
  <2>2. /\ steps = <<"tracer">> /\ DOMAIN signals = {"tracer"}
        /\ globals \subseteq {"tracer"}
    BY <1>1, <2>1
  <2>3. Range(steps) = {"tracer"} /\ IsPrefix(steps, Signals)
    BY <2>2, <1>2 DEF Range, IsPrefix
  <2> QED
    BY <1>4, <2>1, <2>2, <2>3 DEF ProviderIsWhole
<1>5. CASE OtelStage(2) /\ OtelConfigValid
  <2>1. Made(<<"tracer", "meter">>, {"tracer", "meter"}, {"tracer", "meter"})
        /\ providerAt # "started"
    BY <1>5 DEF OtelStage
  <2>2. /\ steps = <<"tracer", "meter">> /\ DOMAIN signals = {"tracer", "meter"}
        /\ globals \subseteq {"tracer", "meter"}
    BY <1>1, <2>1
  <2>3. Range(steps) = {"tracer", "meter"} /\ IsPrefix(steps, Signals)
    BY <2>2, <1>2 DEF Range, IsPrefix
  <2> QED
    BY <1>5, <2>1, <2>2, <2>3 DEF ProviderIsWhole
<1>6. CASE OtelStage(3) /\ OtelConfigValid
  <2>1. Made(<<"tracer", "meter", "logger">>, {"tracer", "meter", "logger"},
             {"tracer", "meter", "propagator"})
    BY <1>6 DEF OtelStage
  <2>2. /\ steps = Signals /\ DOMAIN signals = {"tracer", "meter", "logger"}
        /\ \A x \in DOMAIN signals : signals[x] = Exporter
        /\ globals = IF otelConfig.global THEN {"tracer", "meter", "propagator"} ELSE {}
    BY <1>1, <1>2, <2>1
  <2>3. Range(steps) = {"tracer", "meter", "logger"} /\ IsPrefix(steps, Signals)
    BY <2>2, <1>2, SignalsNamed DEF IsPrefix
  <2>4. signals["tracer"].secure = "insecure" => otelConfig.insecure
    BY <2>2, SecureExporter DEF OtelInv
  <2> QED
    BY <1>6, <2>2, <2>3, <2>4 DEF ProviderIsWhole
<1> QED
  <2>1. \A n \in 1 .. 3 : n = 1 \/ n = 2 \/ n = 3
    OBVIOUS
  <2> QED
    BY <1>3, <1>4, <1>5, <1>6, <2>1 DEF OtelInv
-----------------------------------------------------------------------------
(* Concurrent migrations: the sides of a call, the lock, and the database. *)
MigratingStates == [at : {"idle", "waiting", "over"},
                    result : {"none", "ok", "noChange", "failed", "timeout"}]

RunnerStates == [at : {"none", "lock", "next", "body", "mark", "over"},
                 result : {"none", "ok", "noChange", "failed", "stopped"}, ran : Nat]

Databases == [version : 0 .. Migrations, dirty : BOOLEAN, applied : SUBSET Int,
              lock : CallNames \cup {Unlocked}]

MigratorTypes ==
    /\ migrating \in [CallNames -> MigratingStates]
    /\ runner \in [CallNames -> RunnerStates]
    /\ stopping \in [CallNames -> BOOLEAN]
    /\ connection \in [CallNames -> {"none", "open", "closed"}]
    /\ database \in Databases /\ forced \in BOOLEAN

(* A goroutine is asked to stop only when nobody waits for it any more.    *)
SidesInv ==
    \A c \in CallNames :
        /\ migrating[c].at # "over" => migrating[c].result = "none"
        /\ migrating[c].at = "idle" => runner[c].result = "none" /\ runner[c].at = "none"
        /\ stopping[c] \/ runner[c].result = "stopped" => migrating[c].result = "timeout"
        /\ migrating[c].result \in {"ok", "noChange"} =>
               runner[c].at = "over" /\ runner[c].result = migrating[c].result

(* The lock is held by the goroutine that is past it, while connected.     *)
LockHeldInv ==
    \A c \in CallNames :
        database.lock = c <=> /\ runner[c].at \in {"next", "body", "mark"}
                              /\ connection[c] = "open"

(* Where the database is, seen from the goroutine that holds the lock.     *)
HolderInv ==
    \A c \in CallNames : database.lock = c =>
        /\ runner[c].at = "next" /\ MigratorCalls[c] # "force" => ~database.dirty
        /\ runner[c].at = "body" /\ MigratorCalls[c] = "up" =>
               /\ database.version >= 1
               /\ database.applied = 1 .. database.version - 1
        /\ runner[c].at = "body" /\ MigratorCalls[c] # "up" =>
               database.applied = 1 .. database.version + 1
        /\ runner[c].at = "mark" => database.applied = 1 .. database.version

AppliedInv ==
    IF database.dirty
    THEN \/ database.applied \in {1 .. database.version - 1, 1 .. database.version}
         \/ database.applied = 1 .. database.version + 1
    ELSE database.applied = 1 .. database.version

MigratorInv ==
    /\ MigratorTypes /\ SidesInv /\ LockHeldInv
    /\ ~forced => HolderInv /\ AppliedInv

LEMMA MigratorStarts ==
    ASSUME MigratorInit
    PROVE  MigratorInv
<1>1. Migrations \in Nat /\ Unlocked \notin CallNames
  BY MigratorAssumption DEF MigratorAssumption, CallNames
<1>2. 1 .. 0 = {}
  OBVIOUS
<1>3. database = [version |-> 0, dirty |-> FALSE, applied |-> {}, lock |-> Unlocked]
  BY DEF MigratorInit
<1>4. database \in Databases
  BY <1>1, <1>3 DEF Databases
<1>5. MigratorTypes
  BY <1>4 DEF MigratorInit, MigratorTypes, MigratingStates, RunnerStates
<1>6. SidesInv
  BY DEF MigratorInit, SidesInv
<1>7. LockHeldInv
  BY <1>1, <1>3 DEF MigratorInit, LockHeldInv
<1>8. HolderInv
  BY <1>1, <1>3 DEF HolderInv
<1>9. AppliedInv
  BY <1>2, <1>3 DEF AppliedInv
<1> QED
  BY <1>5, <1>6, <1>7, <1>8, <1>9 DEF MigratorInv

(* One call's goroutine moves.                                             *)
LEMMA RunnerMoves ==
    ASSUME MigratorTypes, NEW c \in CallNames, NEW w \in RunnerStates,
           runner' = [runner EXCEPT ![c] = w]
    PROVE  /\ runner' \in [CallNames -> RunnerStates] /\ runner'[c] = w
           /\ \A d \in CallNames : d # c => runner'[d] = runner[d]
  BY DEF MigratorTypes

LEMMA RunnerGoes ==
    ASSUME MigratorTypes, NEW c \in CallNames,
           NEW at \in {"lock", "next", "mark"}, runner' = RunnerAt(c, at)
    PROVE  /\ runner' \in [CallNames -> RunnerStates]
           /\ runner'[c].at = at /\ runner'[c].result = runner[c].result
           /\ \A d \in CallNames : d # c => runner'[d] = runner[d]
<1>1. [at |-> at, result |-> runner[c].result, ran |-> runner[c].ran] \in RunnerStates
  BY DEF MigratorTypes, RunnerStates
<1>2. /\ runner' \in [CallNames -> RunnerStates]
      /\ runner'[c] = [at |-> at, result |-> runner[c].result, ran |-> runner[c].ran]
      /\ \A d \in CallNames : d # c => runner'[d] = runner[d]
  BY <1>1, RunnerMoves DEF RunnerAt
<1> QED
  BY <1>2

LEMMA EndedMoves ==
    ASSUME MigratorTypes, NEW c \in CallNames,
           NEW how \in {"ok", "noChange", "failed", "stopped"}, Ended(c, how)
    PROVE  /\ runner' \in [CallNames -> RunnerStates]
           /\ runner'[c].at = "over" /\ runner'[c].result = how
           /\ \A d \in CallNames : d # c => runner'[d] = runner[d]
           /\ database' = [version |-> database.version, dirty |-> database.dirty,
                           applied |-> database.applied,
                           lock |-> IF database.lock = c THEN Unlocked ELSE database.lock]
<1>1. [at |-> "over", result |-> how, ran |-> runner[c].ran] \in RunnerStates
  BY DEF MigratorTypes, RunnerStates
<1>2. database' = [version |-> database.version, dirty |-> database.dirty,
                   applied |-> database.applied,
                   lock |-> IF database.lock = c THEN Unlocked ELSE database.lock]
  BY DEF Ended, MigratorTypes, Databases
<1>3. /\ runner' \in [CallNames -> RunnerStates]
      /\ runner'[c] = [at |-> "over", result |-> how, ran |-> runner[c].ran]
      /\ \A d \in CallNames : d # c => runner'[d] = runner[d]
  BY <1>1, RunnerMoves DEF Ended
<1> QED
  BY <1>2, <1>3

(* The goroutine of a call ends, however it does.                          *)
LEMMA EndedKeeps ==
    ASSUME MigratorInv, NEW c \in CallNames,
           NEW how \in {"ok", "noChange", "failed", "stopped"}, Ended(c, how),
           runner[c].at \in {"lock", "next", "body", "mark"},
           how = "stopped" => migrating[c].result = "timeout",
           stopping' \in [CallNames -> BOOLEAN],
           \A d \in CallNames : stopping'[d] => stopping[d],
           UNCHANGED <<migrating, connection, forced>>
    PROVE  MigratorInv'
<1>1. MigratorTypes /\ SidesInv /\ LockHeldInv /\ Unlocked \notin CallNames
  BY MigratorAssumption DEF MigratorInv, MigratorAssumption, CallNames
<1>2. /\ runner' \in [CallNames -> RunnerStates]
      /\ runner'[c].at = "over" /\ runner'[c].result = how
      /\ \A d \in CallNames : d # c => runner'[d] = runner[d]
      /\ database' = [version |-> database.version, dirty |-> database.dirty,
                      applied |-> database.applied,
                      lock |-> IF database.lock = c THEN Unlocked ELSE database.lock]
  BY <1>1, EndedMoves
<1>3. MigratorTypes'
  <2>1. database' \in Databases
    BY <1>1, <1>2 DEF MigratorTypes, Databases
  <2> QED
    BY <1>1, <1>2, <2>1 DEF MigratorTypes
<1>4. SidesInv'
  BY <1>1, <1>2 DEF SidesInv
<1>5. LockHeldInv'
  BY <1>1, <1>2 DEF LockHeldInv
<1>6. ASSUME ~forced'
      PROVE  HolderInv' /\ AppliedInv'
  <2>1. HolderInv /\ AppliedInv
    BY <1>6 DEF MigratorInv
  <2>2. /\ database'.version = database.version /\ database'.dirty = database.dirty
        /\ database'.applied = database.applied
        /\ \A d \in CallNames : database'.lock = d => database.lock = d /\ d # c
    BY <1>1, <1>2
  <2>3. AppliedInv'
    BY <2>1, <2>2 DEF AppliedInv
  <2>4. HolderInv'
    BY <1>2, <2>1, <2>2 DEF HolderInv
  <2> QED
    BY <2>3, <2>4
<1> QED
  BY <1>3, <1>4, <1>5, <1>6 DEF MigratorInv

LEMMA RunMigrationKeeps ==
    ASSUME MigratorInv, NEW c \in CallNames, NEW opens \in BOOLEAN, RunMigration(c, opens)
    PROVE  MigratorInv'
<1>1. /\ MigratorTypes /\ SidesInv /\ LockHeldInv /\ Unlocked \notin CallNames
      /\ migrating[c].at = "idle" /\ UNCHANGED <<stopping, database, forced>>
      /\ ~forced => HolderInv /\ AppliedInv
  BY MigratorAssumption DEF MigratorInv, MigratorAssumption, CallNames, RunMigration
<1>2. database.lock # c /\ runner[c].at = "none" /\ runner[c].result = "none" /\ ~stopping[c]
  BY <1>1 DEF LockHeldInv, SidesInv
<1>3. CASE opens
  <2>1. /\ migrating' = [migrating EXCEPT ![c] = [at |-> "waiting", result |-> "none"]]
        /\ runner' = RunnerAt(c, "lock")
        /\ connection' = [connection EXCEPT ![c] = "open"]
    BY <1>3 DEF RunMigration
  <2>2. /\ runner' \in [CallNames -> RunnerStates]
        /\ runner'[c].at = "lock" /\ runner'[c].result = runner[c].result
        /\ \A d \in CallNames : d # c => runner'[d] = runner[d]
    BY <1>1, <2>1, RunnerGoes
  <2>3. /\ migrating' \in [CallNames -> MigratingStates]
        /\ migrating'[c].at = "waiting" /\ migrating'[c].result = "none"
        /\ \A d \in CallNames : d # c => migrating'[d] = migrating[d]
    BY <1>1, <2>1 DEF MigratorTypes, MigratingStates
  <2>4. /\ connection' \in [CallNames -> {"none", "open", "closed"}]
        /\ \A d \in CallNames : d # c => connection'[d] = connection[d]
    BY <1>1, <2>1 DEF MigratorTypes
  <2>5. MigratorTypes'
    BY <1>1, <2>2, <2>3, <2>4 DEF MigratorTypes
  <2>6. SidesInv'
    BY <1>1, <1>2, <2>2, <2>3 DEF SidesInv
  <2>7. LockHeldInv'
    BY <1>1, <1>2, <2>2, <2>4 DEF LockHeldInv
  <2>8. ~forced' => HolderInv' /\ AppliedInv'
    BY <1>1, <1>2, <2>2 DEF HolderInv, AppliedInv
  <2> QED
    BY <2>5, <2>6, <2>7, <2>8 DEF MigratorInv
<1>4. CASE ~opens
  <2>1. /\ migrating' = [migrating EXCEPT ![c] = [at |-> "over", result |-> "failed"]]
        /\ UNCHANGED <<runner, connection>>
    BY <1>4 DEF RunMigration
  <2>2. /\ migrating' \in [CallNames -> MigratingStates]
        /\ migrating'[c].at = "over" /\ migrating'[c].result = "failed"
        /\ \A d \in CallNames : d # c => migrating'[d] = migrating[d]
    BY <1>1, <2>1 DEF MigratorTypes, MigratingStates
  <2>3. MigratorTypes'
    BY <1>1, <2>1, <2>2 DEF MigratorTypes
  <2>4. SidesInv'
    BY <1>1, <1>2, <2>1, <2>2 DEF SidesInv
  <2>5. LockHeldInv' /\ (~forced' => HolderInv' /\ AppliedInv')
    BY <1>1, <2>1 DEF LockHeldInv, HolderInv, AppliedInv
  <2> QED
    BY <2>3, <2>4, <2>5 DEF MigratorInv
<1> QED
  BY <1>3, <1>4

(* The one holder of the lock, and what it knows.                          *)
LEMMA Holder ==
    ASSUME MigratorInv, NEW c \in CallNames, connection[c] = "open",
           runner[c].at \in {"next", "body", "mark"}
    PROVE  /\ database.lock = c /\ \A d \in CallNames : database.lock = d => d = c
           /\ MigratorTypes /\ SidesInv /\ LockHeldInv
           /\ database.version \in 0 .. Migrations /\ Migrations \in Nat
           /\ ~forced => HolderInv /\ AppliedInv
  BY MigratorAssumption DEF MigratorInv, LockHeldInv, MigratorAssumption, MigratorTypes, Databases

LEMMA LockKeeps ==
    ASSUME MigratorInv, NEW c \in CallNames, Lock(c)
    PROVE  MigratorInv'
<1>1. /\ runner[c].at = "lock" /\ database.lock = Unlocked /\ connection[c] = "open"
      /\ UNCHANGED <<migrating, stopping, connection, forced>>
      /\ MigratorTypes /\ SidesInv /\ LockHeldInv /\ Unlocked \notin CallNames
      /\ ~forced => AppliedInv
  BY MigratorAssumption DEF MigratorInv, MigratorAssumption, CallNames, Lock
<1>2. CASE database.dirty /\ MigratorCalls[c] # "force"
  <2>1. Ended(c, "failed")
    BY <1>2 DEF Lock
  <2> QED
    BY <1>1, <2>1, EndedKeeps DEF MigratorTypes
<1>3. CASE ~(database.dirty /\ MigratorCalls[c] # "force")
  <2>1. runner' = RunnerAt(c, "next") /\ database' = [database EXCEPT !.lock = c]
    BY <1>3 DEF Lock
  <2>2. /\ runner' \in [CallNames -> RunnerStates]
        /\ runner'[c].at = "next" /\ runner'[c].result = runner[c].result
        /\ \A d \in CallNames : d # c => runner'[d] = runner[d]
    BY <1>1, <2>1, RunnerGoes
  <2>3. database' = [version |-> database.version, dirty |-> database.dirty,
                     applied |-> database.applied, lock |-> c]
    BY <1>1, <2>1 DEF MigratorTypes, Databases
  <2>4. MigratorTypes'
    BY <1>1, <2>2, <2>3 DEF MigratorTypes, Databases
  <2>5. SidesInv'
    BY <1>1, <2>2 DEF SidesInv
  <2>6. LockHeldInv'
    BY <1>1, <2>2, <2>3 DEF LockHeldInv
  <2>7. HolderInv'
    BY <1>3, <2>2, <2>3 DEF HolderInv
  <2>8. ~forced' => AppliedInv'
    BY <1>1, <2>3 DEF AppliedInv
  <2> QED
    BY <2>4, <2>5, <2>6, <2>7, <2>8 DEF MigratorInv
<1> QED
  BY <1>2, <1>3

LEMMA RunnerFailsKeeps ==
    ASSUME MigratorInv, NEW c \in CallNames, RunnerFails(c)
    PROVE  MigratorInv'
  BY EndedKeeps DEF RunnerFails, MigratorInv, MigratorTypes

LEMMA RunnerStopsKeeps ==
    ASSUME MigratorInv, NEW c \in CallNames, RunnerStops(c)
    PROVE  MigratorInv'
<1>1. /\ runner[c].at = "next" /\ Ended(c, "stopped") /\ stopping[c]
      /\ stopping' = [stopping EXCEPT ![c] = FALSE] /\ stopping \in [CallNames -> BOOLEAN]
      /\ UNCHANGED <<migrating, connection, forced>>
  BY DEF RunnerStops, MigratorInv, MigratorTypes
<1>2. stopping' \in [CallNames -> BOOLEAN] /\ \A d \in CallNames : stopping'[d] => stopping[d]
  BY <1>1
<1>3. migrating[c].result = "timeout"
  BY <1>1 DEF MigratorInv, SidesInv
<1> QED
  BY <1>1, <1>2, <1>3, EndedKeeps

LEMMA RunnerEndsKeeps ==
    ASSUME MigratorInv, NEW c \in CallNames, RunnerEnds(c)
    PROVE  MigratorInv'
<1>1. PICK how \in {"ok", "noChange", "failed"} : Ended(c, how)
  BY DEF RunnerEnds
<1> QED
  BY <1>1, EndedKeeps DEF RunnerEnds, MigratorInv, MigratorTypes

LEMMA SetDirtyKeeps ==
    ASSUME MigratorInv, NEW c \in CallNames, SetDirty(c)
    PROVE  MigratorInv'
<1>1. /\ runner[c].at = "next" /\ connection[c] = "open"
      /\ UNCHANGED <<migrating, stopping, connection, forced>>
  BY DEF SetDirty
<1>2. /\ database.lock = c /\ \A d \in CallNames : database.lock = d => d = c
      /\ MigratorTypes /\ SidesInv /\ LockHeldInv
      /\ database.version \in 0 .. Migrations /\ Migrations \in Nat
      /\ ~forced => HolderInv /\ AppliedInv
  BY <1>1, Holder
<1>3. \/ MigratorCalls[c] = "up" /\ database.version < Migrations
      \/ MigratorCalls[c] = "down" /\ database.version > 0
  BY MigratorAssumption DEF SetDirty, Remaining, MigratorAssumption, CallNames
<1> DEFINE v == database.version + (IF MigratorCalls[c] = "up" THEN 1 ELSE -1)
<1>4. v \in 0 .. Migrations /\ (MigratorCalls[c] = "up" => v = database.version + 1)
      /\ (MigratorCalls[c] # "up" => v = database.version - 1)
  BY <1>2, <1>3
<1>5. database' = [version |-> v, dirty |-> TRUE, applied |-> database.applied, lock |-> c]
  BY <1>2 DEF SetDirty, MigratorTypes, Databases
<1> HIDE DEF v
<1>6. /\ runner' \in [CallNames -> RunnerStates]
      /\ runner'[c].at = "body" /\ runner'[c].result = runner[c].result
      /\ \A d \in CallNames : d # c => runner'[d] = runner[d]
  <2> DEFINE w == [at |-> "body", result |-> runner[c].result, ran |-> runner[c].ran + 1]
  <2>1. w \in RunnerStates /\ w.at = "body" /\ w.result = runner[c].result
    BY <1>2 DEF MigratorTypes, RunnerStates
  <2>2. runner' = [runner EXCEPT ![c] = w]
    BY DEF SetDirty
  <2> HIDE DEF w
  <2> QED
    BY <1>2, <2>1, <2>2, RunnerMoves
<1>7. MigratorTypes'
  BY <1>1, <1>2, <1>4, <1>5, <1>6 DEF MigratorTypes, Databases
<1>8. SidesInv'
  BY <1>1, <1>2, <1>6 DEF SidesInv
<1>9. LockHeldInv'
  BY <1>1, <1>2, <1>5, <1>6 DEF LockHeldInv
<1>10. ASSUME ~forced
       PROVE  HolderInv' /\ AppliedInv'
  <2>1. database.applied = 1 .. database.version
    <3>1. ~database.dirty
      BY <1>1, <1>2, <1>3, <1>10 DEF HolderInv
    <3> QED
      BY <1>2, <1>10, <3>1 DEF AppliedInv
  <2>2. /\ MigratorCalls[c] = "up" => v >= 1 /\ database.applied = 1 .. v - 1
        /\ MigratorCalls[c] # "up" => database.applied = 1 .. v + 1
    <3>1. MigratorCalls[c] = "up" => v - 1 = database.version /\ v >= 1
      BY <1>2, <1>4
    <3>2. MigratorCalls[c] # "up" => v + 1 = database.version
      BY <1>2, <1>4
    <3> QED
      BY <2>1, <3>1, <3>2
  <2>3. HolderInv'
    BY <1>2, <1>5, <1>6, <2>2 DEF HolderInv
  <2>4. AppliedInv'
    BY <1>5, <2>2 DEF AppliedInv
  <2> QED
    BY <2>3, <2>4
<1> QED
  BY <1>1, <1>7, <1>8, <1>9, <1>10 DEF MigratorInv

LEMMA RunBodyKeeps ==
    ASSUME MigratorInv, NEW c \in CallNames, RunBody(c)
    PROVE  MigratorInv'
<1>1. /\ runner[c].at = "body" /\ connection[c] = "open" /\ runner' = RunnerAt(c, "mark")
      /\ UNCHANGED <<migrating, stopping, connection, forced>>
  BY DEF RunBody
<1>2. /\ database.lock = c /\ \A d \in CallNames : database.lock = d => d = c
      /\ MigratorTypes /\ SidesInv /\ LockHeldInv
      /\ database.version \in 0 .. Migrations /\ Migrations \in Nat
      /\ ~forced => HolderInv /\ AppliedInv
  BY <1>1, Holder
<1> DEFINE a == IF MigratorCalls[c] = "up" THEN database.applied \cup {database.version}
                ELSE database.applied \ {database.version + 1}
<1>3. a \in SUBSET Int
  BY <1>2 DEF MigratorTypes, Databases
<1>4. database' = [version |-> database.version, dirty |-> database.dirty, applied |-> a, lock |-> c]
  BY <1>2 DEF RunBody, MigratorTypes, Databases
<1>5. ~forced => a = 1 .. database.version
  <2>1. CASE MigratorCalls[c] = "up" /\ ~forced
    <3>1. database.version >= 1 /\ database.applied = 1 .. database.version - 1
      BY <1>1, <1>2, <2>1 DEF HolderInv
    <3> QED
      BY <1>2, <2>1, <3>1
  <2>2. CASE MigratorCalls[c] # "up" /\ ~forced
    <3>1. database.applied = 1 .. database.version + 1
      BY <1>1, <1>2, <2>2 DEF HolderInv
    <3> QED
      BY <1>2, <2>2, <3>1
  <2> QED
    BY <2>1, <2>2
<1> HIDE DEF a
<1>6. /\ runner' \in [CallNames -> RunnerStates]
      /\ runner'[c].at = "mark" /\ runner'[c].result = runner[c].result
      /\ \A d \in CallNames : d # c => runner'[d] = runner[d]
  BY <1>1, <1>2, RunnerGoes
<1>7. MigratorTypes'
  BY <1>1, <1>2, <1>3, <1>4, <1>6 DEF MigratorTypes, Databases
<1>8. SidesInv'
  BY <1>1, <1>2, <1>6 DEF SidesInv
<1>9. LockHeldInv'
  BY <1>1, <1>2, <1>4, <1>6 DEF LockHeldInv
<1>10. ~forced => HolderInv' /\ AppliedInv'
  <2>1. ~forced => HolderInv'
    BY <1>2, <1>4, <1>5, <1>6 DEF HolderInv
  <2>2. ~forced => AppliedInv'
    BY <1>4, <1>5 DEF AppliedInv
  <2> QED
    BY <2>1, <2>2
<1> QED
  BY <1>1, <1>7, <1>8, <1>9, <1>10 DEF MigratorInv

LEMMA SetCleanKeeps ==
    ASSUME MigratorInv, NEW c \in CallNames, SetClean(c)
    PROVE  MigratorInv'
<1>1. /\ runner[c].at = "mark" /\ connection[c] = "open" /\ runner' = RunnerAt(c, "next")
      /\ UNCHANGED <<migrating, stopping, connection, forced>>
  BY DEF SetClean
<1>2. /\ database.lock = c /\ \A d \in CallNames : database.lock = d => d = c
      /\ MigratorTypes /\ SidesInv /\ LockHeldInv
      /\ ~forced => HolderInv /\ AppliedInv
  BY <1>1, Holder
<1>3. database' = [version |-> database.version, dirty |-> FALSE,
                   applied |-> database.applied, lock |-> c]
  BY <1>2 DEF SetClean, MigratorTypes, Databases
<1>4. /\ runner' \in [CallNames -> RunnerStates]
      /\ runner'[c].at = "next" /\ runner'[c].result = runner[c].result
      /\ \A d \in CallNames : d # c => runner'[d] = runner[d]
  BY <1>1, <1>2, RunnerGoes
<1>5. MigratorTypes'
  BY <1>1, <1>2, <1>3, <1>4 DEF MigratorTypes, Databases
<1>6. SidesInv'
  BY <1>1, <1>2, <1>4 DEF SidesInv
<1>7. LockHeldInv'
  BY <1>1, <1>2, <1>3, <1>4 DEF LockHeldInv
<1>8. ASSUME ~forced
      PROVE  HolderInv' /\ AppliedInv'
  <2>1. database.applied = 1 .. database.version
    BY <1>1, <1>2, <1>8 DEF HolderInv
  <2>2. HolderInv'
    BY <1>2, <1>3, <1>4 DEF HolderInv
  <2>3. AppliedInv'
    BY <1>3, <2>1 DEF AppliedInv
  <2> QED
    BY <2>2, <2>3
<1> QED
  BY <1>1, <1>5, <1>6, <1>7, <1>8 DEF MigratorInv

LEMMA ForceKeeps ==
    ASSUME MigratorInv, NEW c \in CallNames, NEW v \in 0 .. Migrations, ForceVersion(c, v)
    PROVE  MigratorInv'
<1>1. /\ runner[c].at = "next" /\ connection[c] = "open" /\ forced' = TRUE
      /\ UNCHANGED <<migrating, stopping, connection>>
  BY DEF ForceVersion
<1>2. /\ database.lock = c /\ \A d \in CallNames : database.lock = d => d = c
      /\ MigratorTypes /\ SidesInv /\ LockHeldInv /\ Unlocked \notin CallNames
  BY <1>1, Holder, MigratorAssumption DEF MigratorAssumption, CallNames
<1>3. database' = [version |-> v, dirty |-> FALSE, applied |-> database.applied,
                   lock |-> Unlocked]
  BY <1>2 DEF ForceVersion, MigratorTypes, Databases
<1>4. /\ runner' \in [CallNames -> RunnerStates]
      /\ runner'[c].at = "over" /\ runner'[c].result = "ok"
      /\ \A d \in CallNames : d # c => runner'[d] = runner[d]
  <2> DEFINE w == [at |-> "over", result |-> "ok", ran |-> runner[c].ran]
  <2>1. w \in RunnerStates /\ w.at = "over" /\ w.result = "ok"
    BY <1>2 DEF MigratorTypes, RunnerStates
  <2>2. runner' = [runner EXCEPT ![c] = w]
    BY DEF ForceVersion
  <2> HIDE DEF w
  <2> QED
    BY <1>2, <2>1, <2>2, RunnerMoves
<1>5. MigratorTypes'
  BY <1>1, <1>2, <1>3, <1>4 DEF MigratorTypes, Databases
<1>6. SidesInv'
  BY <1>1, <1>2, <1>4 DEF SidesInv
<1>7. LockHeldInv'
  BY <1>1, <1>2, <1>3, <1>4 DEF LockHeldInv
<1> QED
  BY <1>1, <1>5, <1>6, <1>7 DEF MigratorInv

(* The caller's side moves, the goroutine's does not.                      *)
LEMMA CallerKeeps ==
    ASSUME MigratorInv, NEW c \in CallNames, NEW w \in MigratingStates,
           migrating' = [migrating EXCEPT ![c] = w], migrating[c].at = "waiting",
           w.at = "over", w.result \in {"ok", "noChange"} => runner[c].result = w.result,
           \/ /\ w.result = "timeout" /\ stopping' = [stopping EXCEPT ![c] = TRUE]
              /\ connection' = connection
           \/ /\ runner[c].at = "over" /\ stopping' = stopping
              /\ connection' = [connection EXCEPT ![c] = "closed"],
           UNCHANGED <<runner, database, forced>>
    PROVE  MigratorInv'
<1>1. MigratorTypes /\ SidesInv /\ LockHeldInv /\ (~forced => HolderInv /\ AppliedInv)
  BY DEF MigratorInv
<1>2. /\ migrating' \in [CallNames -> MigratingStates] /\ migrating'[c] = w
      /\ \A d \in CallNames : d # c => migrating'[d] = migrating[d]
  BY <1>1 DEF MigratorTypes
<1>3. /\ stopping' \in [CallNames -> BOOLEAN]
      /\ \A d \in CallNames : stopping'[d] => stopping[d] \/ (d = c /\ w.result = "timeout")
  BY <1>1 DEF MigratorTypes
<1>4. /\ connection' \in [CallNames -> {"none", "open", "closed"}]
      /\ \A d \in CallNames :
             connection'[d] = connection[d] \/ (d = c /\ runner[c].at = "over")
  BY <1>1 DEF MigratorTypes
<1>5. MigratorTypes'
  BY <1>1, <1>2, <1>3, <1>4 DEF MigratorTypes
<1>6. migrating[c].result = "none" /\ runner[c].result # "stopped" /\ ~stopping[c]
  BY <1>1 DEF SidesInv
<1>7. w.result \in {"ok", "noChange"} => runner[c].at = "over"
  OBVIOUS
<1>8. SidesInv'
  <2> SUFFICES ASSUME NEW d \in CallNames
               PROVE  /\ migrating'[d].at # "over" => migrating'[d].result = "none"
                      /\ migrating'[d].at = "idle" => runner[d].result = "none" /\ runner[d].at = "none"
                      /\ stopping'[d] \/ runner[d].result = "stopped" =>
                             migrating'[d].result = "timeout"
                      /\ migrating'[d].result \in {"ok", "noChange"} =>
                             runner[d].at = "over" /\ runner[d].result = migrating'[d].result
    BY DEF SidesInv
  <2>1. CASE d = c
    BY <1>2, <1>3, <1>6, <1>7, <2>1
  <2>2. CASE d # c
    BY <1>1, <1>2, <1>3, <2>2 DEF SidesInv
  <2> QED
    BY <2>1, <2>2
<1>9. LockHeldInv'
  <2> SUFFICES ASSUME NEW d \in CallNames
               PROVE  database.lock = d <=> /\ runner[d].at \in {"next", "body", "mark"}
                                            /\ connection'[d] = "open"
    BY DEF LockHeldInv
  <2> QED
    BY <1>1, <1>4 DEF LockHeldInv
<1>10. ~forced' => HolderInv' /\ AppliedInv'
  BY <1>1 DEF HolderInv, AppliedInv
<1> QED
  BY <1>5, <1>8, <1>9, <1>10 DEF MigratorInv

LEMMA RunReturnsKeeps ==
    ASSUME MigratorInv, NEW c \in CallNames, RunReturns(c)
    PROVE  MigratorInv'
<1> DEFINE w == [at |-> "over", result |-> MapError(runner[c].result)]
<1>1. /\ migrating[c].at = "waiting" /\ runner[c].at = "over"
      /\ migrating' = [migrating EXCEPT ![c] = w]
      /\ connection' = [connection EXCEPT ![c] = "closed"]
      /\ UNCHANGED <<runner, stopping, database, forced>>
  BY DEF RunReturns
<1>2. MigratorTypes /\ runner[c].result # "stopped"
  BY <1>1 DEF MigratorInv, SidesInv
<1>3. MapError(runner[c].result) = runner[c].result
  BY <1>2 DEF MapError
<1>4. w \in MigratingStates /\ w.at = "over" /\ w.result = runner[c].result
  BY <1>2, <1>3 DEF MigratorTypes, RunnerStates, MigratingStates
<1> HIDE DEF w
<1> QED
  BY <1>1, <1>4, CallerKeeps

LEMMA ContextEndsKeeps ==
    ASSUME MigratorInv, NEW c \in CallNames, ContextEnds(c)
    PROVE  MigratorInv'
<1> DEFINE w == [at |-> "over", result |-> "timeout"]
<1>1. /\ migrating[c].at = "waiting" /\ migrating' = [migrating EXCEPT ![c] = w]
      /\ stopping' = [stopping EXCEPT ![c] = TRUE]
      /\ UNCHANGED <<runner, connection, database, forced>>
  BY DEF ContextEnds
<1>2. w \in MigratingStates /\ w.at = "over" /\ w.result = "timeout"
  BY DEF MigratingStates
<1> HIDE DEF w
<1> QED
  BY <1>1, <1>2, CallerKeeps

LEMMA CloseRunnerKeeps ==
    ASSUME MigratorInv, NEW c \in CallNames, CloseRunner(c)
    PROVE  MigratorInv'
<1>1. /\ migrating[c].result = "timeout"
      /\ connection' = [connection EXCEPT ![c] = "closed"]
      /\ UNCHANGED <<migrating, runner, stopping, forced>>
      /\ MigratorTypes /\ SidesInv /\ LockHeldInv /\ Unlocked \notin CallNames
      /\ ~forced => HolderInv /\ AppliedInv
  BY MigratorAssumption DEF CloseRunner, MigratorInv, MigratorAssumption, CallNames
<1>2. database' = [version |-> database.version, dirty |-> database.dirty,
                   applied |-> database.applied,
                   lock |-> IF database.lock = c THEN Unlocked ELSE database.lock]
  BY <1>1 DEF CloseRunner, MigratorTypes, Databases
<1>3. /\ connection' \in [CallNames -> {"none", "open", "closed"}]
      /\ connection'[c] = "closed"
      /\ \A d \in CallNames : d # c => connection'[d] = connection[d]
  BY <1>1 DEF MigratorTypes
<1>4. MigratorTypes'
  BY <1>1, <1>2, <1>3 DEF MigratorTypes, Databases
<1>5. SidesInv'
  BY <1>1 DEF SidesInv
<1>6. LockHeldInv'
  BY <1>1, <1>2, <1>3 DEF LockHeldInv
<1>7. ~forced' => HolderInv' /\ AppliedInv'
  <2>1. ~forced => HolderInv'
    BY <1>1, <1>2 DEF HolderInv
  <2>2. ~forced => AppliedInv'
    BY <1>1, <1>2 DEF AppliedInv
  <2> QED
    BY <1>1, <2>1, <2>2
<1> QED
  BY <1>4, <1>5, <1>6, <1>7 DEF MigratorInv

LEMMA MigratorNextKeeps ==
    ASSUME MigratorInv, MigratorNext
    PROVE  MigratorInv'
<1>1. PICK c \in CallNames : CallStep(c)
  BY DEF MigratorNext
<1>2. CASE \E opens \in BOOLEAN : RunMigration(c, opens)
  BY <1>2, RunMigrationKeeps
<1>3. CASE \E v \in 0 .. Migrations : ForceVersion(c, v)
  BY <1>3, ForceKeeps
<1>4. CASE Lock(c) \/ RunnerFails(c) \/ RunnerStops(c) \/ RunnerEnds(c)
  BY <1>4, LockKeeps, RunnerFailsKeeps, RunnerStopsKeeps, RunnerEndsKeeps
<1>5. CASE SetDirty(c) \/ RunBody(c) \/ SetClean(c)
  BY <1>5, SetDirtyKeeps, RunBodyKeeps, SetCleanKeeps
<1>6. CASE RunReturns(c) \/ ContextEnds(c) \/ CloseRunner(c)
  BY <1>6, RunReturnsKeeps, ContextEndsKeeps, CloseRunnerKeeps
<1> QED
  BY <1>1, <1>2, <1>3, <1>4, <1>5, <1>6 DEF CallStep

LEMMA MigratorRests ==
    ASSUME MigratorInv, UNCHANGED migratorVars
    PROVE  MigratorInv'
  BY DEF MigratorInv, MigratorTypes, SidesInv, LockHeldInv, HolderInv, AppliedInv, migratorVars

LEMMA MigrationTrue ==
    ASSUME MigratorInv
    PROVE  MigrationIsTrue
  BY DEF MigratorInv, SidesInv, LockHeldInv, AppliedInv, MigrationIsTrue
-----------------------------------------------------------------------------
(* The telemetry of a message: its spans, and what was counted.            *)
SpanRecords == [op : {"publish", "consume", "handle"}, parent : Nat,
                state : {"open", "ok", "error", "bare"}]

Legs == [at : {"publish", "publishing", "wire", "consume", "retry", "handle", "over"},
         delivered : Nat, run : Nat, tries : Nat, failed : BOOLEAN, again : BOOLEAN]

ErrorTypes == {"none", "publish_failed", "timeout", "canceled", "client_closed", "unknown"}

Happened == [sent : Nat, refused : Nat, cause : Causes, errorType : ErrorTypes,
             processed : Nat, succeeded : Nat, retried : Nat, deadLettered : Nat, ran : Nat]

TraceTypes ==
    /\ journey \in Journeys /\ leg \in Legs /\ carried \in Nat
    /\ spans \in Seq(SpanRecords) /\ meters \in [MeterNames -> Nat] /\ facts \in Happened

NoneOpen == \A i \in 1 .. Len(spans) : spans[i].state # "open"

Consuming(i) ==
    /\ i \in 1 .. Len(spans) /\ spans[i].op = "consume" /\ spans[i].state = "open"
    /\ \A j \in 1 .. Len(spans) :
           j # i /\ spans[j].state = "open" =>
               /\ leg.at = "handle" /\ HandlersTraced /\ j = Len(spans)
               /\ spans[j].op = "handle" /\ spans[j].parent = i

(* Which spans are open, by where the message is: those of whoever has it. *)
LegInv ==
    /\ leg.at = "publish" => Len(spans) = 0
    /\ leg.at = "publishing" =>
           IF journey.publisher
           THEN Len(spans) = 1 /\ spans[1].state = "open" /\ spans[1].op = "publish"
           ELSE Len(spans) = 0
    /\ leg.at \in {"wire", "over"} => NoneOpen
    /\ leg.at \in {"consume", "retry", "handle"} =>
           IF journey.consumer THEN \E i \in 1 .. Len(spans) : Consuming(i) ELSE NoneOpen
    /\ leg.at = "handle" /\ HandlersTraced =>
           /\ spans[Len(spans)].state = "open" /\ spans[Len(spans)].op = "handle"
    /\ leg.at = "retry" => TriedInProcess

TreeInv ==
    /\ leg.at \notin {"publish", "over"} =>
           (carried # 0) = (journey.publisher /\ journey.propagator)
    /\ \A i \in 1 .. Len(spans) :
           /\ spans[i].op = "consume" =>
                  (spans[i].parent # 0) = (journey.publisher /\ journey.propagator)
           /\ spans[i].op = "handle" =>
                  /\ spans[i].parent \in 1 .. Len(spans)
                  /\ spans[spans[i].parent].op = "consume"

CountInv ==
    /\ journey.publisher => PublishIsTold
    /\ journey.consumer => ConsumptionIsTold
    /\ meters["published"] + meters["publishErrors"] = meters["publishDuration"]

RanInv == HandlersTraced => Cardinality(OfOp("handle")) = facts.ran

CarriedInv == leg.at = "publish" => carried = 0

TraceInv == CarriedInv /\ TraceTypes /\ LegInv /\ TreeInv /\ CountInv /\ RanInv

LEMMA TraceStarts ==
    ASSUME NEW j \in Journeys, JourneyStart(j)
    PROVE  TraceInv
<1>1. /\ journey \in Journeys /\ carried = 0 /\ spans = << >>
      /\ leg = [at |-> "publish", delivered |-> 0, run |-> 0, tries |-> 0,
                failed |-> FALSE, again |-> FALSE]
      /\ meters = [m \in MeterNames |-> 0]
      /\ facts = [sent |-> 0, refused |-> 0, cause |-> "none", errorType |-> "none",
                  processed |-> 0, succeeded |-> 0, retried |-> 0, deadLettered |-> 0,
                  ran |-> 0]
  BY DEF JourneyStart
<1>2. spans \in Seq(SpanRecords) /\ Len(spans) = 0
  BY <1>1
<1>3. TraceTypes
  <2>1. leg \in Legs /\ facts \in Happened
    BY <1>1 DEF Legs, Happened, ErrorTypes, Causes
  <2> QED
    BY <1>1, <1>2, <2>1 DEF TraceTypes
<1>4. LegInv /\ TreeInv
  BY <1>1, <1>2 DEF LegInv, TreeInv
<1>5. CountInv
  BY <1>1 DEF CountInv, PublishIsTold, ConsumptionIsTold, MeterNames
<1>6. RanInv
  <2>1. OfOp("handle") = {}
    BY <1>2 DEF OfOp
  <2> QED
    BY <1>1, <2>1, FS_EmptySet DEF RanInv
<1> QED
  BY <1>1, <1>3, <1>4, <1>5, <1>6 DEF TraceInv, CarriedInv

(* A span is started: it is the last.                                      *)
LEMMA SpanAdded ==
    ASSUME TraceTypes, NEW w \in SpanRecords, spans' = Append(spans, w)
    PROVE  /\ spans' \in Seq(SpanRecords) /\ Len(spans) \in Nat /\ Len(spans') = Len(spans) + 1
           /\ spans'[Len(spans) + 1] = w
           /\ \A i \in 1 .. Len(spans) : spans'[i] = spans[i]
<1>1. spans \in Seq(SpanRecords)
  BY DEF TraceTypes
<1> QED
  BY <1>1, AppendProperties

LEMMA SpanClosed ==
    ASSUME TraceTypes, NEW n \in 1 .. Len(spans), NEW state \in {"ok", "error", "bare"},
           spans' = EndSpan(n, state)
    PROVE  /\ spans' \in Seq(SpanRecords) /\ Len(spans') = Len(spans)
           /\ \A i \in 1 .. Len(spans) :
                  spans'[i].op = spans[i].op /\ spans'[i].parent = spans[i].parent
           /\ spans'[n].state # "open"
           /\ \A i \in 1 .. Len(spans) : i # n => spans'[i].state = spans[i].state
<1> DEFINE w == SpanEnded(spans[n], state)
<1>1. spans \in Seq(SpanRecords) /\ spans[n] \in SpanRecords
  BY DEF TraceTypes
<1>2. /\ w \in SpanRecords /\ w.op = spans[n].op /\ w.parent = spans[n].parent
      /\ w.state # "open"
  BY <1>1 DEF SpanEnded, SpanRecords
<1>3. spans' = [spans EXCEPT ![n] = w]
  BY DEF EndSpan
<1> HIDE DEF w
<1>4. /\ spans' \in Seq(SpanRecords) /\ Len(spans') = Len(spans)
      /\ \A i \in 1 .. Len(spans) : spans'[i] = IF i = n THEN w ELSE spans[i]
  BY <1>1, <1>2, <1>3, ExceptSeq
<1> QED
  BY <1>2, <1>4

(* The innermost open span is the one after which none is open.            *)
LEMMA CurrentIs ==
    ASSUME TraceTypes, NEW n \in 1 .. Len(spans), spans[n].state = "open",
           \A k \in 1 .. Len(spans) : k > n => spans[k].state # "open"
    PROVE  Current = n
<1>1. Len(spans) \in Nat
  BY DEF TraceTypes
<1>2. \A k \in n + 1 .. Len(spans) : spans[k].state # "open"
  BY <1>1
<1>3. ASSUME NEW i \in 1 .. Len(spans), spans[i].state = "open",
             \A k \in i + 1 .. Len(spans) : spans[k].state # "open"
      PROVE  i = n
  <2>1. ~(i < n)
    <3>1. i < n => n \in i + 1 .. Len(spans)
      BY <1>1
    <3> QED
      BY <1>3, <3>1
  <2>2. ~(i > n)
    BY <1>3
  <2> QED
    BY <1>1, <2>1, <2>2
<1> QED
  BY <1>2, <1>3 DEF Current

LEMMA Counted ==
    ASSUME TraceTypes, NEW names, meters' = Count(names)
    PROVE  /\ meters' \in [MeterNames -> Nat]
           /\ \A m \in MeterNames : meters'[m] = meters[m] + (IF m \in names THEN 1 ELSE 0)
  BY DEF TraceTypes, Count

(* The spans there were stay where they were, under whom they were.        *)
LEMMA TreeKeeps ==
    ASSUME TraceTypes, TreeInv, UNCHANGED <<journey, carried>>, leg.at \notin {"publish", "over"},
           spans' \in Seq(SpanRecords), Len(spans') = Len(spans),
           \A i \in 1 .. Len(spans) :
               spans'[i].op = spans[i].op /\ spans'[i].parent = spans[i].parent
    PROVE  TreeInv' /\ OfOp("handle")' = OfOp("handle")
<1>1. TreeInv'
  BY DEF TreeInv
<1>2. OfOp("handle")' = OfOp("handle")
  BY DEF OfOp
<1> QED
  BY <1>1, <1>2

LEMMA InjectKeeps ==
    ASSUME TraceInv, InjectTraceContext
    PROVE  TraceInv'
<1>1. /\ TraceTypes /\ LegInv /\ TreeInv /\ CountInv /\ RanInv
      /\ leg.at = "publish" /\ UNCHANGED <<journey, meters, facts>>
  BY DEF TraceInv, InjectTraceContext
<1>2. Len(spans) = 0 /\ OfOp("handle") = {} /\ journey.publisher \in BOOLEAN
      /\ journey.propagator \in BOOLEAN
  <2>1. Len(spans) = 0
    BY <1>1 DEF LegInv
  <2> QED
    BY <1>1, <2>1, MessageTraceAssumption DEF OfOp, TraceTypes, MessageTraceAssumption
<1>3. CountInv'
  BY <1>1 DEF CountInv, PublishIsTold, ConsumptionIsTold, Kafka
<1>4. CASE ~journey.publisher
  <2>1. leg' = [leg EXCEPT !.at = "publishing"] /\ UNCHANGED <<carried, spans>>
    BY <1>4 DEF InjectTraceContext
  <2>2. leg' \in Legs /\ leg'.at = "publishing"
    BY <1>1, <2>1 DEF TraceTypes, Legs
  <2>3. TraceTypes'
    BY <1>1, <2>1, <2>2 DEF TraceTypes
  <2>4. LegInv'
    BY <1>1, <1>2, <1>4, <2>1, <2>2 DEF LegInv
  <2>5. carried = 0
    BY <1>1 DEF TraceInv, CarriedInv
  <2>6. TreeInv'
    BY <1>1, <1>2, <1>4, <2>1, <2>2, <2>5 DEF TreeInv
  <2>7. RanInv'
    BY <1>1, <2>1 DEF RanInv, OfOp, HandlersTraced, TriedInProcess, Kafka
  <2> QED
    BY <1>3, <2>1, <2>2, <2>3, <2>4, <2>5, <2>6, <2>7 DEF TraceInv, CarriedInv
<1>5. ASSUME NEW state \in {"open", "bare"}, journey.publisher,
             spans' = Append(spans, [op |-> "publish", parent |-> 0, state |-> state]),
             carried' \in {0, 1}, leg' = [leg EXCEPT !.at = leg'.at],
             \/ leg'.at = "over" /\ state = "bare"
             \/ /\ leg'.at = "publishing" /\ state = "open"
                /\ (carried' # 0) = journey.propagator
      PROVE  TraceInv'
  <2> DEFINE w == [op |-> "publish", parent |-> 0, state |-> state]
  <2>1. w \in SpanRecords /\ w.op = "publish" /\ w.state = state
    BY DEF SpanRecords
  <2>2. spans' = Append(spans, w)
    BY <1>5
  <2> HIDE DEF w
  <2>3. spans' \in Seq(SpanRecords) /\ Len(spans') = 1 /\ spans'[1] = w
    BY <1>1, <1>2, <2>1, <2>2, SpanAdded
  <2>4. leg' \in Legs
    BY <1>1, <1>5 DEF TraceTypes, Legs
  <2>5. TraceTypes'
    BY <1>1, <1>5, <2>3, <2>4 DEF TraceTypes
  <2>6. \A i \in 1 .. Len(spans') : spans'[i] = w
    BY <2>3
  <2>7. LegInv'
    BY <1>1, <1>5, <2>1, <2>3, <2>6 DEF LegInv, NoneOpen
  <2>8. TreeInv'
    BY <1>1, <1>5, <2>1, <2>6 DEF TreeInv
  <2>9. OfOp("handle")' = {}
    BY <2>1, <2>6 DEF OfOp
  <2>10. RanInv'
    BY <1>1, <1>2, <2>9 DEF RanInv, HandlersTraced, TriedInProcess, Kafka
  <2> QED
    BY <1>3, <1>5, <2>5, <2>7, <2>8, <2>10 DEF TraceInv, CarriedInv
<1>6. CASE journey.publisher /\ Kafka /\ journey.propagator /\ ~journey.headers
  <2>1. /\ leg' = [leg EXCEPT !.at = "over"] /\ carried' = carried
        /\ spans' = Append(spans, [op |-> "publish", parent |-> 0, state |-> "bare"])
    BY <1>6 DEF InjectTraceContext
  <2>2. leg'.at = "over" /\ carried' \in {0, 1}
    BY <1>1, <2>1 DEF TraceTypes, Legs, TraceInv, CarriedInv
  <2> QED
    BY <1>5, <1>6, <2>1, <2>2
<1>7. CASE journey.publisher /\ ~(Kafka /\ journey.propagator /\ ~journey.headers)
  <2>1. /\ leg' = [leg EXCEPT !.at = "publishing"]
        /\ carried' = (IF journey.propagator THEN Len(spans) + 1 ELSE 0)
        /\ spans' = Append(spans, [op |-> "publish", parent |-> 0, state |-> "open"])
    BY <1>7 DEF InjectTraceContext, StartSpan
  <2>2. leg'.at = "publishing" /\ carried' \in {0, 1} /\ (carried' # 0) = journey.propagator
    BY <1>1, <1>2, <2>1 DEF TraceTypes, Legs
  <2> QED
    BY <1>5, <1>7, <2>1, <2>2
<1> QED
  BY <1>4, <1>6, <1>7

(* What a cause is counted under, at either broker.                        *)
LEMMA CauseTold ==
    ASSUME NEW cause \in Causes
    PROVE  LET label == ClassifyError(Seen(cause)) IN
           /\ label \in ErrorTypes
           /\ (label = "none") = (cause = "none")
           /\ label = "timeout" => cause = "deadline"
           /\ label = "canceled" => cause = "canceled"
           /\ ~Kafka => /\ cause = "deadline" => label = "timeout"
                        /\ cause = "canceled" => label = "canceled"
                        /\ cause = "clientClosed" => label = "client_closed"
<1>1. CASE Kafka /\ cause # "none"
  <2>1. Seen(cause) = "publishFailed"
    BY <1>1 DEF Seen
  <2>2. ClassifyError("publishFailed") = "publish_failed"
    BY DEF ClassifyError
  <2> QED
    BY <1>1, <2>1, <2>2 DEF ErrorTypes
<1>2. CASE ~(Kafka /\ cause # "none")
  <2>1. Seen(cause) = cause
    BY <1>2 DEF Seen
  <2>2. CASE cause \in {"none", "deadline", "canceled", "clientClosed"}
    BY <2>1, <2>2 DEF ClassifyError, ErrorTypes
  <2>3. CASE cause \notin {"none", "deadline", "canceled", "clientClosed"}
    <3>1. cause # "publishFailed"
      BY DEF Causes
    <3>2. ClassifyError(cause) = "unknown"
      BY <2>3, <3>1 DEF ClassifyError
    <3> QED
      BY <2>1, <2>3, <3>2 DEF ErrorTypes
  <2> QED
    BY <2>2, <2>3
<1> QED
  BY <1>1, <1>2

LEMMA PublishReturnedKeeps ==
    ASSUME TraceInv, NEW cause \in Causes, NEW arrives \in BOOLEAN,
           PublishReturned(cause, arrives)
    PROVE  TraceInv'
<1> DEFINE class == ClassifyError(Seen(cause))
           label == IF journey.publisher THEN class ELSE "none"
<1>1. /\ TraceTypes /\ LegInv /\ TreeInv /\ CountInv /\ RanInv
      /\ leg.at = "publishing" /\ UNCHANGED <<journey, carried>>
      /\ leg' = [leg EXCEPT !.at = IF arrives THEN "wire" ELSE "over"]
      /\ facts' = [facts EXCEPT !.sent = @ + (IF cause = "none" THEN 1 ELSE 0),
                                !.refused = @ + (IF cause = "none" THEN 0 ELSE 1),
                                !.cause = cause, !.errorType = label]
  BY DEF TraceInv, PublishReturned
<1>2. /\ class \in ErrorTypes /\ (class = "none") = (cause = "none")
      /\ class = "timeout" => cause = "deadline"
      /\ class = "canceled" => cause = "canceled"
      /\ ~Kafka => /\ cause = "deadline" => class = "timeout"
                   /\ cause = "canceled" => class = "canceled"
                   /\ cause = "clientClosed" => class = "client_closed"
  BY CauseTold
<1> HIDE DEF class
<1>label. label \in ErrorTypes /\ (journey.publisher => label = class)
  BY <1>2 DEF ErrorTypes
<1> HIDE DEF label
<1>3. leg' \in Legs /\ leg'.at \in {"wire", "over"}
  BY <1>1 DEF TraceTypes, Legs
<1>4. facts' = [sent |-> facts.sent + (IF cause = "none" THEN 1 ELSE 0),
                refused |-> facts.refused + (IF cause = "none" THEN 0 ELSE 1),
                cause |-> cause, errorType |-> label, processed |-> facts.processed,
                succeeded |-> facts.succeeded, retried |-> facts.retried,
                deadLettered |-> facts.deadLettered, ran |-> facts.ran]
  BY <1>1 DEF TraceTypes, Happened
<1>5. facts.sent \in Nat /\ facts.refused \in Nat
  BY <1>1 DEF TraceTypes, Happened
<1>6. facts' \in Happened
  BY <1>1, <1>label, <1>4, <1>5 DEF TraceTypes, Happened
<1>7. CASE journey.publisher
  <2> DEFINE ended == IF cause = "none" THEN "ok" ELSE "error"
             names == {"publishDuration", IF cause = "none" THEN "published" ELSE "publishErrors"}
  <2>1. spans' = EndSpan(Current, ended) /\ meters' = Count(names)
    BY <1>7 DEF PublishReturned
  <2>2. Len(spans) = 1 /\ spans[1].state = "open" /\ spans[1].op = "publish"
    BY <1>1, <1>7 DEF LegInv
  <2>3. Current = 1
    BY <1>1, <2>2, CurrentIs
  <2>4. ended \in {"ok", "error", "bare"}
    OBVIOUS
  <2> HIDE DEF ended
  <2>5. /\ spans' \in Seq(SpanRecords) /\ Len(spans') = Len(spans)
        /\ \A i \in 1 .. Len(spans) :
               spans'[i].op = spans[i].op /\ spans'[i].parent = spans[i].parent
        /\ spans'[1].state # "open"
    BY <1>1, <2>1, <2>2, <2>3, <2>4, SpanClosed
  <2>6. /\ meters' \in [MeterNames -> Nat]
        /\ \A m \in MeterNames : meters'[m] = meters[m] + (IF m \in names THEN 1 ELSE 0)
    <3> HIDE DEF names
    <3> QED
      BY <1>1, <2>1, Counted
  <2>7. TraceTypes'
    BY <1>1, <1>3, <1>6, <2>5, <2>6 DEF TraceTypes
  <2>8. LegInv' /\ CarriedInv'
    <3>1. \A i \in 1 .. Len(spans') : i = 1
      BY <2>2, <2>5
    <3>2. NoneOpen'
      BY <2>5, <3>1 DEF NoneOpen
    <3> QED
      BY <1>3, <3>2 DEF LegInv, CarriedInv
  <2>9. TreeInv' /\ OfOp("handle")' = OfOp("handle")
    BY <1>1, <2>5, TreeKeeps
  <2>10. RanInv'
    BY <1>1, <1>4, <2>9 DEF RanInv, HandlersTraced, TriedInProcess, Kafka
  <2>11. /\ meters'["retries"] = meters["retries"] /\ meters'["dlq"] = meters["dlq"]
         /\ meters'["consumed"] = meters["consumed"]
         /\ meters'["publishDuration"] = meters["publishDuration"] + 1
         /\ meters'["published"] = meters["published"] + (IF cause = "none" THEN 1 ELSE 0)
         /\ meters'["publishErrors"] = meters["publishErrors"] + (IF cause = "none" THEN 0 ELSE 1)
    BY <1>1, <2>6 DEF MeterNames, TraceTypes
  <2>12. /\ meters["published"] \in Nat /\ meters["publishErrors"] \in Nat
         /\ meters["publishDuration"] \in Nat
    BY <1>1 DEF MeterNames, TraceTypes
  <2>13. PublishIsTold'
    <3>1. PublishIsTold
      BY <1>1, <1>7 DEF CountInv
    <3>2. /\ facts'.cause = cause /\ facts'.errorType = class
          /\ facts'.sent = facts.sent + (IF cause = "none" THEN 1 ELSE 0)
          /\ facts'.refused = facts.refused + (IF cause = "none" THEN 0 ELSE 1)
      BY <1>4, <1>7, <1>label
    <3> QED
      BY <1>1, <1>2, <1>5, <2>11, <2>12, <3>1, <3>2 DEF PublishIsTold, Kafka
  <2>14. journey.consumer => ConsumptionIsTold'
    <3>1. /\ facts'.retried = facts.retried /\ facts'.deadLettered = facts.deadLettered
          /\ facts'.succeeded = facts.succeeded /\ facts'.processed = facts.processed
      BY <1>4
    <3> QED
      BY <1>1, <2>11, <3>1 DEF CountInv, ConsumptionIsTold, Kafka
  <2>15. CountInv'
    BY <1>1, <2>11, <2>12, <2>13, <2>14 DEF CountInv
  <2> QED
    BY <2>7, <2>8, <2>9, <2>10, <2>15 DEF TraceInv
<1>8. CASE ~journey.publisher
  <2>1. UNCHANGED <<spans, meters>>
    BY <1>8 DEF PublishReturned
  <2>2. TraceTypes'
    BY <1>1, <1>3, <1>6, <2>1 DEF TraceTypes
  <2>3. Len(spans) = 0
    BY <1>1, <1>8 DEF LegInv
  <2>4. LegInv' /\ CarriedInv'
    BY <1>3, <2>1, <2>3 DEF LegInv, CarriedInv, NoneOpen
  <2>5. TreeInv'
    BY <1>1, <2>1 DEF TreeInv
  <2>6. RanInv'
    BY <1>1, <1>4, <2>1 DEF RanInv, HandlersTraced, TriedInProcess, Kafka, OfOp
  <2>7. CountInv'
    BY <1>1, <1>4, <1>8, <2>1 DEF CountInv, ConsumptionIsTold, Kafka
  <2> QED
    BY <2>2, <2>4, <2>5, <2>6, <2>7 DEF TraceInv
<1> QED
  BY <1>7, <1>8

LEMMA ExtractKeeps ==
    ASSUME TraceInv, ExtractTraceContext
    PROVE  TraceInv'
<1>1. /\ TraceTypes /\ LegInv /\ TreeInv /\ CountInv /\ RanInv
      /\ leg.at = "wire" /\ UNCHANGED <<journey, carried, meters, facts>>
      /\ leg' = [leg EXCEPT !.at = "consume", !.delivered = @ + 1, !.run = 0, !.tries = 0,
                            !.failed = FALSE, !.again = FALSE]
  BY DEF TraceInv, ExtractTraceContext
<1>2. leg' \in Legs /\ leg'.at = "consume"
  <2>1. leg \in Legs /\ leg.delivered + 1 \in Nat
    BY <1>1 DEF TraceTypes, Legs
  <2>2. leg' = [at |-> "consume", delivered |-> leg.delivered + 1, run |-> 0, tries |-> 0,
                failed |-> FALSE, again |-> FALSE]
    BY <1>1, <2>1 DEF Legs
  <2> QED
    BY <2>1, <2>2 DEF Legs
<1>3. CountInv' /\ CarriedInv'
  BY <1>1, <1>2 DEF CountInv, PublishIsTold, ConsumptionIsTold, CarriedInv, Kafka
<1>4. NoneOpen
  BY <1>1 DEF LegInv
<1>5. CASE ~journey.consumer
  <2>1. spans' = spans
    BY <1>5 DEF ExtractTraceContext
  <2>2. TraceTypes' /\ LegInv'
    BY <1>1, <1>2, <1>4, <1>5, <2>1 DEF TraceTypes, LegInv, NoneOpen
  <2>3. TreeInv' /\ RanInv'
    BY <1>1, <1>2, <2>1 DEF TreeInv, RanInv, OfOp, HandlersTraced, TriedInProcess, Kafka
  <2> QED
    BY <1>3, <2>2, <2>3 DEF TraceInv
<1>6. CASE journey.consumer
  <2> DEFINE from == IF journey.propagator THEN carried ELSE 0
             w == [op |-> "consume", parent |-> from, state |-> "open"]
  <2>1. spans' = Append(spans, w)
    BY <1>6 DEF ExtractTraceContext, StartSpan
  <2>2. (from # 0) = (journey.publisher /\ journey.propagator) /\ from \in Nat
    <3>1. (carried # 0) = (journey.publisher /\ journey.propagator) /\ carried \in Nat
      BY <1>1 DEF TreeInv, TraceTypes
    <3> QED
      BY <3>1
  <2> HIDE DEF from
  <2>3. w \in SpanRecords /\ w.op = "consume" /\ w.parent = from /\ w.state = "open"
    BY <2>2 DEF SpanRecords
  <2> HIDE DEF w
  <2>4. /\ spans' \in Seq(SpanRecords) /\ Len(spans) \in Nat /\ Len(spans') = Len(spans) + 1
        /\ spans'[Len(spans) + 1] = w
        /\ \A i \in 1 .. Len(spans) : spans'[i] = spans[i]
    BY <1>1, <2>1, <2>3, SpanAdded
  <2>5. TraceTypes'
    BY <1>1, <1>2, <2>4 DEF TraceTypes
  <2>6. \A i \in 1 .. Len(spans') : i = Len(spans) + 1 \/ i \in 1 .. Len(spans)
    BY <2>4
  <2>7. LegInv'
    <3>1. ASSUME NEW n, n = Len(spans) + 1
          PROVE  n \in 1 .. Len(spans') /\ Consuming(n)'
      BY <1>4, <2>3, <2>4, <2>6, <3>1 DEF Consuming, NoneOpen
    <3> QED
      BY <1>1, <1>2, <1>6, <3>1 DEF LegInv
  <2>8. TreeInv'
    <3>1. (carried' # 0) = (journey'.publisher /\ journey'.propagator)
      BY <1>1 DEF TreeInv
    <3>2. ASSUME NEW i \in 1 .. Len(spans')
          PROVE  /\ spans'[i].op = "consume" =>
                        (spans'[i].parent # 0) = (journey'.publisher /\ journey'.propagator)
                 /\ spans'[i].op = "handle" =>
                        /\ spans'[i].parent \in 1 .. Len(spans')
                        /\ spans'[spans'[i].parent].op = "consume"
      <4>1. CASE i = Len(spans) + 1
        BY <1>1, <2>2, <2>3, <2>4, <4>1
      <4>2. CASE i \in 1 .. Len(spans)
        BY <1>1, <2>4, <4>2 DEF TreeInv
      <4> QED
        BY <2>6, <4>1, <4>2
    <3> QED
      BY <3>1, <3>2 DEF TreeInv
  <2>9. OfOp("handle")' = OfOp("handle")
    BY <2>3, <2>4, <2>6 DEF OfOp
  <2>10. RanInv'
    BY <1>1, <2>9 DEF RanInv, HandlersTraced, TriedInProcess, Kafka
  <2> QED
    BY <1>3, <2>5, <2>7, <2>8, <2>10 DEF TraceInv
<1>7. journey.consumer \in BOOLEAN
  BY <1>1, MessageTraceAssumption DEF TraceTypes, MessageTraceAssumption
<1> QED
  BY <1>5, <1>6, <1>7

LEMMA JourneyTyped ==
    ASSUME TraceTypes
    PROVE  /\ journey.consumer \in BOOLEAN /\ journey.dlq \in BOOLEAN
           /\ journey.publisher \in BOOLEAN /\ journey.autoAck \in BOOLEAN
  BY MessageTraceAssumption DEF TraceTypes, MessageTraceAssumption

LEMMA CallHandlerKeeps ==
    ASSUME TraceInv, CallHandler
    PROVE  TraceInv'
<1>1. /\ TraceTypes /\ LegInv /\ TreeInv /\ CountInv /\ RanInv
      /\ leg.at = "consume" /\ UNCHANGED <<journey, carried, meters>>
      /\ leg' = [leg EXCEPT !.at = "handle", !.run = @ + 1]
      /\ facts' = [facts EXCEPT !.ran = @ + 1]
  BY DEF TraceInv, CallHandler
<1>2. leg' \in Legs /\ leg'.at = "handle"
  <2>1. leg \in Legs /\ leg.run + 1 \in Nat
    BY <1>1 DEF TraceTypes, Legs
  <2>2. leg' = [at |-> "handle", delivered |-> leg.delivered, run |-> leg.run + 1,
                tries |-> leg.tries, failed |-> leg.failed, again |-> leg.again]
    BY <1>1, <2>1 DEF Legs
  <2> QED
    BY <2>1, <2>2 DEF Legs
<1>3. facts' = [sent |-> facts.sent, refused |-> facts.refused, cause |-> facts.cause,
                errorType |-> facts.errorType, processed |-> facts.processed,
                succeeded |-> facts.succeeded, retried |-> facts.retried,
                deadLettered |-> facts.deadLettered, ran |-> facts.ran + 1]
  BY <1>1 DEF TraceTypes, Happened
<1>4. facts' \in Happened /\ facts.ran \in Nat
  <2>1. facts \in Happened /\ facts.ran \in Nat /\ facts.ran + 1 \in Nat
    BY <1>1 DEF TraceTypes, Happened
  <2> QED
    BY <1>3, <2>1, SMTT(30) DEF Happened
<1>5. CountInv' /\ CarriedInv'
  BY <1>1, <1>2, <1>3 DEF CountInv, PublishIsTold, ConsumptionIsTold, CarriedInv, Kafka
<1>6. HandlersTraced' = HandlersTraced
  BY <1>1 DEF HandlersTraced, TriedInProcess, Kafka
<1>7. CASE ~HandlersTraced
  <2>1. spans' = spans
    BY <1>7 DEF CallHandler
  <2>2. TraceTypes' /\ TreeInv'
    BY <1>1, <1>2, <1>4, <2>1 DEF TraceTypes, TreeInv
  <2>3. LegInv'
    <3>1. ASSUME NEW i \in 1 .. Len(spans), Consuming(i)
          PROVE  Consuming(i)'
      BY <1>1, <2>1, <3>1 DEF Consuming
    <3> QED
      BY <1>1, <1>2, <1>6, <1>7, <2>1, <3>1 DEF LegInv, NoneOpen
  <2>4. RanInv'
    BY <1>6, <1>7 DEF RanInv
  <2> QED
    BY <1>5, <2>2, <2>3, <2>4 DEF TraceInv
<1>8. CASE HandlersTraced
  <2>1. journey.consumer
    BY <1>8 DEF HandlersTraced
  <2>2. PICK n \in 1 .. Len(spans) : Consuming(n)
    BY <1>1, <2>1 DEF LegInv
  <2>3. /\ n \in 1 .. Len(spans) /\ spans[n].op = "consume" /\ spans[n].state = "open"
        /\ \A j \in 1 .. Len(spans) : j # n => spans[j].state # "open"
    BY <1>1, <2>2 DEF Consuming
  <2>4. Current = n
    <3>1. Len(spans) \in Nat
      BY <1>1 DEF TraceTypes
    <3> QED
      BY <1>1, <2>3, <3>1, CurrentIs
  <2> DEFINE w == [op |-> "handle", parent |-> n, state |-> "open"]
  <2>5. spans' = Append(spans, w)
    BY <1>8, <2>4 DEF CallHandler, StartSpan
  <2>6. w \in SpanRecords /\ w.op = "handle" /\ w.parent = n /\ w.state = "open"
    BY DEF SpanRecords
  <2> HIDE DEF w
  <2>7. /\ spans' \in Seq(SpanRecords) /\ Len(spans) \in Nat /\ Len(spans') = Len(spans) + 1
        /\ spans'[Len(spans) + 1] = w
        /\ \A i \in 1 .. Len(spans) : spans'[i] = spans[i]
    BY <1>1, <2>5, <2>6, SpanAdded
  <2>8. TraceTypes'
    BY <1>1, <1>2, <1>4, <2>7 DEF TraceTypes
  <2>9. /\ \A i \in 1 .. Len(spans') : i = Len(spans') \/ i \in 1 .. Len(spans)
        /\ n \in 1 .. Len(spans') /\ Len(spans') \in 1 .. Len(spans') /\ n # Len(spans')
        /\ spans'[n] = spans[n] /\ spans'[Len(spans')] = w
    BY <2>3, <2>7
  <2>10. LegInv'
    <3>1. Consuming(n)'
      BY <1>2, <1>6, <1>8, <2>3, <2>6, <2>7, <2>9 DEF Consuming
    <3> QED
      BY <1>1, <1>2, <2>1, <2>6, <2>9, <3>1 DEF LegInv
  <2>11. TreeInv'
    <3>1. (carried' # 0) = (journey'.publisher /\ journey'.propagator)
      BY <1>1 DEF TreeInv
    <3>2. ASSUME NEW i \in 1 .. Len(spans')
          PROVE  /\ spans'[i].op = "consume" =>
                        (spans'[i].parent # 0) = (journey'.publisher /\ journey'.propagator)
                 /\ spans'[i].op = "handle" =>
                        /\ spans'[i].parent \in 1 .. Len(spans')
                        /\ spans'[spans'[i].parent].op = "consume"
      <4>1. CASE i = Len(spans')
        BY <2>3, <2>6, <2>9, <4>1
      <4>2. CASE i \in 1 .. Len(spans)
        BY <1>1, <2>7, <4>2 DEF TreeInv
      <4> QED
        BY <2>9, <4>1, <4>2
    <3> QED
      BY <3>1, <3>2 DEF TreeInv
  <2>12. RanInv'
    <3>1. OfOp("handle")' = OfOp("handle") \cup {Len(spans) + 1}
      <4>1. ASSUME NEW i
            PROVE  i \in OfOp("handle")' <=> i \in OfOp("handle") \/ i = Len(spans) + 1
        BY <2>6, <2>7 DEF OfOp
      <4> QED
        BY <4>1
    <3>2. Len(spans) + 1 \notin OfOp("handle") /\ IsFiniteSet(OfOp("handle"))
      <4>1. OfOp("handle") \in SUBSET (1 .. Len(spans)) /\ IsFiniteSet(1 .. Len(spans))
        BY <2>7, FS_Interval DEF OfOp
      <4> QED
        BY <2>7, <4>1, FS_Subset
    <3>3. Cardinality(OfOp("handle")') = Cardinality(OfOp("handle")) + 1
      BY <3>1, <3>2, FS_AddElement
    <3>4. Cardinality(OfOp("handle")) = facts.ran
      BY <1>1, <1>8 DEF RanInv
    <3> QED
      BY <1>3, <3>3, <3>4 DEF RanInv
  <2> QED
    BY <1>5, <2>8, <2>10, <2>11, <2>12 DEF TraceInv
<1> QED
  BY <1>7, <1>8

(* Between the tries of a handler nothing is traced and nothing counted.   *)
LEMMA TriesKeep ==
    ASSUME TraceInv, TriedInProcess, UNCHANGED <<journey, carried, spans, meters>>,
           leg.at \in {"consume", "retry"}, leg' \in Legs,
           leg'.at \in {"consume", "retry", "handle"}, facts' \in Happened,
           facts'.sent = facts.sent, facts'.refused = facts.refused,
           facts'.cause = facts.cause, facts'.errorType = facts.errorType,
           facts'.processed = facts.processed, facts'.succeeded = facts.succeeded,
           facts'.retried >= facts.retried, facts'.deadLettered >= facts.deadLettered
    PROVE  TraceInv'
<1>1. TraceTypes /\ LegInv /\ TreeInv /\ CountInv
  BY DEF TraceInv
<1>2. Kafka /\ Kafka' /\ TriedInProcess' /\ ~HandlersTraced /\ ~HandlersTraced'
  BY DEF TriedInProcess, HandlersTraced, Kafka
<1>3. TraceTypes' /\ TreeInv' /\ CarriedInv' /\ RanInv'
  BY <1>1, <1>2 DEF TraceTypes, TreeInv, CarriedInv, RanInv
<1>4. LegInv'
  <2>1. ASSUME NEW i \in 1 .. Len(spans), Consuming(i)
        PROVE  Consuming(i)'
    BY <1>2, <2>1 DEF Consuming
  <2> QED
    BY <1>1, <1>2, <2>1 DEF LegInv, NoneOpen
<1>5. CountInv'
  <2>1. /\ facts.retried \in Nat /\ facts'.retried \in Nat /\ meters["retries"] \in Nat
        /\ facts.deadLettered \in Nat /\ facts'.deadLettered \in Nat /\ meters["dlq"] \in Nat
    BY <1>1 DEF TraceTypes, Happened, MeterNames
  <2> QED
    BY <1>1, <1>2, <2>1 DEF CountInv, PublishIsTold, ConsumptionIsTold
<1> QED
  BY <1>3, <1>4, <1>5 DEF TraceInv

LEMMA TakeHandlerKeeps ==
    ASSUME TraceInv, TakeHandler
    PROVE  TraceInv'
<1>1. /\ TriedInProcess /\ leg.at = "consume" /\ leg \in Legs /\ facts \in Happened
      /\ UNCHANGED <<journey, carried, spans, meters, facts>>
      /\ leg' = [leg EXCEPT !.at = "retry", !.run = @ + 1, !.tries = 0]
  BY DEF TraceInv, TraceTypes, TakeHandler
<1>2. leg.run + 1 \in Nat
  BY <1>1 DEF Legs
<1>3. leg' = [at |-> "retry", delivered |-> leg.delivered, run |-> leg.run + 1, tries |-> 0,
              failed |-> leg.failed, again |-> leg.again]
  BY <1>1 DEF Legs
<1>4. leg' \in Legs /\ leg'.at = "retry"
  BY <1>1, <1>2, <1>3 DEF Legs
<1>5. facts.retried \in Nat /\ facts.deadLettered \in Nat
  BY <1>1 DEF Happened
<1> QED
  BY <1>1, <1>4, <1>5, TriesKeep

LEMMA TryHandlerKeeps ==
    ASSUME TraceInv, TryHandler
    PROVE  TraceInv'
<1> DEFINE more == IF leg.tries > 0 THEN 1 ELSE 0
<1>1. /\ TriedInProcess /\ leg.at = "retry" /\ leg \in Legs /\ facts \in Happened
      /\ UNCHANGED <<journey, carried, spans, meters>>
      /\ leg' = [leg EXCEPT !.at = "handle", !.tries = @ + 1]
      /\ facts' = [facts EXCEPT !.ran = @ + 1, !.retried = @ + more]
  BY DEF TraceInv, TraceTypes, LegInv, TryHandler
<1>2. more \in Nat
  OBVIOUS
<1> HIDE DEF more
<1>3. leg.tries + 1 \in Nat
  BY <1>1 DEF Legs
<1>4. leg' = [at |-> "handle", delivered |-> leg.delivered, run |-> leg.run,
              tries |-> leg.tries + 1, failed |-> leg.failed, again |-> leg.again]
  BY <1>1 DEF Legs
<1>5. leg' \in Legs /\ leg'.at = "handle"
  BY <1>1, <1>3, <1>4 DEF Legs
<1>6. facts' = [sent |-> facts.sent, refused |-> facts.refused, cause |-> facts.cause,
                errorType |-> facts.errorType, processed |-> facts.processed,
                succeeded |-> facts.succeeded, retried |-> facts.retried + more,
                deadLettered |-> facts.deadLettered, ran |-> facts.ran + 1]
  BY <1>1 DEF Happened
<1>7. /\ facts.retried \in Nat /\ facts.retried + more \in Nat /\ facts.ran + 1 \in Nat
      /\ facts.deadLettered \in Nat /\ facts.retried + more >= facts.retried
  BY <1>1, <1>2 DEF Happened
<1>8. facts' \in Happened
  BY <1>1, <1>6, <1>7, SMTT(30) DEF Happened
<1> QED
  BY <1>1, <1>5, <1>6, <1>7, <1>8, TriesKeep

LEMMA RetryCancelledKeeps ==
    ASSUME TraceInv, RetryCancelled
    PROVE  TraceInv'
<1>1. /\ TriedInProcess /\ leg.at = "retry" /\ leg \in Legs /\ facts \in Happened
      /\ UNCHANGED <<journey, carried, spans, meters, facts>> /\ KafkaHandlers \in Nat
      /\ leg' = [leg EXCEPT !.at = "consume", !.run = KafkaHandlers, !.failed = TRUE]
  BY MessageTraceAssumption
     DEF TraceInv, TraceTypes, LegInv, RetryCancelled, MessageTraceAssumption
<1>2. leg' = [at |-> "consume", delivered |-> leg.delivered, run |-> KafkaHandlers,
              tries |-> leg.tries, failed |-> TRUE, again |-> leg.again]
  BY <1>1 DEF Legs
<1>3. leg' \in Legs /\ leg'.at = "consume"
  BY <1>1, <1>2 DEF Legs
<1>4. facts.retried \in Nat /\ facts.deadLettered \in Nat
  BY <1>1 DEF Happened
<1> QED
  BY <1>1, <1>3, <1>4, TriesKeep

LEMMA SendToDLQKeeps ==
    ASSUME TraceInv, NEW taken \in BOOLEAN, SendToDLQ(taken)
    PROVE  TraceInv'
<1> DEFINE more == IF taken THEN 1 ELSE 0
<1>1. /\ TriedInProcess /\ leg.at = "retry" /\ leg \in Legs /\ facts \in Happened
      /\ UNCHANGED <<journey, carried, spans, meters>>
      /\ leg' = [leg EXCEPT !.at = "consume", !.failed = TRUE]
      /\ facts' = [facts EXCEPT !.deadLettered = @ + more]
  BY DEF TraceInv, TraceTypes, LegInv, SendToDLQ
<1>2. more \in Nat
  OBVIOUS
<1> HIDE DEF more
<1>3. leg' = [at |-> "consume", delivered |-> leg.delivered, run |-> leg.run,
              tries |-> leg.tries, failed |-> TRUE, again |-> leg.again]
  BY <1>1 DEF Legs
<1>4. leg' \in Legs /\ leg'.at = "consume"
  BY <1>1, <1>3 DEF Legs
<1>5. facts' = [sent |-> facts.sent, refused |-> facts.refused, cause |-> facts.cause,
                errorType |-> facts.errorType, processed |-> facts.processed,
                succeeded |-> facts.succeeded, retried |-> facts.retried,
                deadLettered |-> facts.deadLettered + more, ran |-> facts.ran]
  BY <1>1 DEF Happened
<1>6. /\ facts.retried \in Nat /\ facts.deadLettered \in Nat
      /\ facts.deadLettered + more \in Nat /\ facts.deadLettered + more >= facts.deadLettered
  BY <1>1, <1>2 DEF Happened
<1>7. facts' \in Happened
  BY <1>1, <1>5, <1>6, SMTT(30) DEF Happened
<1> QED
  BY <1>1, <1>4, <1>5, <1>6, <1>7, TriesKeep

(* The innermost span of a consumption is the handler's while one is under *)
(* way and is traced, else its own.                                        *)
LEMMA CurrentOpen ==
    ASSUME TraceTypes, LegInv, journey.consumer, leg.at \in {"consume", "handle"}
    PROVE  \E n \in 1 .. Len(spans) :
               /\ Consuming(n)
               /\ Current = IF leg.at = "handle" /\ HandlersTraced THEN Len(spans) ELSE n
<1>1. PICK n \in 1 .. Len(spans) : Consuming(n)
  BY DEF LegInv
<1>2. Len(spans) \in Nat
  BY DEF TraceTypes
<1>3. CASE leg.at = "handle" /\ HandlersTraced
  <2>1. Len(spans) \in 1 .. Len(spans) /\ spans[Len(spans)].state = "open"
    BY <1>1, <1>2, <1>3 DEF LegInv
  <2>2. \A k \in 1 .. Len(spans) : ~(k > Len(spans))
    BY <1>2
  <2>3. Current = Len(spans)
    BY <2>1, <2>2, CurrentIs
  <2> QED
    BY <1>1, <1>3, <2>3
<1>4. CASE ~(leg.at = "handle" /\ HandlersTraced)
  <2>1. /\ spans[n].state = "open"
        /\ \A k \in 1 .. Len(spans) : k # n => spans[k].state # "open"
    BY <1>1, <1>4 DEF Consuming
  <2>2. Current = n
    BY <1>2, <2>1, CurrentIs
  <2> QED
    BY <1>1, <1>4, <2>2
<1> QED
  BY <1>3, <1>4

LEMMA HandlerReturnedKeeps ==
    ASSUME TraceInv, NEW ok \in BOOLEAN, HandlerReturned(ok)
    PROVE  TraceInv'
<1> DEFINE retries == ~Kafka /\ ~ok /\ ~journey.autoAck
           again == retries /\ leg.delivered <= TraceRetries
           names == (IF HandlersTraced THEN {"handlerDuration"} ELSE {})
                    \cup (IF journey.consumer /\ again THEN {"retries"} ELSE {})
                    \cup (IF journey.consumer /\ retries /\ ~again THEN {"dlq"} ELSE {})
           ended == IF ok THEN "ok" ELSE "error"
           next == IF TriedInProcess /\ ~ok THEN "retry" ELSE "consume"
           lost == leg.failed \/ (~ok /\ ~TriedInProcess)
<1>1. /\ TraceTypes /\ LegInv /\ TreeInv /\ CountInv /\ RanInv
      /\ leg.at = "handle" /\ UNCHANGED <<journey, carried>>
      /\ leg' = [leg EXCEPT !.at = next, !.failed = lost, !.again = again]
      /\ spans' = (IF HandlersTraced THEN EndSpan(Current, ended) ELSE spans)
      /\ meters' = Count(names)
      /\ facts' = [facts EXCEPT !.retried = @ + (IF again THEN 1 ELSE 0),
                                !.deadLettered = @ + (IF retries /\ ~again THEN 1 ELSE 0)]
  BY DEF TraceInv, HandlerReturned
<1>2. /\ retries \in BOOLEAN /\ again \in BOOLEAN /\ ended \in {"ok", "error", "bare"}
      /\ lost \in BOOLEAN /\ next \in {"retry", "consume"}
      /\ next = "retry" => TriedInProcess
  OBVIOUS
<1>3. /\ \A m \in {"published", "publishErrors", "publishDuration", "consumed"} : m \notin names
      /\ journey.consumer => ("retries" \in names <=> again)
      /\ journey.consumer => ("dlq" \in names <=> retries /\ ~again)
  OBVIOUS
<1> HIDE DEF retries, again, names, ended, next, lost
<1>4. leg' \in Legs /\ leg'.at = next
  <2>1. leg \in Legs
    BY <1>1 DEF TraceTypes
  <2>2. leg' = [at |-> next, delivered |-> leg.delivered, run |-> leg.run,
                tries |-> leg.tries, failed |-> lost, again |-> again]
    BY <1>1, <2>1 DEF Legs
  <2> QED
    BY <1>2, <2>1, <2>2 DEF Legs
<1>5. facts' = [sent |-> facts.sent, refused |-> facts.refused, cause |-> facts.cause,
                errorType |-> facts.errorType, processed |-> facts.processed,
                succeeded |-> facts.succeeded,
                retried |-> facts.retried + (IF again THEN 1 ELSE 0),
                deadLettered |-> facts.deadLettered + (IF retries /\ ~again THEN 1 ELSE 0),
                ran |-> facts.ran]
  BY <1>1 DEF TraceTypes, Happened
<1>6. facts.retried \in Nat /\ facts.deadLettered \in Nat
  BY <1>1 DEF TraceTypes, Happened
<1>7. facts' \in Happened
  BY <1>1, <1>5, <1>6 DEF TraceTypes, Happened
<1>8. /\ meters' \in [MeterNames -> Nat]
      /\ \A m \in MeterNames : meters'[m] = meters[m] + (IF m \in names THEN 1 ELSE 0)
  BY <1>1, Counted
<1>9. CountInv'
  <2>1. /\ meters'["published"] = meters["published"]
        /\ meters'["publishErrors"] = meters["publishErrors"]
        /\ meters'["publishDuration"] = meters["publishDuration"]
        /\ meters'["consumed"] = meters["consumed"]
    BY <1>1, <1>3, <1>8 DEF MeterNames, TraceTypes
  <2>2. /\ journey.consumer => meters'["retries"] = meters["retries"] + (IF again THEN 1 ELSE 0)
        /\ journey.consumer =>
               meters'["dlq"] = meters["dlq"] + (IF retries /\ ~again THEN 1 ELSE 0)
    BY <1>3, <1>8 DEF MeterNames
  <2>3. /\ facts'.retried = facts.retried + (IF again THEN 1 ELSE 0)
        /\ facts'.deadLettered = facts.deadLettered + (IF retries /\ ~again THEN 1 ELSE 0)
        /\ facts'.sent = facts.sent /\ facts'.refused = facts.refused
        /\ facts'.cause = facts.cause /\ facts'.errorType = facts.errorType
        /\ facts'.processed = facts.processed /\ facts'.succeeded = facts.succeeded
    BY <1>5
  <2>4. journey.publisher => PublishIsTold'
    BY <1>1, <2>1, <2>3 DEF CountInv, PublishIsTold, Kafka
  <2>5. journey.consumer => ConsumptionIsTold'
    <3>1. meters["retries"] \in Nat /\ meters["dlq"] \in Nat
      BY <1>1 DEF TraceTypes, MeterNames
    <3> QED
      BY <1>1, <1>6, <2>1, <2>2, <2>3, <3>1 DEF CountInv, ConsumptionIsTold, Kafka
  <2> QED
    BY <1>1, <2>1, <2>4, <2>5 DEF CountInv
<1>10. CarriedInv' /\ HandlersTraced' = HandlersTraced /\ TriedInProcess' = TriedInProcess
  BY <1>1, <1>2, <1>4 DEF CarriedInv, HandlersTraced, TriedInProcess, Kafka
<1>11. CASE ~HandlersTraced
  <2>1. spans' = spans
    BY <1>1, <1>11
  <2>2. TraceTypes' /\ TreeInv'
    BY <1>1, <1>4, <1>7, <1>8, <2>1 DEF TraceTypes, TreeInv
  <2>3. LegInv'
    <3>1. ASSUME NEW i \in 1 .. Len(spans), Consuming(i)
          PROVE  Consuming(i)'
      BY <1>11, <2>1, <3>1 DEF Consuming
    <3> QED
      BY <1>1, <1>2, <1>4, <1>10, <2>1, <3>1 DEF LegInv, NoneOpen
  <2>4. RanInv'
    BY <1>10, <1>11 DEF RanInv
  <2> QED
    BY <1>9, <1>10, <2>2, <2>3, <2>4 DEF TraceInv
<1>12. CASE HandlersTraced
  <2>1. journey.consumer
    BY <1>12 DEF HandlersTraced
  <2>next. next = "consume"
    BY <1>2, <1>12 DEF HandlersTraced
  <2>2. PICK n \in 1 .. Len(spans) : Consuming(n) /\ Current = Len(spans)
    BY <1>1, <1>12, <2>1, CurrentOpen
  <2>3. /\ spans[n].op = "consume" /\ spans[n].state = "open"
        /\ \A j \in 1 .. Len(spans) : j # n /\ spans[j].state = "open" => j = Len(spans)
        /\ spans[Len(spans)].op = "handle" /\ n # Len(spans)
    BY <1>1, <1>12, <2>2 DEF Consuming, LegInv
  <2> DEFINE l == Len(spans)
  <2>4. l \in 1 .. Len(spans) /\ spans' = EndSpan(l, ended)
    <3>1. Len(spans) \in Nat
      BY <1>1 DEF TraceTypes
    <3> QED
      BY <1>1, <1>12, <2>2, <3>1
  <2>5. n # l /\ \A j \in 1 .. Len(spans) : j # n /\ spans[j].state = "open" => j = l
    BY <2>3
  <2> HIDE DEF l
  <2>6. /\ spans' \in Seq(SpanRecords) /\ Len(spans') = Len(spans)
        /\ \A i \in 1 .. Len(spans) :
               spans'[i].op = spans[i].op /\ spans'[i].parent = spans[i].parent
        /\ spans'[l].state # "open"
        /\ \A i \in 1 .. Len(spans) : i # l => spans'[i].state = spans[i].state
    BY <1>1, <1>2, <2>4, SpanClosed
  <2>7. TraceTypes'
    BY <1>1, <1>4, <1>7, <1>8, <2>6 DEF TraceTypes
  <2>8. LegInv'
    <3>1. Consuming(n)'
      BY <2>3, <2>5, <2>6 DEF Consuming
    <3> QED
      BY <1>1, <1>4, <2>1, <2>6, <2>next, <3>1 DEF LegInv
  <2>9. TreeInv' /\ OfOp("handle")' = OfOp("handle")
    BY <1>1, <2>6, TreeKeeps
  <2>10. RanInv'
    BY <1>1, <1>5, <1>10, <2>9 DEF RanInv
  <2> QED
    BY <1>9, <1>10, <2>7, <2>8, <2>9, <2>10 DEF TraceInv
<1> QED
  BY <1>11, <1>12

LEMMA HandlerPanickedKeeps ==
    ASSUME TraceInv, NEW taken \in BOOLEAN, HandlerPanicked(taken)
    PROVE  TraceInv'
<1> DEFINE more == IF taken THEN 1 ELSE 0
<1>1. /\ TraceTypes /\ LegInv /\ TreeInv /\ CountInv /\ RanInv
      /\ leg.at = "handle" /\ UNCHANGED <<journey, carried, meters>>
      /\ taken => TriedInProcess
      /\ facts' = [facts EXCEPT !.deadLettered = @ + more]
      /\ leg' = [leg EXCEPT !.at = "over"]
      /\ spans' = [i \in DOMAIN spans |->
                      IF spans[i].state = "open" THEN SpanEnded(spans[i], "bare") ELSE spans[i]]
  BY DEF TraceInv, HandlerPanicked
<1>more. more \in Nat /\ (more # 0 => TriedInProcess)
  BY <1>1
<1> HIDE DEF more
<1>facts. facts' = [sent |-> facts.sent, refused |-> facts.refused, cause |-> facts.cause,
                    errorType |-> facts.errorType, processed |-> facts.processed,
                    succeeded |-> facts.succeeded, retried |-> facts.retried,
                    deadLettered |-> facts.deadLettered + more, ran |-> facts.ran]
  BY <1>1 DEF TraceTypes, Happened
<1>typed. facts' \in Happened /\ facts.deadLettered \in Nat
  <2>1. facts \in Happened /\ facts.deadLettered \in Nat /\ facts.deadLettered + more \in Nat
    BY <1>1, <1>more DEF TraceTypes, Happened
  <2> QED
    BY <1>facts, <2>1, SMTT(30) DEF Happened
<1>2. leg' \in Legs /\ leg'.at = "over"
  BY <1>1 DEF TraceTypes, Legs
<1>3. /\ spans \in Seq(SpanRecords) /\ Len(spans) \in Nat /\ DOMAIN spans = 1 .. Len(spans)
      /\ \A i \in 1 .. Len(spans) : spans[i] \in SpanRecords
  BY <1>1 DEF TraceTypes
<1>4. ASSUME NEW s \in SpanRecords
      PROVE  /\ SpanEnded(s, "bare") \in SpanRecords
             /\ SpanEnded(s, "bare").op = s.op /\ SpanEnded(s, "bare").parent = s.parent
             /\ SpanEnded(s, "bare").state = "bare"
  BY DEF SpanEnded, SpanRecords
<1>5. ASSUME NEW i \in 1 .. Len(spans)
      PROVE  /\ spans'[i] \in SpanRecords /\ spans'[i].state # "open"
             /\ spans'[i].op = spans[i].op /\ spans'[i].parent = spans[i].parent
  BY <1>1, <1>3, <1>4
<1>6. spans' \in Seq(SpanRecords) /\ Len(spans') = Len(spans)
  <2>1. spans' \in [1 .. Len(spans) -> SpanRecords]
    BY <1>1, <1>3, <1>5
  <2> QED
    BY <1>3, <2>1
<1>7. TraceTypes'
  BY <1>1, <1>2, <1>6, <1>typed DEF TraceTypes
<1>8. LegInv' /\ CarriedInv'
  BY <1>2, <1>5, <1>6 DEF LegInv, CarriedInv, NoneOpen
<1>9. TreeInv' /\ OfOp("handle")' = OfOp("handle")
  BY <1>1, <1>5, <1>6, TreeKeeps
<1>10. CountInv'
  <2>1. meters["dlq"] \in Nat /\ (~Kafka => more = 0)
    BY <1>1, <1>more DEF TraceTypes, MeterNames, TriedInProcess
  <2> QED
    BY <1>1, <1>more, <1>facts, <1>typed, <2>1
       DEF CountInv, PublishIsTold, ConsumptionIsTold, Kafka
<1>11. RanInv'
  BY <1>1, <1>facts, <1>9 DEF RanInv, HandlersTraced, TriedInProcess, Kafka
<1> QED
  BY <1>7, <1>8, <1>9, <1>10, <1>11 DEF TraceInv

LEMMA ConsumeReturnsKeeps ==
    ASSUME TraceInv, NEW cancelled \in BOOLEAN, ConsumeReturns(cancelled)
    PROVE  TraceInv'
<1> DEFINE ok == Kafka \/ ~leg.failed
           names == {"consumeDuration"} \cup (IF ok THEN {"consumed"} ELSE {})
           ended == IF ok THEN "ok" ELSE "error"
           more == IF AllSucceeded THEN 1 ELSE 0
<1>1. /\ TraceTypes /\ LegInv /\ TreeInv /\ CountInv /\ RanInv
      /\ leg.at = "consume" /\ UNCHANGED <<journey, carried>>
      /\ facts' = [facts EXCEPT !.processed = @ + 1,
                                !.succeeded = @ + more]
      /\ leg' = [leg EXCEPT !.at = IF leg.again /\ ~cancelled THEN "wire" ELSE "over"]
      /\ Kafka \/ leg.run = Handlers
  BY DEF TraceInv, ConsumeReturns
<1>more. /\ more \in {0, 1}
         /\ ~Kafka => more = IF Kafka \/ ~leg.failed THEN 1 ELSE 0
  BY <1>1 DEF AllSucceeded
<1> HIDE DEF more
<1>2. leg' \in Legs /\ leg'.at \in {"wire", "over"}
  BY <1>1 DEF TraceTypes, Legs
<1>3. facts' = [sent |-> facts.sent, refused |-> facts.refused, cause |-> facts.cause,
                errorType |-> facts.errorType, processed |-> facts.processed + 1,
                succeeded |-> facts.succeeded + more, retried |-> facts.retried,
                deadLettered |-> facts.deadLettered, ran |-> facts.ran]
  BY <1>1 DEF TraceTypes, Happened
<1>4. facts.processed \in Nat /\ facts.succeeded \in Nat
  BY <1>1 DEF TraceTypes, Happened
<1>5. facts' \in Happened
  <2>1. facts \in Happened /\ facts.processed + 1 \in Nat /\ facts.succeeded + more \in Nat
    BY <1>1, <1>4, <1>more DEF TraceTypes
  <2> QED
    BY <1>3, <2>1, SMTT(30) DEF Happened
<1>6. CASE ~journey.consumer
  <2>1. UNCHANGED <<spans, meters>>
    BY <1>6 DEF ConsumeReturns
  <2>2. TraceTypes' /\ TreeInv'
    BY <1>1, <1>2, <1>5, <2>1 DEF TraceTypes, TreeInv
  <2>3. LegInv' /\ CarriedInv'
    BY <1>1, <1>2, <1>6, <2>1 DEF LegInv, CarriedInv, NoneOpen
  <2>4. CountInv' /\ RanInv'
    BY <1>1, <1>3, <1>6, <2>1
       DEF CountInv, PublishIsTold, RanInv, HandlersTraced, TriedInProcess, Kafka
  <2> QED
    BY <2>2, <2>3, <2>4 DEF TraceInv
<1>7. CASE journey.consumer
  <2>1. spans' = EndSpan(Current, ended) /\ meters' = Count(names)
    BY <1>7 DEF ConsumeReturns
  <2>2. ended \in {"ok", "error", "bare"}
    OBVIOUS
  <2>3. /\ \A m \in {"published", "publishErrors", "publishDuration", "retries", "dlq"} :
               m \notin names
        /\ "consumed" \in names <=> Kafka \/ ~leg.failed
    OBVIOUS
  <2> HIDE DEF ok, names, ended
  <2>4. PICK n \in 1 .. Len(spans) : Consuming(n) /\ Current = n
    BY <1>1, <1>7, CurrentOpen
  <2>5. \A j \in 1 .. Len(spans) : j # n => spans[j].state # "open"
    BY <1>1, <2>4 DEF Consuming
  <2>6. /\ spans' \in Seq(SpanRecords) /\ Len(spans') = Len(spans)
        /\ \A i \in 1 .. Len(spans) :
               spans'[i].op = spans[i].op /\ spans'[i].parent = spans[i].parent
        /\ spans'[n].state # "open"
        /\ \A i \in 1 .. Len(spans) : i # n => spans'[i].state = spans[i].state
    BY <1>1, <2>1, <2>2, <2>4, SpanClosed
  <2>7. /\ meters' \in [MeterNames -> Nat]
        /\ \A m \in MeterNames : meters'[m] = meters[m] + (IF m \in names THEN 1 ELSE 0)
    BY <1>1, <2>1, Counted
  <2>8. TraceTypes'
    BY <1>1, <1>2, <1>5, <2>6, <2>7 DEF TraceTypes
  <2>9. LegInv' /\ CarriedInv'
    <3>1. NoneOpen'
      BY <2>5, <2>6 DEF NoneOpen
    <3> QED
      BY <1>2, <3>1 DEF LegInv, CarriedInv
  <2>10. TreeInv' /\ OfOp("handle")' = OfOp("handle")
    BY <1>1, <2>6, TreeKeeps
  <2>11. RanInv'
    BY <1>1, <1>3, <2>10 DEF RanInv, HandlersTraced, TriedInProcess, Kafka
  <2>12. CountInv'
    <3>1. /\ meters'["published"] = meters["published"]
          /\ meters'["publishErrors"] = meters["publishErrors"]
          /\ meters'["publishDuration"] = meters["publishDuration"]
          /\ meters'["retries"] = meters["retries"] /\ meters'["dlq"] = meters["dlq"]
      BY <1>1, <2>3, <2>7 DEF MeterNames, TraceTypes
    <3>2. meters'["consumed"] = meters["consumed"] + (IF Kafka \/ ~leg.failed THEN 1 ELSE 0)
      BY <2>3, <2>7 DEF MeterNames
    <3>3. /\ facts'.retried = facts.retried /\ facts'.deadLettered = facts.deadLettered
          /\ facts'.succeeded = facts.succeeded + more
          /\ facts'.processed = facts.processed + 1
          /\ facts'.sent = facts.sent /\ facts'.refused = facts.refused
          /\ facts'.cause = facts.cause /\ facts'.errorType = facts.errorType
      BY <1>3
    <3>4. journey.publisher => PublishIsTold'
      BY <1>1, <3>1, <3>3 DEF CountInv, PublishIsTold, Kafka
    <3>5. ConsumptionIsTold'
      <4>1. meters["consumed"] \in Nat
        BY <1>1 DEF TraceTypes, MeterNames
      <4>2. ConsumptionIsTold
        BY <1>1, <1>7 DEF CountInv
      <4> QED
        BY <1>1, <1>4, <1>more, <3>1, <3>2, <3>3, <4>1, <4>2 DEF ConsumptionIsTold, Kafka
    <3> QED
      BY <1>1, <3>1, <3>4, <3>5 DEF CountInv
  <2> QED
    BY <2>8, <2>9, <2>10, <2>11, <2>12 DEF TraceInv
<1> QED
  BY <1>1, <1>6, <1>7, JourneyTyped

LEMMA JourneyNextKeeps ==
    ASSUME TraceInv, JourneyNext
    PROVE  TraceInv'
<1>1. CASE \E cause \in Causes, arrives \in BOOLEAN : PublishReturned(cause, arrives)
  BY <1>1, PublishReturnedKeeps
<1>2. CASE \E ok \in BOOLEAN : HandlerReturned(ok)
  BY <1>2, HandlerReturnedKeeps
<1>3. CASE \E cancelled \in BOOLEAN : ConsumeReturns(cancelled)
  BY <1>3, ConsumeReturnsKeeps
<1>4. CASE \E taken \in BOOLEAN : SendToDLQ(taken) \/ HandlerPanicked(taken)
  BY <1>4, SendToDLQKeeps, HandlerPanickedKeeps
<1>5. CASE InjectTraceContext \/ ExtractTraceContext \/ CallHandler
  BY <1>5, InjectKeeps, ExtractKeeps, CallHandlerKeeps
<1>6. CASE TakeHandler \/ TryHandler \/ RetryCancelled
  BY <1>6, TakeHandlerKeeps, TryHandlerKeeps, RetryCancelledKeeps
<1> QED
  BY <1>1, <1>2, <1>3, <1>4, <1>5, <1>6 DEF JourneyNext

LEMMA JourneyRests ==
    ASSUME TraceInv, UNCHANGED traceVars
    PROVE  TraceInv'
<1>1. UNCHANGED <<journey, leg, carried, spans, meters, facts>> /\ TraceTypes /\ LegInv
      /\ TreeInv /\ CountInv /\ RanInv /\ CarriedInv
  BY DEF TraceInv, traceVars
<1>2. TraceTypes' /\ TreeInv' /\ CountInv' /\ RanInv' /\ CarriedInv'
  BY <1>1 DEF TraceTypes, TreeInv, CountInv, RanInv, CarriedInv, OfOp, PublishIsTold,
               ConsumptionIsTold, HandlersTraced, TriedInProcess, Kafka
<1>3. LegInv'
  <2>1. HandlersTraced' = HandlersTraced /\ TriedInProcess' = TriedInProcess
    BY <1>1 DEF HandlersTraced, TriedInProcess, Kafka
  <2>2. ASSUME NEW i \in 1 .. Len(spans), Consuming(i)
        PROVE  Consuming(i)'
    BY <1>1, <2>1, <2>2 DEF Consuming
  <2> QED
    BY <1>1, <2>1, <2>2 DEF LegInv, NoneOpen
<1> QED
  BY <1>2, <1>3 DEF TraceInv

LEMMA TracesTrue ==
    ASSUME TraceInv
    PROVE  TracesAreTrue
<1>1. TraceTypes /\ LegInv /\ TreeInv /\ CountInv /\ RanInv
  BY DEF TraceInv
<1>2. ASSUME NEW i \in 1 .. Len(spans), spans[i].state = "open", spans[i].op = "handle"
      PROVE  spans[spans[i].parent].state = "open"
  <2>1. leg.at \notin {"publish", "publishing", "wire", "over"}
    BY <1>1, <1>2 DEF LegInv, NoneOpen, TraceTypes
  <2>2. leg.at \in {"consume", "retry", "handle"}
    BY <1>1, <2>1 DEF TraceTypes, Legs, LegInv
  <2>3. PICK n \in 1 .. Len(spans) : Consuming(n)
    BY <1>1, <1>2, <2>2 DEF LegInv, NoneOpen
  <2> QED
    BY <1>2, <2>3 DEF Consuming
<1>3. leg.at = "over" => \A i \in 1 .. Len(spans) : spans[i].state # "open"
  BY <1>1 DEF LegInv, NoneOpen
<1> QED
  BY <1>1, <1>2, <1>3 DEF TreeInv, CountInv, RanInv, TracesAreTrue
-----------------------------------------------------------------------------
(* The arithmetic of amounts, for every limit and every width: the checks  *)
(* made by division before a product are about the product itself.         *)
LEMMA QuotientAbove ==
    ASSUME NEW a \in Nat, NEW b \in Nat \ {0}, NEW l \in Nat
    PROVE  /\ l \div b \in Nat
           /\ a > l \div b <=> a * b > l
<1> DEFINE q == l \div b
           r == l % b
<1>1. q \in Int /\ r \in Int /\ l = b * q + r /\ 0 <= r /\ r < b
  OBVIOUS
<1>2. q \in Nat
  OBVIOUS
<1> HIDE DEF q, r
<1>3. CASE a > q
  <2>1. a >= q + 1
    BY <1>2, <1>3
  <2>2. a * b >= (q + 1) * b
    BY <2>1, <1>2
  <2>3. (q + 1) * b = b * q + b
    BY <1>2
  <2> QED
    BY <1>1, <1>2, <1>3, <2>2, <2>3 DEF q
<1>4. CASE ~(a > q)
  <2>1. a <= q
    BY <1>2, <1>4
  <2>2. a * b <= q * b
    BY <2>1, <1>2
  <2>3. q * b = b * q
    BY <1>2
  <2> QED
    BY <1>1, <1>2, <1>4, <2>2, <2>3 DEF q
<1> QED
  BY <1>2, <1>3, <1>4 DEF q

LEMMA AbsProduct ==
    ASSUME NEW x \in Int, NEW y \in Int
    PROVE  /\ Abs(x) \in Nat /\ Abs(y) \in Nat
           /\ Abs(x * y) = Abs(x) * Abs(y)
           /\ y # 0 => Abs(y) # 0
<1>1. CASE x >= 0 /\ y >= 0
  <2>1. x * y >= 0
    BY <1>1
  <2> QED BY <1>1, <2>1 DEF Abs
<1>2. CASE x >= 0 /\ y < 0
  <2>1. x * y = -(x * (-y)) /\ x * (-y) >= 0
    BY <1>2
  <2> QED BY <1>2, <2>1 DEF Abs
<1>3. CASE x < 0 /\ y >= 0
  <2>1. x * y = -((-x) * y) /\ (-x) * y >= 0
    BY <1>3
  <2> QED BY <1>3, <2>1 DEF Abs
<1>4. CASE x < 0 /\ y < 0
  <2>1. x * y = (-x) * (-y) /\ (-x) * (-y) >= 0
    BY <1>4
  <2> QED BY <1>4, <2>1 DEF Abs
<1> QED BY <1>1, <1>2, <1>3, <1>4

LEMMA QuotientOf ==
    ASSUME NEW a \in Int, NEW b \in Int \ {0}
    PROVE  /\ Abs(a) \div Abs(b) \in Nat /\ Quotient(a, b) \in Int
           /\ (a < 0 <=> b < 0) => Quotient(a, b) = Abs(a) \div Abs(b)
           /\ ~(a < 0 <=> b < 0) => Quotient(a, b) = -(Abs(a) \div Abs(b))
<1>1. Abs(a) \in Nat /\ Abs(b) \in Nat \ {0}
  BY DEF Abs
<1>2. Abs(a) \div Abs(b) \in Nat
  BY <1>1, QuotientAbove
<1> QED
  BY <1>2 DEF Quotient

Bounded(v) == IF Abs(v) > Limit THEN Fails("overflow") ELSE Value(v)

Small(v) == v \in Int /\ Abs(v) <= Limit

LEMMA AddIsExact ==
    ASSUME NEW x, NEW y, Small(x), Small(y)
    PROVE  MoneyAdd(x, y) = Bounded(x + y)
<1>1. (y > 0 /\ x > Limit - y) \/ (y < 0 /\ x < -Limit - y) <=> Abs(x + y) > Limit
  BY ValuesAssumption DEF Small, Abs
<1> QED
  BY <1>1 DEF MoneyAdd, Bounded

LEMMA SubtractIsExact ==
    ASSUME NEW x, NEW y, Small(x), Small(y)
    PROVE  MoneySubtract(x, y) = Bounded(x - y)
<1>1. (y < 0 /\ x > Limit + y) \/ (y > 0 /\ x < -Limit + y) <=> Abs(x - y) > Limit
  BY ValuesAssumption DEF Small, Abs
<1> QED
  BY <1>1 DEF MoneySubtract, Bounded

(* The check made by division is the one that is meant.                    *)
LEMMA ProductAbove ==
    ASSUME NEW x \in Int, NEW y \in Int, y # 0, NEW l \in Nat
    PROVE  Abs(x) > l \div Abs(y) <=> Abs(x * y) > l
<1>1. Abs(x) \in Nat /\ Abs(y) \in Nat \ {0} /\ Abs(x * y) = Abs(x) * Abs(y)
  BY AbsProduct
<1> QED
  BY <1>1, QuotientAbove

LEMMA MultiplyIsExact ==
    ASSUME NEW x, NEW y, Small(x), Small(y)
    PROVE  MoneyMultiply(x, y) = IF y = 0 THEN Fails("panic") ELSE Bounded(x * y)
<1>1. CASE y = 0
  BY <1>1 DEF MoneyMultiply
<1>2. CASE y # 0 /\ Abs(x) > Limit \div Abs(y)
  <2>1. Abs(x * y) > Limit
    BY <1>2, ProductAbove, ValuesAssumption DEF Small
  <2> QED
    BY <1>2, <2>1 DEF MoneyMultiply, Bounded
<1>3. CASE y # 0 /\ ~(Abs(x) > Limit \div Abs(y))
  <2>1. ~(Abs(x * y) > Limit)
    BY <1>3, ProductAbove, ValuesAssumption DEF Small
  <2> QED
    BY <1>3, <2>1 DEF MoneyMultiply, Bounded
<1> QED
  BY <1>1, <1>2, <1>3

LEMMA PercentageMultiplyIs ==
    ASSUME NEW x, NEW y, Small(x), Small(y)
    PROVE  PercentageMultiply(x, y) = IF y < 0 THEN Fails("overflow") ELSE Bounded(x * y)
<1> USE DEF Small
<1>0. Limit \in Nat /\ Abs(Limit) = Limit /\ Abs(-Limit) = Limit
  BY ValuesAssumption DEF Abs
<1>1. CASE y = 0
  <2>1. x * y = 0 /\ Abs(0) = 0
    BY <1>1 DEF Abs
  <2> QED
    BY <1>0, <1>1, <2>1 DEF PercentageMultiply, Bounded
<1>2. CASE y > 0
  <2> DEFINE q == Limit \div Abs(y)
  <2>1. Limit > 0 /\ Abs(y) = y
    BY <1>0, <1>2 DEF Abs
  <2>2. Quotient(Limit, y) = q /\ Quotient(-Limit, y) = -q /\ q \in Nat
    <3>1. y \in Int \ {0} /\ Limit \in Int /\ -Limit \in Int /\ ~(Limit < 0) /\ -Limit < 0 /\ ~(y < 0)
      BY <1>0, <1>2, <2>1
    <3>2. Quotient(Limit, y) = q /\ q \in Nat
      BY <1>0, <3>1, QuotientOf
    <3>3. Quotient(-Limit, y) = -q
      BY <1>0, <3>1, QuotientOf
    <3> QED
      BY <3>2, <3>3
  <2>3. (x > Quotient(Limit, y) \/ x < Quotient(-Limit, y)) <=> Abs(x) > q
    <3> HIDE DEF q
    <3> QED
      BY <2>2 DEF Abs
  <2>4. Abs(x) > q <=> Abs(x * y) > Limit
    BY <1>0, <1>2, ProductAbove
  <2> HIDE DEF q
  <2> QED
    BY <1>2, <2>3, <2>4 DEF PercentageMultiply, Bounded
<1>3. CASE y < 0
  <2> DEFINE q == Limit \div Abs(y)
  <2>1. Limit > 0 /\ Abs(y) \in Nat \ {0} /\ Abs(y) <= Limit
    BY <1>0, <1>3 DEF Abs
  <2>2. Quotient(Limit, y) = -q /\ Quotient(-Limit, y) = q /\ q \in Nat
    <3>1. y \in Int \ {0} /\ Limit \in Int /\ -Limit \in Int /\ ~(Limit < 0) /\ -Limit < 0 /\ y < 0
      BY <1>0, <1>3, <2>1
    <3>2. Quotient(Limit, y) = -q
      BY <1>0, <3>1, QuotientOf
    <3>3. Quotient(-Limit, y) = q /\ q \in Nat
      BY <1>0, <3>1, QuotientOf
    <3> QED
      BY <3>2, <3>3
  <2>3. q >= 1
    <3>1. 1 * Abs(y) > Limit <=> 1 > q
      BY <1>0, <2>1, QuotientAbove
    <3> HIDE DEF q
    <3> QED
      BY <1>0, <2>1, <2>2, <3>1
  <2> HIDE DEF q
  <2>4. x > Quotient(Limit, y) \/ x < Quotient(-Limit, y)
    BY <2>2, <2>3
  <2> QED
    BY <1>3, <2>4 DEF PercentageMultiply
<1> QED
  BY <1>1, <1>2, <1>3

LEMMA ApplyIs ==
    ASSUME NEW x, NEW y, Small(x), Small(y)
    PROVE  PercentageApply(x, y) =
               IF Abs(x * y) > MaxInt64 THEN Fails("overflow")
               ELSE Bounded(Quotient(x * y, Unit))
<1>0. MaxInt64 \in Nat /\ x \in Int /\ y \in Int
  BY ValuesAssumption DEF Small
<1>1. y # 0 /\ Abs(x) > MaxInt64 \div Abs(y) <=> Abs(x * y) > MaxInt64
  <2>1. CASE y = 0
    <3>1. x * y = 0 /\ Abs(0) = 0
      BY <1>0, <2>1 DEF Abs
    <3> QED
      BY <1>0, <2>1, <3>1
  <2>2. CASE y # 0
    BY <1>0, <2>2, ProductAbove
  <2> QED
    BY <2>1, <2>2
<1> QED
  BY <1>1 DEF PercentageApply, NewMoney, Bounded

Operands == [op : Operations, x : Amounts, y : Amounts, same : BOOLEAN]

(* An operation on amounts has operands, and once it was done its answer   *)
(* is that of the code's.                                                  *)
ValuesInv ==
    calculation.op \in Operations =>
        /\ calculation \in Operands
        /\ answer.kind # "none" => answer = Arithmetic(calculation)

LEMMA CalculationStarts ==
    ASSUME NEW c \in Calculations, CalculationStart(c)
    PROVE  ValuesInv
<1>1. c.op \in Operations => c \in Operands
  BY DEF Calculations, Operations, Operands
<1>2. calculation = c /\ answer.kind = "none"
  BY DEF CalculationStart
<1> QED
  BY <1>1, <1>2 DEF ValuesInv

LEMMA CalculateKeeps ==
    ASSUME ValuesInv, Calculate
    PROVE  ValuesInv'
<1>1. calculation' = calculation
  BY DEF Calculate
<1>2. calculation.op \in Operations => answer' = Arithmetic(calculation)
  BY DEF Calculate, Operations
<1> QED
  BY <1>1, <1>2 DEF ValuesInv

LEMMA CalculationRests ==
    ASSUME ValuesInv, UNCHANGED valuesVars
    PROVE  ValuesInv'
  BY DEF ValuesInv, valuesVars

LEMMA AmountsAreIntegers == ASSUME NEW a \in Amounts PROVE a \in Int
<1> DEFINE least == -MaxInt64
<1>1. least \in Int /\ MaxInt64 \in Int
  BY ValuesAssumption
<1>2. a \in least .. MaxInt64
  BY ValuesAssumption
<1> HIDE DEF least
<1> QED
  BY <1>1, <1>2

LEMMA ValuesAreExact ==
    ASSUME ValuesInv, answer.kind # "none"
    PROVE  ArithmeticIsExact
<1> SUFFICES ASSUME calculation.op \in Operations \ {"divide"}, Abs(calculation.x) <= Limit,
                    Abs(calculation.y) <= Limit
             PROVE  /\ answer.kind = "value" => answer = Meant(calculation)
                    /\ Unserved(calculation) \/ answer = Meant(calculation)
  BY DEF ArithmeticIsExact
<1>1. calculation \in Operands /\ answer = Arithmetic(calculation)
  BY DEF ValuesInv
<1>2. PICK x \in Int, y \in Int : x = calculation.x /\ y = calculation.y
  <2>1. calculation.x \in Amounts /\ calculation.y \in Amounts
    BY <1>1 DEF Operands
  <2>2. calculation.x \in Int /\ calculation.y \in Int
    BY <2>1, AmountsAreIntegers
  <2> QED
    BY <2>2
<1>3. Small(x) /\ Small(y)
  BY <1>2 DEF Small
<1>4. CASE calculation.op \in {"add", "subtract"} /\ ~calculation.same
  BY <1>1, <1>4 DEF Arithmetic, Meant
<1>5. CASE calculation.op = "add" /\ calculation.same
  <2>1. answer = Bounded(x + y)
    BY <1>1, <1>2, <1>3, <1>5, AddIsExact DEF Arithmetic
  <2> QED
    BY <1>2, <1>5, <2>1 DEF Meant, Exact, Bounded
<1>6. CASE calculation.op = "subtract" /\ calculation.same
  <2>1. answer = Bounded(x - y)
    BY <1>1, <1>2, <1>3, <1>6, SubtractIsExact DEF Arithmetic
  <2> QED
    BY <1>2, <1>6, <2>1 DEF Meant, Exact, Bounded
<1>7. CASE calculation.op = "multiply"
  <2>1. answer = IF y = 0 THEN Fails("panic") ELSE Bounded(x * y)
    BY <1>1, <1>2, <1>3, <1>7, MultiplyIsExact DEF Arithmetic
  <2>2. Meant(calculation) = Bounded(x * y)
    BY <1>2, <1>7 DEF Meant, Exact, Bounded
  <2> QED
    BY <1>2, <1>7, <2>1, <2>2 DEF Unserved, Fails
<1>8. CASE calculation.op = "multiplyPercentage"
  <2>1. answer = IF y < 0 THEN Fails("overflow") ELSE Bounded(x * y)
    BY <1>1, <1>2, <1>3, <1>8, PercentageMultiplyIs DEF Arithmetic
  <2>2. Meant(calculation) = Bounded(x * y)
    BY <1>2, <1>8 DEF Meant, Exact, Bounded
  <2> QED
    BY <1>2, <1>8, <2>1, <2>2 DEF Unserved, Fails
<1>9. CASE calculation.op = "apply"
  <2>1. answer = IF Abs(x * y) > MaxInt64 THEN Fails("overflow")
                 ELSE Bounded(Quotient(x * y, Unit))
    BY <1>1, <1>2, <1>3, <1>9, ApplyIs DEF Arithmetic
  <2> QED
    BY <1>2, <1>9, <2>1 DEF Meant, Exact, Bounded
<1> QED
  BY <1>1, <1>4, <1>5, <1>6, <1>7, <1>8, <1>9 DEF Operands, Operations
-----------------------------------------------------------------------------
(* A producer's writes are counted, and its closing has three stages.      *)
ProducerBounds ==
    writing.tries <= ProducerRetries + 1 /\ closing \in {"open", "flagged", "closed"}

LEMMA ProducerBoundsKeep ==
    ASSUME ProducerInv, ProducerBounds, ProducerNext \/ UNCHANGED producerVars
    PROVE  ProducerBounds'
<1>1. writing \in Writing /\ ProducerRetries \in Nat /\ writing.tries \in Nat
  BY ProductionFacts DEF ProducerInv, WritingInv, Writing
<1>2. ASSUME NEW S \in SUBSET DOMAIN stored, NEW ok \in BOOLEAN, WriteMessages(S, ok)
      PROVE  ProducerBounds'
  <2>1. writing.tries <= ProducerRetries /\ closing' = closing
    BY <1>2 DEF WriteMessages, ProducerInv, WritingInv
  <2> DEFINE tried == [writing EXCEPT !.tries = @ + 1]
  <2>2. tried \in Writing /\ tried.tries = writing.tries + 1
    BY <1>1 DEF Writing
  <2> HIDE DEF tried
  <2>3. writing' = IF ok THEN [tried EXCEPT !.at = "over", !.result = "ok"]
                   ELSE IF tried.tries <= ProducerRetries THEN [tried EXCEPT !.at = "sleep"]
                   ELSE [tried EXCEPT !.at = "over", !.result = "failed"]
    BY <1>2 DEF WriteMessages, MayWriteAgain, tried
  <2>4. writing'.tries = tried.tries
    BY <2>2, <2>3 DEF Writing
  <2> QED
    BY <1>1, <2>1, <2>2, <2>4 DEF ProducerBounds
<1>3. CASE Produce \/ CheckProducer \/ WriteAgain \/ AbandonWrite
  <2>1. writing'.tries = writing.tries /\ closing' = closing
    BY <1>1, <1>3
       DEF Produce, CheckProducer, WriteAgain, AbandonWrite, HandleFailure, Returned, Writing
  <2> QED
    BY <2>1 DEF ProducerBounds
<1>4. CASE CallerLeaves \/ CloseFlags \/ CloseWriter \/ UNCHANGED producerVars
  BY <1>4 DEF CallerLeaves, CloseFlags, CloseWriter, producerVars, ProducerBounds
<1> QED
  BY <1>2, <1>3, <1>4 DEF ProducerNext

LEMMA ProducerTyped ==
    ASSUME ProducerInv, ProducerBounds
    PROVE  ProducerTypeOK
<1>1. /\ production \in Productions /\ writing \in Writing /\ abandoned \in BOOLEAN
      /\ stored \in [1 .. production.size -> Nat]
      /\ \A m \in 1 .. production.size : stored[m] <= writing.tries
      /\ writing.tries \in Nat /\ ProducerRetries \in Nat
  BY ProductionFacts DEF ProducerInv, WritingInv, Writing
<1>2. writing.tries \in 0 .. ProducerRetries + 1
  BY <1>1 DEF ProducerBounds
<1>3. writing \in [at : {"start", "publish", "write", "sleep", "over"},
                   tries : 0 .. ProducerRetries + 1,
                   result : {"none", "ok", "closed", "failed", "invalid"}]
  BY <1>1, <1>2 DEF Writing
<1>4. \A m \in 1 .. production.size : stored[m] \in 0 .. ProducerRetries + 1
  BY <1>1, <1>2
<1>5. stored \in [1 .. production.size -> 0 .. ProducerRetries + 1]
  BY <1>1, <1>4
<1> QED
  BY <1>1, <1>3, <1>5 DEF ProducerTypeOK, ProducerBounds
-----------------------------------------------------------------------------
(* No more checks run at once than the semaphore has slots.                *)
HealthBounds == semaphore <= MaxConcurrent

LEMMA HealthBoundsKeep ==
    ASSUME HealthInv, HealthBounds, HealthNext \/ UNCHANGED healthVars
    PROVE  HealthBounds'
<1>1. semaphore \in Nat /\ MaxConcurrent \in Nat
  BY FS_CardinalityType, HealthAssumption DEF HealthInv, HealthAssumption
<1>2. ASSUME NEW c \in Checks, AcquireSlot(c) \/ SlotTimeout(c) \/ \E err \in BOOLEAN : CheckReturns(c, err)
      PROVE  HealthBounds'
  <2>1. (semaphore < MaxConcurrent /\ semaphore' = semaphore + 1)
        \/ semaphore' = semaphore \/ semaphore' = semaphore - 1
    BY <1>2 DEF AcquireSlot, SlotTimeout, CheckReturns
  <2> QED
    BY <1>1, <2>1 DEF HealthBounds
<1>3. CASE DeadlinePasses \/ AnswerProbe \/ UNCHANGED healthVars
  BY <1>3 DEF DeadlinePasses, AnswerProbe, healthVars, HealthBounds
<1> QED
  BY <1>2, <1>3 DEF HealthNext

LEMMA HealthTyped ==
    ASSUME HealthInv, HealthBounds
    PROVE  HealthTypeOK
<1>1. semaphore \in Nat /\ MaxConcurrent \in Nat
  BY FS_CardinalityType, HealthAssumption DEF HealthInv, HealthAssumption
<1> QED
  BY <1>1 DEF HealthInv, HealthBounds, HealthTypeOK
-----------------------------------------------------------------------------
(* A call is attempted as often as it may be retried, which is no more     *)
(* than MaxRetryAttempts once it has been validated.                       *)
ClientBounds ==
    /\ trip.attempt \in 1 .. MaxRetryAttempts
    /\ RetryEnabled /\ trip.at \in {"buffer", "send", "judge", "sleep"} =>
           call.attempts <= MaxRetryAttempts

LEMMA ClientBoundsKeep ==
    ASSUME ClientInv, ClientBounds, ClientNext \/ UNCHANGED clientVars
    PROVE  ClientBounds'
<1>1. /\ trip \in Trip /\ call.attempts \in Nat /\ MaxRetryAttempts \in Nat
      /\ trip.attempt \in Nat
  BY CallFacts, HttpClientAssumption DEF ClientInv, HttpClientAssumption
<1>2. call' = call /\ RetryEnabled' = RetryEnabled
  BY DEF ClientNext, CallExpires, ExecuteCall, BufferBody, Send, ReturnAnswer, AbandonRetry,
         PrepareRetry, Sleep, SleepCancelled, EndCall, Decode, Return, clientVars, RetryEnabled
<1>3. ASSUME trip'.attempt = trip.attempt,
             \/ trip'.at \in {"returned", "decode", "over"}
             \/ trip.at \in {"buffer", "send", "judge", "sleep"}
             \/ trip' = trip
      PROVE  ClientBounds'
  BY <1>2, <1>3 DEF ClientBounds
<1>4. CASE ExecuteCall
  <2>1. trip.at = "call" /\ trip'.attempt = trip.attempt
        /\ \/ trip'.at = "over"
           \/ RetryEnabled => ValidateRetryConfig
    BY <1>1, <1>4 DEF ExecuteCall, Trip
  <2> QED
    BY <1>2, <1>3, <2>1 DEF ClientBounds, ValidateRetryConfig
<1>5. CASE Sleep
  <2>1. trip.at = "sleep" /\ trip'.attempt = trip.attempt + 1 /\ trip'.at = "send"
    BY <1>1, <1>5 DEF Sleep, Trip
  <2>2. trip.attempt < MostAttempts
    BY <2>1 DEF ClientInv, LogInv
  <2>3. RetryEnabled /\ trip.attempt < call.attempts /\ call.attempts <= MaxRetryAttempts
    BY <1>1, <2>1, <2>2 DEF MostAttempts, ClientBounds
  <2> QED
    BY <1>1, <1>2, <2>1, <2>3 DEF ClientBounds
<1>6. CASE CallExpires \/ UNCHANGED clientVars
  BY <1>3, <1>6 DEF CallExpires, clientVars
<1>7. CASE BufferBody
  <2> DEFINE t == [trip EXCEPT !.request = "closed"]
  <2>1. t \in Trip /\ t.attempt = trip.attempt
    BY <1>1 DEF Trip
  <2> HIDE DEF t
  <2>2. trip.at = "buffer"
        /\ \/ trip' = [t EXCEPT !.at = "returned", !.result = "tooLarge"]
           \/ trip' = [t EXCEPT !.at = "returned", !.result = "unread"]
           \/ trip' = [t EXCEPT !.at = "send"]
    BY <1>7 DEF BufferBody, Return, t
  <2>3. trip'.attempt = trip.attempt
    BY <2>1, <2>2 DEF Trip
  <2> QED
    BY <1>3, <2>2, <2>3
<1>8. ASSUME NEW o \in Outcomes, Send(o)
      PROVE  ClientBounds'
  <2>1. trip.at = "send" /\ trip'.attempt = trip.attempt
    BY <1>1, <1>8 DEF Send, Trip
  <2> QED
    BY <1>3, <2>1
<1>9. CASE ReturnAnswer \/ SleepCancelled
  <2>1. trip'.at = "returned" /\ trip'.attempt = trip.attempt
    BY <1>1, <1>9 DEF ReturnAnswer, SleepCancelled, Return, Trip
  <2> QED
    BY <1>3, <2>1
<1>10. CASE AbandonRetry \/ PrepareRetry
  <2>1. Drained \in Trip /\ Drained.attempt = trip.attempt
    BY <1>1 DEF Drained, Trip
  <2>2. trip.at = "judge"
        /\ \/ trip' = [Drained EXCEPT !.at = "returned", !.result = "ctxErr"]
           \/ trip' = [Drained EXCEPT !.at = "sleep", !.hooks = @ + 1]
    BY <1>10 DEF AbandonRetry, PrepareRetry, Return
  <2>3. trip'.attempt = trip.attempt
    BY <2>1, <2>2 DEF Trip
  <2> QED
    BY <1>3, <2>2, <2>3
<1>11. CASE EndCall
  <2>1. trip'.at \in {"decode", "over"} /\ trip'.attempt = trip.attempt
    BY <1>1, <1>11 DEF EndCall, Trip
  <2> QED
    BY <1>3, <2>1
<1>12. ASSUME NEW how, Decode(how)
       PROVE  ClientBounds'
  <2>1. trip'.at = "over" /\ trip'.attempt = trip.attempt
    BY <1>1, <1>12 DEF Decode, Trip
  <2> QED
    BY <1>3, <2>1
<1> QED
  BY <1>4, <1>5, <1>6, <1>7, <1>8, <1>9, <1>10, <1>11, <1>12 DEF ClientNext

LEMMA ClientTyped ==
    ASSUME ClientInv, ClientBounds
    PROVE  ClientTypeOK
<1>1. trip \in Trip /\ told \in CallTold /\ call \in Calls /\ expired \in BOOLEAN
  BY DEF ClientInv
<1>2. trip.open \in {0, 1}
  BY <1>1 DEF ClientInv, OpenAnswerInv, Trip, Places
<1> QED
  BY <1>1, <1>2 DEF ClientBounds, ClientTypeOK, Trip, CallTold
-----------------------------------------------------------------------------
(* The rows, the scrapes and what the scraper has seen and added, within   *)
(* the bounds of the pool.                                                 *)
TelemetryBounds ==
    /\ statement.rows \in 0 .. MaxRows
    /\ pool \in Stats /\ scraper.ticks <= MaxScrapes /\ scraper.saw \in Stats
    /\ gauges \in [open : 0 .. 1, idle : 0 .. 1, waits : Nat, waitedMs : Nat]

LEMMA TelemetryBoundsKeep ==
    ASSUME TelemetryInv, TelemetryBounds, TelemetryInv',
           TelemetryNext \/ UNCHANGED telemetryVars
    PROVE  TelemetryBounds'
<1> DEFINE Statements == [kind : StatementKinds, rows : Int, broken : BOOLEAN,
                 at : {"idle", "running", "rows", "row", "forgotten", "over"}]
<1> DEFINE Scrapers == [running : BOOLEAN, ticks : Nat, saw : PoolStats]
<1>1. /\ statement \in Statements /\ scraper \in Scrapers /\ statement.rows \in 0 .. MaxRows
      /\ MaxRows \in Nat /\ MaxScrapes \in Nat
  BY TelemetryAssumption
     DEF TelemetryInv, StatementInv, ScraperInv, TelemetryAssumption, TelemetryBounds
<1>2. ASSUME statement'.rows = statement.rows, UNCHANGED <<pool, scraper, gauges>>
      PROVE  TelemetryBounds'
  BY <1>2 DEF TelemetryBounds
<1>3. CASE StartStatement \/ RowsBreak \/ RowsErr \/ CloseRows \/ ForgetRow \/ FinishOrphanRowSpan
  <2>1. statement'.rows = statement.rows /\ UNCHANGED <<pool, scraper, gauges>>
    BY <1>1, <1>3
       DEF StartStatement, RowsBreak, RowsErr, CloseRows, ForgetRow, FinishOrphanRowSpan
  <2> QED
    BY <1>2, <2>1
<1>4. ASSUME NEW ok \in BOOLEAN, StatementReturns(ok) \/ ScanRow(ok)
      PROVE  TelemetryBounds'
  <2>1. statement'.rows = statement.rows /\ UNCHANGED <<pool, scraper, gauges>>
    BY <1>1, <1>4 DEF StatementReturns, ScanRow
  <2> QED
    BY <1>2, <2>1
<1>5. ASSUME NEW more \in BOOLEAN, NextRow(more)
      PROVE  TelemetryBounds'
  <2>1. UNCHANGED <<pool, scraper, gauges>>
        /\ statement'.rows = statement.rows + (IF more THEN 1 ELSE 0)
        /\ (more => statement.rows < MaxRows)
    BY <1>1, <1>5 DEF NextRow
  <2> QED
    BY <1>1, <2>1 DEF TelemetryBounds
<1>6. ASSUME NEW s \in Stats, PoolWorks(s)
      PROVE  TelemetryBounds'
  BY <1>6 DEF PoolWorks, TelemetryBounds
<1>7. CASE Scrape
  <2>1. /\ scraper.ticks < MaxScrapes /\ UNCHANGED <<statement, pool>>
        /\ scraper'.ticks = scraper.ticks + 1 /\ scraper'.saw = pool
    BY <1>1, <1>7 DEF Scrape
  <2>2. gauges' = [open |-> gauges'.open, idle |-> gauges'.idle, waits |-> gauges'.waits,
                   waitedMs |-> gauges'.waitedMs]
    BY <1>7 DEF Scrape
  <2>3. /\ gauges'.open = pool.open /\ gauges'.idle = pool.idle /\ gauges'.waits = pool.waits
        /\ gauges'.waitedMs \in Nat
    BY <2>1 DEF TelemetryInv, ScraperInv
  <2>4. pool.open \in 0 .. 1 /\ pool.idle \in 0 .. 1 /\ pool.waits \in Nat
    BY DEF TelemetryBounds, Stats
  <2>5. gauges' \in [open : 0 .. 1, idle : 0 .. 1, waits : Nat, waitedMs : Nat]
    BY <2>2, <2>3, <2>4
  <2> QED
    BY <1>1, <2>1, <2>5 DEF TelemetryBounds, Stats
<1>8. CASE StopScraper
  <2>1. /\ scraper'.ticks = scraper.ticks /\ scraper'.saw = scraper.saw
        /\ UNCHANGED <<statement, pool, gauges>>
    BY <1>1, <1>8 DEF StopScraper
  <2> QED
    BY <2>1 DEF TelemetryBounds, Stats
<1>9. CASE UNCHANGED telemetryVars
  BY <1>2, <1>9 DEF telemetryVars
<1> QED
  BY <1>3, <1>4, <1>5, <1>6, <1>7, <1>8, <1>9 DEF TelemetryNext

LEMMA TelemetryTyped ==
    ASSUME TelemetryInv, TelemetryBounds
    PROVE  DatabaseTelemetryTypeOK
<1>1. /\ sqlSpan \in [open : BOOLEAN, ended : Nat, status : {"none", "ok", "error"}, measured : Nat]
      /\ sqlSpan.ended \in {0, 1} /\ sqlSpan.measured = sqlSpan.ended
  BY DEF TelemetryInv, StatementInv
<1>2. sqlSpan \in [open : BOOLEAN, ended : 0 .. 2, status : {"none", "ok", "error"},
                   measured : 0 .. 2]
  BY <1>1
<1>3. statement \in [kind : StatementKinds, rows : 0 .. MaxRows, broken : BOOLEAN,
           at : {"idle", "running", "rows", "row", "forgotten", "over"}]
  BY DEF TelemetryInv, StatementInv, TelemetryBounds
<1>4. scraper \in [running : BOOLEAN, ticks : 0 .. MaxScrapes, saw : Stats]
  <2>1. scraper \in [running : BOOLEAN, ticks : Nat, saw : PoolStats]
        /\ scraper.ticks <= MaxScrapes /\ scraper.saw \in Stats /\ MaxScrapes \in Nat
    BY TelemetryAssumption DEF TelemetryAssumption, TelemetryInv, ScraperInv, TelemetryBounds
  <2>2. scraper.ticks \in 0 .. MaxScrapes
    BY <2>1
  <2> QED
    BY <2>1, <2>2
<1> QED
  BY <1>2, <1>3, <1>4 DEF DatabaseTelemetryTypeOK, TelemetryBounds
-----------------------------------------------------------------------------
(* The configuration a start has resolved, the handle and the schema.      *)
StartBounds ==
    /\ config \in [kind : Kinds, dsn : Forms, from : {"none", "given", "env"},
                   fields : SUBSET Fields]
    /\ handle \in {"none", "open", "closed"} /\ schema \in {"old", "migrated", "partly"}

LEMMA StartBoundsKeep ==
    ASSUME StartInv, StartBounds, StartNext \/ UNCHANGED startVars
    PROVE  StartBounds'
<1>1. ASSUME NEW refused \in BOOLEAN, ResolveConfig(refused)
      PROVE  StartBounds'
  <2>1. setup \in Setups
    BY DEF StartInv, HoldsInv
  <2>2. /\ setup.kind \in Kinds /\ setup.envDriver \in Drivers \cup {"unset", "unsupported"}
        /\ setup.dsn \in Forms /\ setup.envDSN \in Forms
        /\ setup.given \subseteq Fields /\ setup.env \subseteq Fields
    BY <2>1, SetupAssumption DEF SetupAssumption
  <2> DEFINE Configs == [kind : Kinds, dsn : Forms, from : {"none", "given", "env"},
                         fields : SUBSET Fields]
  <2>3. ~EnvironmentFails => FromEnvironment \in Configs
    BY <2>2 DEF EnvironmentFails, FromEnvironment, Kinds
  <2>4. Merged \in Configs
    <3>1. "none" \in Forms /\ (setup.given \cup setup.env) \subseteq Fields
      BY <2>2 DEF Forms
    <3>2. CASE setup.kind \notin Drivers \/ setup.dsn # "none"
      BY <2>2, <3>1, <3>2 DEF Merged
    <3>3. CASE ~(setup.kind \notin Drivers \/ setup.dsn # "none")
      BY <2>2, <3>1, <3>3 DEF Merged
    <3> QED
      BY <3>2, <3>3
  <2>5. \/ config' = config
        \/ config' = Merged
        \/ config' = FromEnvironment /\ ~EnvironmentFails
    BY <1>1 DEF ResolveConfig
  <2>6. UNCHANGED <<handle, schema>> /\ config \in Configs
    BY <1>1 DEF ResolveConfig, StartBounds
  <2>7. config' \in Configs
    BY <2>3, <2>4, <2>5, <2>6
  <2> QED
    BY <2>6, <2>7 DEF StartBounds
<1>2. CASE (\E made \in BOOLEAN : BuildAdapter(made)) \/ (\E answers \in BOOLEAN : PingPool(answers))
  BY <1>2 DEF BuildAdapter, PingPool, StartBounds
<1>3. ASSUME NEW connects \in BOOLEAN, FindMigrations(connects)
      PROVE  StartBounds'
  <2>1. UNCHANGED <<config, schema>> /\ handle' \in {handle, "open"}
    BY <1>3 DEF FindMigrations
  <2> QED
    BY <2>1 DEF StartBounds
<1>4. ASSUME NEW applied \in BOOLEAN, MigrateUp(applied)
      PROVE  StartBounds'
  BY <1>4 DEF MigrateUp, StartBounds
<1>5. CASE TakeAdapter \/ InstrumentManager \/ UNCHANGED startVars
  BY <1>5 DEF TakeAdapter, InstrumentManager, startVars, StartBounds
<1> QED
  BY <1>1, <1>2, <1>3, <1>4, <1>5 DEF StartNext

LEMMA StartTyped ==
    ASSUME StartInv, StartBounds
    PROVE  StartTypeOK
  BY DEF StartInv, HoldsInv, DBPools, StartBounds, StartTypeOK
-----------------------------------------------------------------------------
LEMMA KafkaTyped ==
    ASSUME KafkaInv
    PROVE  KafkaTypeOK
  BY DEF KafkaInv, DialerTypes, Seats, KafkaTypeOK

LEMMA ChannelsTyped ==
    ASSUME ChannelsInv
    PROVE  ChannelsTypeOK
<1>1. NumbersInv /\ MaxChannels \in Nat
  BY ChannelsAssumption DEF ChannelsInv, ChannelsAssumption
<1>2. PICK k \in Nat : Channels = 1 .. k /\ k <= MaxChannels
  BY <1>1 DEF NumbersInv
<1>3. Channels \subseteq 1 .. MaxChannels
  BY <1>1, <1>2
<1> QED
  BY <1>1, <1>3 DEF NumbersInv, NoUse, ChannelsTypeOK

LEMMA OtelTyped ==
    ASSUME OtelInv
    PROVE  OtelTypeOK
<1> DEFINE Three == {"tracer", "meter", "logger"}
<1>1. Range(Signals) = Three
  BY SignalsNamed
<1>2. Exporter \in Exporters
  BY DEF Exporter, Exporters
<1>3. ASSUME NEW p, NEW made \in SUBSET Three, NEW g \in SUBSET {"tracer", "meter", "propagator"},
             p \in Seq(Three), Made(p, made, g)
      PROVE  /\ DOMAIN signals \subseteq Three /\ \A s \in DOMAIN signals : signals[s] \in Exporters
             /\ steps \in Seq(Three) /\ globals \subseteq {"tracer", "meter", "propagator"}
  BY <1>2, <1>3 DEF Made
<1>4. /\ << >> \in Seq(Three) /\ <<"tracer">> \in Seq(Three) /\ <<"tracer", "meter">> \in Seq(Three)
      /\ <<"tracer", "meter", "logger">> \in Seq(Three)
  OBVIOUS
<1>5. otelConfig \in OtelConfigs
  BY DEF OtelInv
<1>6. /\ providerAt \in {"check", "resource", "started", "failed"} \cup Three
      /\ \/ Made(<< >>, {}, {})
         \/ Made(<<"tracer">>, {"tracer"}, {"tracer"})
         \/ Made(<<"tracer", "meter">>, {"tracer", "meter"}, {"tracer", "meter"})
         \/ Made(<<"tracer", "meter", "logger">>, {"tracer", "meter", "logger"},
                 {"tracer", "meter", "propagator"})
  BY DEF OtelInv, OtelStage
<1>7. /\ DOMAIN signals \subseteq Three /\ \A s \in DOMAIN signals : signals[s] \in Exporters
      /\ steps \in Seq(Three) /\ globals \subseteq {"tracer", "meter", "propagator"}
  <2>1. CASE Made(<< >>, {}, {})
    BY <1>3, <1>4, <2>1
  <2>2. CASE Made(<<"tracer">>, {"tracer"}, {"tracer"})
    BY <1>3, <1>4, <2>2
  <2>3. CASE Made(<<"tracer", "meter">>, {"tracer", "meter"}, {"tracer", "meter"})
    BY <1>3, <1>4, <2>3
  <2>4. CASE Made(<<"tracer", "meter", "logger">>, {"tracer", "meter", "logger"},
                  {"tracer", "meter", "propagator"})
    BY <1>3, <1>4, <2>4
  <2> QED
    BY <1>6, <2>1, <2>2, <2>3, <2>4
<1> QED
  BY <1>1, <1>5, <1>6, <1>7 DEF OtelTypeOK
-----------------------------------------------------------------------------
(* The types of the event dispatcher, of which one may ask who is          *)
(* registered at any time.                                                 *)
LEMMA DispatcherTyped ==
    ASSUME IInv
    PROVE  DispatcherTypeOK
<1>1. ASSUME NEW h \in EventHandlers
      PROVE  Registered(h) = (since[h] > 0)
  <2>1. since[h] > 0 => \E i \in 1 .. Len(registered) : registered[i] = h
    BY DEF IInv, RegisteredInv
  <2>2. (\E i \in 1 .. Len(registered) : registered[i] = h) => since[h] > 0
    BY DEF IInv, RegisteredInv
  <2>3. since[h] \in Nat
    BY DispatcherAssumption DEF IInv, Types, DispatcherAssumption
  <2> DEFINE R == \E i \in 1 .. Len(registered) : registered[i] = h
  <2>4. R = (since[h] > 0)
    <3>1. CASE since[h] > 0
      BY <2>1, <3>1
    <3>2. CASE ~(since[h] > 0)
      <4>1. ~R
        BY <2>2, <3>2
      <4> HIDE DEF R
      <4> DEFINE S == since[h] > 0
      <4>2. ~S
        BY <3>2
      <4> HIDE DEF S
      <4>3. R \in BOOLEAN /\ S \in BOOLEAN
        BY <4>1, <4>2 DEF R, S
      <4>4. R = S
        BY <4>1, <4>2, <4>3
      <4> QED
        BY <4>4 DEF S
    <3> QED
      BY <3>1, <3>2
  <2> QED
    BY <2>4 DEF Registered
<1> QED
  BY <1>1 DEF IInv, Types, DispatcherTypeOK
-----------------------------------------------------------------------------
(* A message is delivered once more only as long as its retries are not    *)
(* used up.                                                                *)
DeliveredInv ==
    /\ leg.delivered <= TraceRetries + 1 /\ leg.run <= KafkaHandlers
    /\ leg.tries <= KafkaTries
    /\ leg.at \in {"publish", "publishing"} => leg.delivered = 0
    /\ leg.at = "wire" \/ leg.again => leg.delivered <= TraceRetries

(* The span that is carried is one there is, and a parent is older than    *)
(* the span.                                                               *)
ParentsInv ==
    /\ carried <= Len(spans)
    /\ \A i \in 1 .. Len(spans) : spans[i].parent < i

TraceBounds == DeliveredInv /\ ParentsInv

LEMMA DeliveredKeeps ==
    ASSUME TraceInv, DeliveredInv, JourneyNext
    PROVE  DeliveredInv'
<1>1. /\ leg \in Legs /\ leg.delivered \in Nat /\ leg.run \in Nat
      /\ leg.tries \in Nat
      /\ TraceRetries \in Nat /\ KafkaHandlers \in Nat /\ KafkaHandlers >= 1
      /\ KafkaTries \in Nat
  BY MessageTraceAssumption DEF TraceInv, TraceTypes, Legs, MessageTraceAssumption
<1>2. ASSUME leg'.delivered = leg.delivered, leg'.run <= KafkaHandlers,
             leg'.tries <= KafkaTries, leg'.again <=> leg.again,
             \/ leg'.at \in {"over", "consume", "retry", "handle"}
             \/ leg.at \in {"publish", "publishing"}
             \/ leg'.at = "wire" /\ leg.again
      PROVE  DeliveredInv'
  <2>1. leg'.at \notin {"publish", "publishing"} \/ leg.at \in {"publish", "publishing"}
    BY <1>2
  <2> QED
    BY <1>1, <1>2, <2>1 DEF DeliveredInv
<1>same. leg'.run = leg.run /\ leg'.tries = leg.tries =>
             leg'.run <= KafkaHandlers /\ leg'.tries <= KafkaTries
  BY DEF DeliveredInv
<1>3. CASE InjectTraceContext
  <2>1. /\ leg'.delivered = leg.delivered /\ leg'.run = leg.run /\ leg'.tries = leg.tries
        /\ leg'.again <=> leg.again
        /\ leg.at = "publish"
    BY <1>1, <1>3 DEF InjectTraceContext, Legs
  <2> QED
    BY <1>2, <1>same, <2>1
<1>4. ASSUME NEW cause \in Causes, NEW arrives \in BOOLEAN, PublishReturned(cause, arrives)
      PROVE  DeliveredInv'
  <2>1. /\ leg'.delivered = leg.delivered /\ leg'.run = leg.run /\ leg'.tries = leg.tries
        /\ leg'.again <=> leg.again
        /\ leg.at = "publishing"
    BY <1>1, <1>4 DEF PublishReturned, Legs
  <2> QED
    BY <1>2, <1>same, <2>1
<1>5. CASE ExtractTraceContext
  <2>1. /\ leg.at = "wire" /\ leg'.at = "consume" /\ leg'.delivered = leg.delivered + 1
        /\ leg'.run = 0 /\ leg'.tries = 0 /\ ~leg'.again
    BY <1>1, <1>5 DEF ExtractTraceContext, Legs
  <2> QED
    BY <1>1, <2>1 DEF DeliveredInv
<1>6. CASE CallHandler
  <2>1. /\ leg'.at = "handle" /\ leg'.delivered = leg.delivered /\ leg'.run = leg.run + 1
        /\ leg'.tries = leg.tries /\ (leg'.again <=> leg.again)
    BY <1>1, <1>6 DEF CallHandler, Legs
  <2>2. leg.run + 1 <= KafkaHandlers
    BY <1>1, <1>6 DEF CallHandler, Handlers
  <2> QED
    BY <1>1, <2>1, <2>2 DEF DeliveredInv
<1>7. ASSUME NEW ok \in BOOLEAN, HandlerReturned(ok)
      PROVE  DeliveredInv'
  <2> DEFINE next == IF TriedInProcess /\ ~ok THEN "retry" ELSE "consume"
             again == (~Kafka /\ ~ok /\ ~journey.autoAck) /\ leg.delivered <= TraceRetries
  <2>1. again => leg.delivered <= TraceRetries
    OBVIOUS
  <2>2. leg' = [leg EXCEPT !.at = next, !.failed = @ \/ (~ok /\ ~TriedInProcess),
                           !.again = again]
    BY <1>7 DEF HandlerReturned
  <2>next. next \in {"retry", "consume"}
    OBVIOUS
  <2> HIDE DEF again, next
  <2>3. /\ leg'.at = next /\ leg'.delivered = leg.delivered /\ leg'.run = leg.run
        /\ leg'.tries = leg.tries /\ leg'.again = again
    BY <1>1, <2>2 DEF Legs
  <2> QED
    BY <1>1, <2>1, <2>3, <2>next DEF DeliveredInv
<1>8. ASSUME NEW taken \in BOOLEAN, HandlerPanicked(taken)
      PROVE  DeliveredInv'
  <2>1. /\ leg'.delivered = leg.delivered /\ leg'.run = leg.run /\ leg'.tries = leg.tries
        /\ leg'.again <=> leg.again
        /\ leg'.at = "over"
    BY <1>1, <1>8 DEF HandlerPanicked, Legs
  <2> QED
    BY <1>2, <1>same, <2>1
<1>9. ASSUME NEW cancelled \in BOOLEAN, ConsumeReturns(cancelled)
      PROVE  DeliveredInv'
  <2>1. /\ leg'.delivered = leg.delivered /\ leg'.run = leg.run /\ leg'.tries = leg.tries
        /\ leg'.again <=> leg.again
        /\ leg'.at = "over" \/ (leg'.at = "wire" /\ leg.again)
    BY <1>1, <1>9 DEF ConsumeReturns, Legs
  <2> QED
    BY <1>2, <1>same, <2>1
<1>10. CASE TakeHandler
  <2>1. /\ leg'.at = "retry" /\ leg'.delivered = leg.delivered /\ leg'.run = leg.run + 1
        /\ leg'.tries = 0 /\ (leg'.again <=> leg.again)
    BY <1>1, <1>10 DEF TakeHandler, Legs
  <2>2. leg.run + 1 <= KafkaHandlers
    BY <1>1, <1>10 DEF TakeHandler, Handlers
  <2> QED
    BY <1>1, <1>2, <2>1, <2>2
<1>11. CASE TryHandler
  <2>1. /\ leg'.at = "handle" /\ leg'.delivered = leg.delivered /\ leg'.run = leg.run
        /\ leg'.tries = leg.tries + 1 /\ (leg'.again <=> leg.again)
    BY <1>1, <1>11 DEF TryHandler, Legs
  <2>2. leg.tries + 1 <= KafkaTries /\ leg.run <= KafkaHandlers
    BY <1>1, <1>11 DEF TryHandler, DeliveredInv
  <2> QED
    BY <1>1, <1>2, <2>1, <2>2
<1>12. CASE RetryCancelled
  <2>1. /\ leg'.at = "consume" /\ leg'.delivered = leg.delivered /\ leg'.run = KafkaHandlers
        /\ leg'.tries = leg.tries /\ (leg'.again <=> leg.again)
    BY <1>1, <1>12 DEF RetryCancelled, Legs
  <2>2. leg.tries <= KafkaTries
    BY DEF DeliveredInv
  <2> QED
    BY <1>1, <1>2, <2>1, <2>2
<1>13. ASSUME NEW taken \in BOOLEAN, SendToDLQ(taken)
       PROVE  DeliveredInv'
  <2>1. /\ leg'.at = "consume" /\ leg'.delivered = leg.delivered /\ leg'.run = leg.run
        /\ leg'.tries = leg.tries /\ (leg'.again <=> leg.again)
    BY <1>1, <1>13 DEF SendToDLQ, Legs
  <2> QED
    BY <1>2, <1>same, <2>1
<1> QED
  BY <1>3, <1>4, <1>5, <1>6, <1>7, <1>8, <1>9, <1>10, <1>11, <1>12, <1>13 DEF JourneyNext

LEMMA SpanStarted ==
    ASSUME TraceInv, ParentsInv, NEW w \in SpanRecords, spans' = Append(spans, w),
           w.parent <= Len(spans), carried' \in Nat, carried' <= Len(spans) + 1
    PROVE  ParentsInv'
<1>1. /\ Len(spans) \in Nat /\ Len(spans') = Len(spans) + 1
      /\ spans'[Len(spans) + 1] = w /\ w.parent \in Nat
      /\ \A i \in 1 .. Len(spans) : spans'[i] = spans[i]
  BY SpanAdded DEF TraceInv, SpanRecords
<1> QED
  BY <1>1 DEF ParentsInv

LEMMA SpanParents ==
    ASSUME ParentsInv, carried' = carried, Len(spans') = Len(spans),
           \A i \in 1 .. Len(spans) : spans'[i].parent = spans[i].parent
    PROVE  ParentsInv'
  BY DEF ParentsInv

LEMMA ParentsKeep ==
    ASSUME TraceInv, ParentsInv, JourneyNext
    PROVE  ParentsInv'
<1>1. /\ TraceTypes /\ LegInv /\ spans \in Seq(SpanRecords) /\ Len(spans) \in Nat
      /\ carried \in Nat /\ carried <= Len(spans)
      /\ journey.publisher \in BOOLEAN /\ journey.consumer \in BOOLEAN
  BY JourneyTyped DEF TraceInv, TraceTypes, ParentsInv
<1>2. ASSUME UNCHANGED <<spans, carried>>
      PROVE  ParentsInv'
  BY <1>2 DEF ParentsInv
<1>3. CASE InjectTraceContext
  <2>1. CASE ~journey.publisher
    BY <1>2, <1>3, <2>1 DEF InjectTraceContext
  <2>2. CASE journey.publisher
    <3>1. PICK w \in SpanRecords : spans' = Append(spans, w) /\ w.parent = 0
      <4> DEFINE open == [op |-> "publish", parent |-> 0, state |-> "open"]
                 bare == [op |-> "publish", parent |-> 0, state |-> "bare"]
      <4>1. open \in SpanRecords /\ open.parent = 0 /\ bare \in SpanRecords /\ bare.parent = 0
        BY DEF SpanRecords
      <4>2. spans' = Append(spans, open) \/ spans' = Append(spans, bare)
        BY <1>3, <2>2 DEF InjectTraceContext, StartSpan
      <4> QED
        BY <4>1, <4>2
    <3>2. carried' = carried \/ carried' = Len(spans) + 1 \/ carried' = 0
      BY <1>3, <2>2 DEF InjectTraceContext
    <3>3. carried' \in Nat /\ carried' <= Len(spans) + 1 /\ w.parent <= Len(spans)
      BY <1>1, <3>1, <3>2
    <3> QED
      BY <3>1, <3>3, SpanStarted
  <2> QED
    BY <1>1, <2>1, <2>2
<1>4. ASSUME NEW n \in 1 .. Len(spans), NEW state \in {"ok", "error", "bare"},
             spans' = EndSpan(n, state), carried' = carried
      PROVE  ParentsInv'
  BY <1>1, <1>4, SpanClosed, SpanParents
<1>5. ASSUME NEW cause \in Causes, NEW arrives \in BOOLEAN, PublishReturned(cause, arrives)
      PROVE  ParentsInv'
  <2>1. CASE ~journey.publisher
    BY <1>2, <1>5, <2>1 DEF PublishReturned
  <2>2. CASE journey.publisher
    <3> DEFINE ended == IF cause = "none" THEN "ok" ELSE "error"
    <3>1. spans' = EndSpan(Current, ended) /\ carried' = carried /\ leg.at = "publishing"
      BY <1>5, <2>2 DEF PublishReturned
    <3>2. ended \in {"ok", "error", "bare"}
      OBVIOUS
    <3> HIDE DEF ended
    <3>3. Len(spans) = 1 /\ spans[1].state = "open"
      BY <1>1, <2>2, <3>1 DEF LegInv
    <3>4. Current \in 1 .. Len(spans)
      BY <1>1, <3>3, CurrentIs
    <3> QED
      BY <1>4, <3>1, <3>2, <3>4
  <2> QED
    BY <1>1, <2>1, <2>2
<1>6. CASE ExtractTraceContext
  <2>1. CASE ~journey.consumer
    BY <1>2, <1>6, <2>1 DEF ExtractTraceContext
  <2>2. CASE journey.consumer
    <3> DEFINE from == IF journey.propagator THEN carried ELSE 0
               w == [op |-> "consume", parent |-> from, state |-> "open"]
    <3>1. spans' = Append(spans, w) /\ carried' = carried
      BY <1>6, <2>2 DEF ExtractTraceContext, StartSpan
    <3>2. from \in Nat /\ from <= Len(spans)
      BY <1>1
    <3>3. w \in SpanRecords /\ w.parent = from
      BY <3>2 DEF SpanRecords
    <3> HIDE DEF from, w
    <3>4. carried' \in Nat /\ carried' <= Len(spans) + 1 /\ w.parent <= Len(spans)
      BY <1>1, <3>1, <3>2, <3>3
    <3> QED
      BY <3>1, <3>3, <3>4, SpanStarted
  <2> QED
    BY <1>1, <2>1, <2>2
<1>7. journey.consumer /\ leg.at \in {"consume", "handle"} => Current \in 1 .. Len(spans)
  <2> SUFFICES ASSUME journey.consumer, leg.at \in {"consume", "handle"}
               PROVE  Current \in 1 .. Len(spans)
    OBVIOUS
  <2>1. PICK n \in 1 .. Len(spans) :
            Current = IF leg.at = "handle" /\ HandlersTraced THEN Len(spans) ELSE n
    BY <1>1, CurrentOpen
  <2> QED
    BY <1>1, <2>1
<1>8. CASE CallHandler
  <2>1. CASE ~HandlersTraced
    BY <1>2, <1>8, <2>1 DEF CallHandler
  <2>2. CASE HandlersTraced
    <3> DEFINE w == [op |-> "handle", parent |-> Current, state |-> "open"]
    <3>1. spans' = Append(spans, w) /\ carried' = carried /\ leg.at = "consume"
      BY <1>8, <2>2 DEF CallHandler, StartSpan
    <3>2. Current \in 1 .. Len(spans)
      BY <1>7, <2>2, <3>1 DEF HandlersTraced
    <3>3. w \in SpanRecords /\ w.parent = Current
      BY <1>1, <3>2 DEF SpanRecords
    <3> HIDE DEF w
    <3>4. carried' \in Nat /\ carried' <= Len(spans) + 1 /\ w.parent <= Len(spans)
      BY <1>1, <3>1, <3>2, <3>3
    <3> QED
      BY <3>1, <3>3, <3>4, SpanStarted
  <2> QED
    BY <2>1, <2>2
<1>9. ASSUME NEW ok \in BOOLEAN, HandlerReturned(ok)
      PROVE  ParentsInv'
  <2>1. CASE ~HandlersTraced
    BY <1>2, <1>9, <2>1 DEF HandlerReturned
  <2>2. CASE HandlersTraced
    <3> DEFINE ended == IF ok THEN "ok" ELSE "error"
    <3>1. spans' = EndSpan(Current, ended) /\ carried' = carried /\ leg.at = "handle"
      BY <1>9, <2>2 DEF HandlerReturned
    <3>2. ended \in {"ok", "error", "bare"}
      OBVIOUS
    <3> HIDE DEF ended
    <3>3. Current \in 1 .. Len(spans)
      BY <1>7, <2>2, <3>1 DEF HandlersTraced
    <3> QED
      BY <1>4, <3>1, <3>2, <3>3
  <2> QED
    BY <2>1, <2>2
<1>10. ASSUME NEW taken \in BOOLEAN, HandlerPanicked(taken)
       PROVE  ParentsInv'
  <2>1. /\ DOMAIN spans = 1 .. Len(spans) /\ carried' = carried
        /\ spans' = [i \in DOMAIN spans |->
                        IF spans[i].state = "open" THEN SpanEnded(spans[i], "bare") ELSE spans[i]]
    BY <1>1, <1>10 DEF HandlerPanicked
  <2>2. Len(spans') = Len(spans)
    BY <1>1, <2>1
  <2>3. \A i \in 1 .. Len(spans) : spans'[i].parent = spans[i].parent
    BY <2>1 DEF SpanEnded
  <2> QED
    BY <2>1, <2>2, <2>3, SpanParents
<1>11. ASSUME NEW cancelled \in BOOLEAN, ConsumeReturns(cancelled)
       PROVE  ParentsInv'
  <2>1. CASE ~journey.consumer
    BY <1>2, <1>11, <2>1 DEF ConsumeReturns
  <2>2. CASE journey.consumer
    <3> DEFINE ended == IF Kafka \/ ~leg.failed THEN "ok" ELSE "error"
    <3>1. spans' = EndSpan(Current, ended) /\ carried' = carried /\ leg.at = "consume"
      BY <1>11, <2>2 DEF ConsumeReturns
    <3>2. ended \in {"ok", "error", "bare"}
      OBVIOUS
    <3> HIDE DEF ended
    <3> QED
      BY <1>4, <1>7, <2>2, <3>1, <3>2
  <2> QED
    BY <1>1, <2>1, <2>2
<1>12. CASE TakeHandler \/ TryHandler \/ RetryCancelled
  BY <1>2, <1>12 DEF TakeHandler, TryHandler, RetryCancelled
<1>13. ASSUME NEW taken \in BOOLEAN, SendToDLQ(taken)
       PROVE  ParentsInv'
  BY <1>2, <1>13 DEF SendToDLQ
<1> QED
  BY <1>3, <1>5, <1>6, <1>8, <1>9, <1>10, <1>11, <1>12, <1>13 DEF JourneyNext

LEMMA TraceBoundsKeep ==
    ASSUME TraceInv, TraceBounds, JourneyNext \/ UNCHANGED traceVars
    PROVE  TraceBounds'
<1>1. CASE JourneyNext
  BY <1>1, DeliveredKeeps, ParentsKeep DEF TraceBounds
<1>2. CASE UNCHANGED traceVars
  BY <1>2 DEF traceVars, TraceBounds, DeliveredInv, ParentsInv
<1> QED
  BY <1>1, <1>2

LEMMA TraceTyped ==
    ASSUME TraceInv, TraceBounds
    PROVE  TraceTypeOK
<1>1. /\ journey \in Journeys /\ leg \in Legs /\ carried \in Nat
      /\ spans \in Seq(SpanRecords) /\ Len(spans) \in Nat /\ meters \in [MeterNames -> Nat]
      /\ TraceRetries \in Nat /\ KafkaHandlers \in Nat /\ KafkaTries \in Nat
  BY MessageTraceAssumption DEF TraceInv, TraceTypes, MessageTraceAssumption
<1>2. /\ leg.at \in {"publish", "publishing", "wire", "consume", "retry", "handle", "over"}
      /\ leg.delivered \in 0 .. TraceRetries + 1 /\ leg.run \in 0 .. KafkaHandlers
      /\ leg.tries \in 0 .. KafkaTries
      /\ carried \in 0 .. Len(spans)
  BY <1>1 DEF Legs, TraceBounds, DeliveredInv, ParentsInv
<1>3. ASSUME NEW i \in 1 .. Len(spans)
      PROVE  /\ spans[i].op \in {"publish", "consume", "handle"}
             /\ spans[i].parent \in 0 .. i - 1
             /\ spans[i].state \in {"open", "ok", "error", "bare"}
  <2>1. spans[i] \in SpanRecords /\ spans[i].parent < i
    BY <1>1 DEF TraceBounds, ParentsInv
  <2> QED
    BY <1>1, <2>1 DEF SpanRecords
<1> QED
  BY <1>1, <1>2, <1>3 DEF TraceTypeOK
-----------------------------------------------------------------------------
(* How many migrations a goroutine has run: one that goes up and holds the *)
(* lock has run no more than there are versions below where it is.         *)
RanBounds(c) ==
    /\ runner[c].at \in {"none", "lock"} => runner[c].ran = 0
    /\ runner[c].ran <= Migrations
    /\ database.lock = c /\ MigratorCalls[c] = "up" =>
           /\ runner[c].ran <= database.version
           /\ runner[c].at = "body" => database.version >= 1

MigratorBounds ==
    database.applied \subseteq 1 .. Migrations /\ \A c \in CallNames : RanBounds(c)

(* A step that neither runs a migration nor changes the version.           *)
LEMMA VersionStays ==
    ASSUME MigratorInv, MigratorBounds,
           database'.version = database.version, database'.applied = database.applied,
           \A d \in CallNames :
               /\ runner'[d].ran = runner[d].ran
               /\ runner'[d].at \in {"none", "lock"} => runner[d].at \in {"none", "lock"}
               /\ runner'[d].at = "body" => runner[d].at = "body"
               /\ database'.lock = d =>
                      \/ database.lock = d
                      \/ runner[d].at = "lock" /\ runner'[d].at # "body"
    PROVE  MigratorBounds'
<1>1. database.version \in Nat
  BY MigratorAssumption DEF MigratorInv, MigratorTypes, Databases, MigratorAssumption
<1>2. ASSUME NEW d \in CallNames
      PROVE  RanBounds(d)'
  <2>1. RanBounds(d)
    BY DEF MigratorBounds
  <2> QED
    BY <1>1, <2>1 DEF RanBounds
<1> QED
  BY <1>2 DEF MigratorBounds

LEMMA RunnerKeepsRan ==
    ASSUME MigratorTypes, NEW c \in CallNames, NEW at, NEW how,
           runner' = [runner EXCEPT ![c] = [at |-> at, result |-> how, ran |-> runner[c].ran]]
    PROVE  /\ runner'[c].at = at
           /\ \A d \in CallNames : runner'[d].ran = runner[d].ran
           /\ \A d \in CallNames : d # c => runner'[d] = runner[d]
<1>1. runner'[c] = [at |-> at, result |-> how, ran |-> runner[c].ran]
      /\ \A d \in CallNames : d # c => runner'[d] = runner[d]
  BY DEF MigratorTypes
<1> QED
  BY <1>1

LEMMA MigratorBoundsStart ==
    ASSUME MigratorInit
    PROVE  MigratorBounds
<1>1. Migrations \in Nat /\ Unlocked \notin CallNames
      /\ database = [version |-> 0, dirty |-> FALSE, applied |-> {}, lock |-> Unlocked]
      /\ \A c \in CallNames : runner[c].ran = 0
  BY MigratorAssumption DEF MigratorAssumption, CallNames, MigratorInit
<1> QED
  BY <1>1 DEF MigratorBounds, RanBounds

LEMMA SetDirtyBounds ==
    ASSUME MigratorInv, MigratorBounds, NEW c \in CallNames, SetDirty(c)
    PROVE  MigratorBounds'
<1>1. runner[c].at = "next" /\ connection[c] = "open" /\ Remaining(c)
  BY DEF SetDirty
<1>2. /\ database.lock = c /\ MigratorTypes
      /\ database.version \in 0 .. Migrations /\ Migrations \in Nat
  BY <1>1, Holder
<1>3. \/ MigratorCalls[c] = "up" /\ database.version < Migrations
      \/ MigratorCalls[c] = "down" /\ database.version > 0 /\ runner[c].ran = 0
  BY <1>1, MigratorAssumption DEF Remaining, MigratorAssumption, CallNames
<1>4. /\ database'.applied = database.applied /\ database'.lock = c
      /\ MigratorCalls[c] = "up" => database'.version = database.version + 1
  BY <1>2 DEF SetDirty, MigratorTypes, Databases
<1>5. /\ runner'[c].at = "body" /\ runner'[c].ran = runner[c].ran + 1
      /\ \A d \in CallNames : d # c => runner'[d] = runner[d]
  <2> DEFINE w == [at |-> "body", result |-> runner[c].result, ran |-> runner[c].ran + 1]
  <2>1. w.at = "body" /\ w.ran = runner[c].ran + 1
    OBVIOUS
  <2>2. runner' = [runner EXCEPT ![c] = w]
    BY DEF SetDirty
  <2> HIDE DEF w
  <2> QED
    BY <1>2, <2>1, <2>2 DEF MigratorTypes
<1>6. runner[c].ran \in Nat
  BY <1>2 DEF MigratorTypes, RunnerStates
<1>7. RanBounds(c)'
  <2>1. RanBounds(c)
    BY DEF MigratorBounds
  <2> QED
    BY <1>2, <1>3, <1>4, <1>5, <1>6, <2>1 DEF RanBounds
<1>8. ASSUME NEW d \in CallNames, d # c
      PROVE  RanBounds(d)'
  BY <1>4, <1>5, <1>8 DEF MigratorBounds, RanBounds
<1> QED
  BY <1>4, <1>7, <1>8 DEF MigratorBounds

LEMMA RunBodyBounds ==
    ASSUME MigratorInv, MigratorBounds, NEW c \in CallNames, RunBody(c)
    PROVE  MigratorBounds'
<1>1. runner[c].at = "body" /\ connection[c] = "open" /\ runner' = RunnerAt(c, "mark")
  BY DEF RunBody
<1>2. /\ database.lock = c /\ MigratorTypes
      /\ database.version \in 0 .. Migrations /\ Migrations \in Nat
  BY <1>1, Holder
<1>3. /\ database'.version = database.version /\ database'.lock = c
      /\ database'.applied = IF MigratorCalls[c] = "up"
                             THEN database.applied \cup {database.version}
                             ELSE database.applied \ {database.version + 1}
  BY <1>2 DEF RunBody, MigratorTypes, Databases
<1>4. /\ runner'[c].at = "mark"
      /\ \A d \in CallNames : runner'[d].ran = runner[d].ran
      /\ \A d \in CallNames : d # c => runner'[d] = runner[d]
  BY <1>1, <1>2, RunnerKeepsRan DEF RunnerAt
<1>5. MigratorCalls[c] = "up" => database.version \in 1 .. Migrations
  BY <1>1, <1>2 DEF MigratorBounds, RanBounds
<1>6. database'.applied \subseteq 1 .. Migrations
  BY <1>3, <1>5 DEF MigratorBounds
<1>7. ASSUME NEW d \in CallNames
      PROVE  RanBounds(d)'
  <2>1. RanBounds(d)
    BY DEF MigratorBounds
  <2>2. CASE d = c
    BY <1>2, <1>3, <1>4, <2>1, <2>2 DEF RanBounds
  <2>3. CASE d # c
    BY <1>3, <1>4, <2>1, <2>3 DEF RanBounds
  <2> QED
    BY <2>2, <2>3
<1> QED
  BY <1>6, <1>7 DEF MigratorBounds

LEMMA ForceBounds ==
    ASSUME MigratorInv, MigratorBounds, NEW c \in CallNames, NEW v \in 0 .. Migrations,
           ForceVersion(c, v)
    PROVE  MigratorBounds'
<1>1. MigratorTypes /\ Unlocked \notin CallNames
  BY MigratorAssumption DEF MigratorInv, MigratorAssumption, CallNames
<1>2. database'.lock = Unlocked /\ database'.applied = database.applied
  BY <1>1 DEF ForceVersion, MigratorTypes, Databases
<1>3. /\ runner'[c].at = "over"
      /\ \A d \in CallNames : runner'[d].ran = runner[d].ran
      /\ \A d \in CallNames : d # c => runner'[d] = runner[d]
  BY <1>1, RunnerKeepsRan DEF ForceVersion
<1>4. ASSUME NEW d \in CallNames
      PROVE  RanBounds(d)'
  <2>1. RanBounds(d)
    BY DEF MigratorBounds
  <2>2. database'.lock # d
    BY <1>1, <1>2
  <2>3. CASE d = c
    BY <1>3, <2>1, <2>2, <2>3 DEF RanBounds
  <2>4. CASE d # c
    BY <1>3, <2>1, <2>2, <2>4 DEF RanBounds
  <2> QED
    BY <2>3, <2>4
<1> QED
  BY <1>2, <1>4 DEF MigratorBounds

LEMMA MigratorBoundsKeep ==
    ASSUME MigratorInv, MigratorBounds, MigratorNext \/ UNCHANGED migratorVars
    PROVE  MigratorBounds'
<1>1. MigratorTypes /\ LockHeldInv /\ Unlocked \notin CallNames
  BY MigratorAssumption DEF MigratorInv, MigratorAssumption, CallNames
<1>2. ASSUME NEW c \in CallNames, NEW how, Ended(c, how)
      PROVE  MigratorBounds'
  <2>1. /\ runner'[c].at = "over"
        /\ \A d \in CallNames : runner'[d].ran = runner[d].ran
        /\ \A d \in CallNames : d # c => runner'[d] = runner[d]
    BY <1>1, <1>2, RunnerKeepsRan DEF Ended
  <2>2. /\ database'.version = database.version /\ database'.applied = database.applied
        /\ database'.lock \in {database.lock, Unlocked}
    BY <1>1, <1>2 DEF Ended, MigratorTypes, Databases
  <2> QED
    BY <1>1, <2>1, <2>2, VersionStays
<1>3. ASSUME NEW c \in CallNames, NEW opens \in BOOLEAN, RunMigration(c, opens)
      PROVE  MigratorBounds'
  <2>1. database' = database
    BY <1>3 DEF RunMigration
  <2>2. CASE ~opens
    BY <1>3, <2>1, <2>2, VersionStays DEF RunMigration
  <2>3. CASE opens
    <3>1. runner' = RunnerAt(c, "lock")
      BY <1>3, <2>3 DEF RunMigration
    <3>2. runner[c].at = "none"
      BY <1>3 DEF RunMigration, MigratorInv, SidesInv
    <3>3. /\ runner'[c].at = "lock"
          /\ \A d \in CallNames : runner'[d].ran = runner[d].ran
          /\ \A d \in CallNames : d # c => runner'[d] = runner[d]
      BY <1>1, <3>1, RunnerKeepsRan DEF RunnerAt
    <3> QED
      BY <2>1, <3>2, <3>3, VersionStays
  <2> QED
    BY <2>2, <2>3
<1>4. ASSUME NEW c \in CallNames, Lock(c)
      PROVE  MigratorBounds'
  <2>1. CASE Ended(c, "failed")
    BY <1>2, <2>1
  <2>2. CASE runner' = RunnerAt(c, "next") /\ database' = [database EXCEPT !.lock = c]
    <3>1. /\ runner'[c].at = "next"
          /\ \A d \in CallNames : runner'[d].ran = runner[d].ran
          /\ \A d \in CallNames : d # c => runner'[d] = runner[d]
      BY <1>1, <2>2, RunnerKeepsRan DEF RunnerAt
    <3>2. /\ database'.version = database.version /\ database'.applied = database.applied
          /\ database'.lock = c /\ runner[c].at = "lock"
      BY <1>1, <1>4, <2>2 DEF Lock, MigratorTypes, Databases
    <3> QED
      BY <3>1, <3>2, VersionStays
  <2> QED
    BY <1>4, <2>1, <2>2 DEF Lock
<1>5. ASSUME NEW c \in CallNames, SetClean(c)
      PROVE  MigratorBounds'
  <2>1. runner' = RunnerAt(c, "next") /\ database' = [database EXCEPT !.dirty = FALSE]
        /\ runner[c].at = "mark"
    BY <1>5 DEF SetClean
  <2>2. /\ runner'[c].at = "next"
        /\ \A d \in CallNames : runner'[d].ran = runner[d].ran
        /\ \A d \in CallNames : d # c => runner'[d] = runner[d]
    BY <1>1, <2>1, RunnerKeepsRan DEF RunnerAt
  <2>3. /\ database'.version = database.version /\ database'.applied = database.applied
        /\ database'.lock = database.lock
    BY <1>1, <2>1 DEF MigratorTypes, Databases
  <2> QED
    BY <2>1, <2>2, <2>3, VersionStays
<1>6. ASSUME NEW c \in CallNames, CloseRunner(c)
      PROVE  MigratorBounds'
  <2>1. /\ database'.version = database.version /\ database'.applied = database.applied
        /\ database'.lock \in {database.lock, Unlocked} /\ runner' = runner
    BY <1>1, <1>6 DEF CloseRunner, MigratorTypes, Databases
  <2> QED
    BY <1>1, <2>1, VersionStays
<1>7. ASSUME NEW c \in CallNames, RunReturns(c) \/ ContextEnds(c)
      PROVE  MigratorBounds'
  BY <1>7, VersionStays DEF RunReturns, ContextEnds
<1>8. CASE UNCHANGED migratorVars
  BY <1>8, VersionStays DEF migratorVars
<1>9. CASE MigratorNext
  <2>1. PICK c \in CallNames : CallStep(c)
    BY <1>9 DEF MigratorNext
  <2>2. CASE RunnerFails(c) \/ RunnerStops(c) \/ RunnerEnds(c)
    BY <1>2, <2>2 DEF RunnerFails, RunnerStops, RunnerEnds
  <2>3. CASE SetDirty(c) \/ RunBody(c)
    BY <2>3, SetDirtyBounds, RunBodyBounds
  <2>4. CASE \E v \in 0 .. Migrations : ForceVersion(c, v)
    BY <2>4, ForceBounds
  <2> QED
    BY <1>3, <1>4, <1>5, <1>6, <1>7, <2>1, <2>2, <2>3, <2>4 DEF CallStep
<1> QED
  BY <1>8, <1>9

LEMMA MigratorTyped ==
    ASSUME MigratorInv, MigratorBounds
    PROVE  MigratorTypeOK
<1>1. MigratorTypes /\ Migrations \in Nat
  BY MigratorAssumption DEF MigratorInv, MigratorAssumption
<1>2. ASSUME NEW c \in CallNames
      PROVE  runner[c] \in [at : {"none", "lock", "next", "body", "mark", "over"},
                       result : {"none", "ok", "noChange", "failed", "stopped"},
                       ran : 0 .. Migrations]
  <2>1. runner[c] \in RunnerStates /\ runner[c].ran <= Migrations /\ runner[c].ran \in Nat
    BY <1>1 DEF MigratorTypes, MigratorBounds, RanBounds, RunnerStates
  <2>2. runner[c].ran \in 0 .. Migrations
    BY <1>1, <2>1
  <2> QED
    BY <2>1, <2>2 DEF RunnerStates
<1>3. runner \in [CallNames -> [at : {"none", "lock", "next", "body", "mark", "over"},
                       result : {"none", "ok", "noChange", "failed", "stopped"},
                       ran : 0 .. Migrations]]
  BY <1>1, <1>2 DEF MigratorTypes
<1>4. /\ database.version \in 0 .. Migrations /\ database.dirty \in BOOLEAN
      /\ database.lock \in CallNames \cup {Unlocked}
  BY <1>1 DEF MigratorTypes, Databases
<1> QED
  BY <1>1, <1>3, <1>4 DEF MigratorTypes, MigratingStates, MigratorBounds, MigratorTypeOK
-----------------------------------------------------------------------------
(* Settings.  The configurations a library's options can make.             *)
Configs(names, strategies) ==
    [numbers : [names -> Int], named : BOOLEAN, brokers : BOOLEAN,
     cors : DOMAIN Origins \cup {"off"}, strategy : strategies \cup {"none"},
     skipVerify : BOOLEAN, dlq : BOOLEAN]

SettingsBounds ==
    /\ library \in Libraries /\ options \in Seq(Options(library))
    /\ settings \in Configs(DOMAIN Defaults[library], StrategiesOf(library))
    /\ client \in {"none", "made", "invalid", "noBrokers", "noStrategy"}

(* What an option does to a configuration.                                 *)
Renumbered(s, n) == [s EXCEPT !.numbers = n]
Replaced(s, n, b) == [s EXCEPT !.numbers = n, !.named = b]
Renamed(s, b) == [s EXCEPT !.named = b]
Unverified(s, b) == [s EXCEPT !.skipVerify = b]
Brokered(s, b) == [s EXCEPT !.brokers = @ \/ b]
DeadLettered(s, b) == [s EXCEPT !.dlq = b]
DeadLetteredToo(s, b) == [s EXCEPT !.dlq = @ \/ b]
Secured(s, x) == [s EXCEPT !.strategy = x]
SecuredAnew(s, x, b) == [s EXCEPT !.strategy = x, !.skipVerify = b]
Crossing(s, x) == [s EXCEPT !.cors = x]

LEMMA ConfigNumbers ==
    ASSUME NEW names, NEW strategies, NEW s \in Configs(names, strategies),
           NEW n \in [names -> Int]
    PROVE  Renumbered(s, n) \in Configs(names, strategies)
  BY DEF Configs, Renumbered

LEMMA ConfigNames ==
    ASSUME NEW names, NEW strategies, NEW s \in Configs(names, strategies),
           NEW n \in [names -> Int], NEW b \in BOOLEAN
    PROVE  Replaced(s, n, b) \in Configs(names, strategies)
  BY DEF Configs, Replaced

LEMMA ConfigFlags ==
    ASSUME NEW names, NEW strategies, NEW s \in Configs(names, strategies),
           NEW b \in BOOLEAN
    PROVE  /\ Unverified(s, b) \in Configs(names, strategies)
           /\ Brokered(s, b) \in Configs(names, strategies)
           /\ DeadLettered(s, b) \in Configs(names, strategies)
           /\ DeadLetteredToo(s, b) \in Configs(names, strategies)
           /\ Renamed(s, b) \in Configs(names, strategies)
  BY DEF Configs, Unverified, Brokered, DeadLettered, DeadLetteredToo, Renamed

LEMMA ConfigChoices ==
    ASSUME NEW names, NEW strategies, NEW s \in Configs(names, strategies),
           NEW x \in strategies, NEW b \in BOOLEAN
    PROVE  /\ Secured(s, x) \in Configs(names, strategies)
           /\ SecuredAnew(s, x, b) \in Configs(names, strategies)
  BY DEF Configs, Secured, SecuredAnew

LEMMA ConfigOrigins ==
    ASSUME NEW names, NEW strategies, NEW s \in Configs(names, strategies),
           NEW x \in DOMAIN Origins
    PROVE  Crossing(s, x) \in Configs(names, strategies)
  BY DEF Configs, Crossing

LEMMA DefaultsTyped ==
    /\ Defaults.kafka \in [DOMAIN Defaults.kafka -> Int]
    /\ Defaults.rabbitmq \in [DOMAIN Defaults.rabbitmq -> Int]
    /\ Defaults.http \in [DOMAIN Defaults.http -> Int]
    /\ Defaults["kafka"] = Defaults.kafka
    /\ Defaults["rabbitmq"] = Defaults.rabbitmq
    /\ Defaults["http"] = Defaults.http
<1>1. Defaults.kafka \in [DOMAIN Defaults.kafka -> Int]
  BY DEF Defaults
<1>2. Defaults.rabbitmq \in [DOMAIN Defaults.rabbitmq -> Int]
  BY DEF Defaults
<1>3. Defaults.http \in [DOMAIN Defaults.http -> Int]
  BY DEF Defaults
<1> QED
  BY <1>1, <1>2, <1>3

LEMMA OptionFacts ==
    ASSUME library \in Libraries, NEW o \in Options(library)
    PROVE  /\ o.option = "number" => o.field \in DOMAIN Defaults[library] /\ o.value \in Numbers
           /\ o.option = "strategy" => o.value \in StrategiesOf(library)
           /\ o.option = "reconnect" =>
                  library = "rabbitmq" /\ o.values \in [Reconnects -> Numbers \cap {0, 1, 5}]
           /\ o.option = "config" => library = "rabbitmq" /\ o.value \in {"zero", "retriesBelowZero"}
           /\ o.option \in {"dlqEnabled", "dlqTopic", "skipVerify", "brokers", "name"} =>
                  o.on \in BOOLEAN
           /\ o.option = "cors" => o.value \in DOMAIN Origins
           /\ o.option \in {"number", "strategy", "reconnect", "config", "dlqEnabled",
                            "dlqTopic", "skipVerify", "brokers", "name", "cors"}
<1>1. library \in {"kafka", "rabbitmq", "http"}
  BY SettingsAssumption DEF SettingsAssumption
<1>2. CASE library = "kafka"
  BY <1>2, DefaultsTyped DEF Options
<1>3. CASE library = "rabbitmq"
  BY <1>3, DefaultsTyped DEF Options
<1>4. CASE library = "http"
  BY <1>4, DefaultsTyped DEF Options
<1> QED
  BY <1>1, <1>2, <1>3, <1>4

LEMMA AppliedTyped ==
    ASSUME library \in Libraries, NEW o \in Options(library),
           NEW s \in Configs(DOMAIN Defaults[library], StrategiesOf(library))
    PROVE  Applied(s, o) \in Configs(DOMAIN Defaults[library], StrategiesOf(library))
<1> DEFINE names == DOMAIN Defaults[library]
           strategies == StrategiesOf(library)
           w == Applied(s, o)
<1>1. /\ Numbers \subseteq Int /\ s \in Configs(names, strategies)
      /\ o.option = "number" => o.field \in names /\ o.value \in Numbers
      /\ o.option = "strategy" => o.value \in strategies
      /\ o.option = "reconnect" => o.values \in [Reconnects -> Numbers \cap {0, 1, 5}]
      /\ o.option = "config" =>
             library = "rabbitmq" /\ o.value \in {"zero", "retriesBelowZero"}
      /\ o.option \in {"dlqEnabled", "dlqTopic", "skipVerify", "brokers", "name"} =>
             o.on \in BOOLEAN
      /\ o.option = "cors" => o.value \in DOMAIN Origins
      /\ o.option \in {"number", "strategy", "reconnect", "config", "dlqEnabled",
                       "dlqTopic", "skipVerify", "brokers", "name", "cors"}
  BY OptionFacts, SettingsAssumption DEF SettingsAssumption
<1>2. library = "rabbitmq" => names = DOMAIN Defaults.rabbitmq
  BY DefaultsTyped
<1>3. s.numbers \in [names -> Int] /\ names = DOMAIN s.numbers
  <2>1. s.numbers \in [names -> Int]
    BY <1>1 DEF Configs
  <2> QED
    BY <2>1
<1> HIDE DEF names, strategies
<1>4. ASSUME o.option = "number"
      PROVE  w \in Configs(names, strategies)
  <2> DEFINE n == [s.numbers EXCEPT ![o.field] = o.value]
  <2>1. n \in [names -> Int]
    BY <1>1, <1>3, <1>4
  <2>2. w = s \/ w = Renumbered(s, n)
    BY <1>4 DEF Applied, WithNumber, Renumbered
  <2> HIDE DEF n, w
  <2> QED
    BY <1>1, <2>1, <2>2, ConfigNumbers
<1>5. ASSUME o.option = "strategy"
      PROVE  w \in Configs(names, strategies)
  <2> DEFINE b == FALSE
             x == o.value
  <2>1. b \in BOOLEAN /\ (w = SecuredAnew(s, x, b)
                          \/ w = Secured(s, x))
    BY <1>5 DEF Applied, WithStrategy, Secured, SecuredAnew
  <2>2. x \in strategies
    BY <1>1, <1>5
  <2> HIDE DEF b, w, x
  <2> QED
    BY <1>1, <2>1, <2>2, ConfigChoices
<1>6. ASSUME o.option = "reconnect"
      PROVE  w \in Configs(names, strategies)
  <2> DEFINE n == [f \in DOMAIN s.numbers |-> IF f \in Reconnects THEN o.values[f] ELSE s.numbers[f]]
  <2>1. n \in [names -> Int]
    BY <1>1, <1>3, <1>6
  <2>2. w = Renumbered(s, n)
    BY <1>6 DEF Applied, WithReconnectConfig, Renumbered
  <2> HIDE DEF n, w
  <2> QED
    BY <1>1, <2>1, <2>2, ConfigNumbers
<1>7. ASSUME o.option = "config"
      PROVE  w \in Configs(names, strategies)
  <2> DEFINE m == [f \in DOMAIN s.numbers |-> 0]
             n == [Defaults.rabbitmq EXCEPT !.MaxRetries = -1]
             b == o.value # "zero"
  <2>1. m \in [names -> Int]
    BY <1>3
  <2>2. n \in [names -> Int]
    BY <1>1, <1>2, <1>7, DefaultsTyped
  <2>3. b \in BOOLEAN /\ (w = Replaced(s, m, b)
                          \/ w = Replaced(s, n, b))
    <3>1. CASE o.value = "zero"
      BY <1>7, <3>1 DEF Applied, WithConfig, Replaced
    <3>2. CASE o.value # "zero"
      BY <1>7, <3>2 DEF Applied, WithConfig, Replaced
    <3> QED
      BY <3>1, <3>2
  <2> HIDE DEF m, n, b, w
  <2> QED
    BY <1>1, <2>1, <2>2, <2>3, ConfigNames
<1>8. ASSUME o.option \in {"dlqEnabled", "dlqTopic", "skipVerify", "brokers"}
      PROVE  w \in Configs(names, strategies)
  <2> DEFINE b == o.on
  <2>1. \/ w = DeadLettered(s, b) \/ w = DeadLetteredToo(s, b)
        \/ w = Unverified(s, b) \/ w = Brokered(s, b)
    BY <1>8 DEF Applied, WithDLQ, DeadLettered, DeadLetteredToo, Unverified, Brokered
  <2>2. b \in BOOLEAN
    BY <1>1, <1>8
  <2> HIDE DEF w, b
  <2> QED
    BY <1>1, <2>1, <2>2, ConfigFlags
<1>9. ASSUME o.option = "name"
      PROVE  w \in Configs(names, strategies)
  <2> DEFINE b == o.on
  <2>1. w = Renamed(s, b)
    BY <1>9 DEF Applied, Renamed
  <2>2. b \in BOOLEAN
    BY <1>1, <1>9
  <2> HIDE DEF w, b
  <2> QED
    BY <1>1, <1>3, <2>1, <2>2, ConfigFlags
<1>10. ASSUME o.option = "cors"
       PROVE  w \in Configs(names, strategies)
  <2>1. w = Crossing(s, o.value)
    BY <1>10 DEF Applied, Crossing
  <2> HIDE DEF w
  <2>2. Crossing(s, o.value) \in Configs(names, strategies)
    BY <1>1, <1>10, ConfigOrigins
  <2> QED
    BY <2>1, <2>2
<1> HIDE DEF w
<1> QED
  <2>1. w \in Configs(names, strategies)
    BY <1>1, <1>4, <1>5, <1>6, <1>7, <1>8, <1>9, <1>10
  <2> QED
    BY <2>1 DEF w, names, strategies

LEMMA SettingsBoundsStart ==
    ASSUME NEW l \in Libraries, SettingsStart(l)
    PROVE  SettingsBounds
<1>1. library = l /\ options = << >> /\ settings = Fresh(l) /\ client = "none"
  BY DEF SettingsStart
<1>2. l \in {"kafka", "rabbitmq", "http"}
  BY SettingsAssumption DEF SettingsAssumption
<1>3. Defaults[l] \in [DOMAIN Defaults[l] -> Int]
  BY <1>2, DefaultsTyped
<1>4. l = "kafka" => "CONFLUENT" \in StrategiesOf(l)
  BY DEF StrategiesOf
<1> DEFINE d == Defaults[l]
<1> HIDE DEF d
<1>5. Fresh(l) \in Configs(DOMAIN d, StrategiesOf(l))
  BY <1>3, <1>4 DEF Fresh, Configs, d
<1> QED
  BY <1>1, <1>5 DEF SettingsBounds, d

LEMMA SettingsBoundsKeep ==
    ASSUME SettingsBounds, SettingsNext \/ UNCHANGED settingsVars
    PROVE  SettingsBounds'
<1>1. library' = library
  BY DEF SettingsNext, Make, Give, settingsVars
<1>2. CASE Make
  <2>1. client' \in {"none", "made", "invalid", "noBrokers", "noStrategy"}
    BY <1>2 DEF Make
  <2> QED
    BY <1>2, <2>1 DEF SettingsBounds, Make
<1>3. CASE \E o \in Options(library) : Give(o)
  <2>1. PICK o \in Options(library) : Give(o)
    BY <1>3
  <2> DEFINE os == Options(library)
             all == Configs(DOMAIN Defaults[library], StrategiesOf(library))
  <2>2. options' = Append(options, o) /\ settings' = Applied(settings, o) /\ client' = client
    BY <2>1 DEF Give
  <2>3. settings' \in all
    BY <2>2, AppliedTyped DEF SettingsBounds
  <2>4. options' \in Seq(os)
    <3>1. options \in Seq(os)
      BY DEF SettingsBounds
    <3> HIDE DEF os
    <3>2. o \in os
      BY DEF os
    <3> QED
      BY <2>2, <3>1, <3>2
  <2>5. Options(library)' = os /\ (Configs(DOMAIN Defaults[library], StrategiesOf(library)))' = all
    BY <1>1
  <2> HIDE DEF os, all
  <2> QED
    BY <1>1, <2>2, <2>3, <2>4, <2>5 DEF SettingsBounds
<1>4. CASE UNCHANGED settingsVars
  BY <1>4 DEF SettingsBounds, settingsVars
<1> QED
  BY <1>2, <1>3, <1>4 DEF SettingsNext

LEMMA SettingsTyped ==
    ASSUME SettingsBounds
    PROVE  SettingsTypeOK
  BY DEF SettingsBounds, SettingsTypeOK, Configs

(* The option of a set that was given last, as the configuration has to    *)
(* remember it.                                                            *)
GivenAt(os, S) == {i \in 1 .. Len(os) : os[i] \in S}

HasLast(os, S) == GivenAt(os, S) = {} \/ \E m \in GivenAt(os, S) : \A j \in GivenAt(os, S) : m >= j

LastOf(os, S) == IF GivenAt(os, S) = {} THEN [option |-> "none"] ELSE os[Max(GivenAt(os, S))]

LEMMA LastIsGreatest ==
    ASSUME NEW J, J \subseteq Nat, NEW m \in J, \A j \in J : m >= j
    PROVE  Max(J) = m
<1>1. Max(J) \in J /\ \A j \in J : Max(J) >= j
  BY DEF Max
<1> DEFINE x == Max(J)
<1> HIDE DEF x
<1>2. x \in Nat /\ m \in Nat /\ x >= m /\ m >= x
  BY <1>1 DEF x
<1> QED
  BY <1>2 DEF x

LEMMA LastAppended ==
    ASSUME NEW T, NEW os \in Seq(T), NEW o \in T, NEW S, HasLast(os, S)
    PROVE  /\ HasLast(Append(os, o), S)
           /\ LastOf(Append(os, o), S) = IF o \in S THEN o ELSE LastOf(os, S)
<1> DEFINE n == Len(os)
           t == Append(os, o)
           J == GivenAt(os, S)
           K == GivenAt(t, S)
<1>1. /\ n \in Nat /\ Len(t) = n + 1 /\ t[n + 1] = o
      /\ \A i \in 1 .. n : t[i] = os[i]
  OBVIOUS
<1> HIDE DEF t
<1>2. J \subseteq 1 .. n /\ K = J \cup (IF o \in S THEN {n + 1} ELSE {})
  BY <1>1 DEF GivenAt
<1>3. CASE o \in S
  <2>1. n + 1 \in K /\ K \subseteq Nat /\ \A j \in K : n + 1 >= j
    BY <1>1, <1>2, <1>3
  <2> HIDE DEF K, n, J
  <2>2. Max(K) = n + 1
    BY <2>1, LastIsGreatest
  <2> QED
    BY <1>1, <1>3, <2>1, <2>2 DEF HasLast, LastOf, K, t
<1>4. CASE o \notin S
  <2>1. K = J
    BY <1>2, <1>4
  <2>2. J # {} => Max(J) \in 1 .. n
    <3>1. ASSUME NEW m \in J, \A j \in J : m >= j
          PROVE  Max(J) \in 1 .. n
      <4>1. J \subseteq Nat
        BY <1>1, <1>2
      <4>2. Max(J) = m
        BY <3>1, <4>1, LastIsGreatest
      <4> QED
        BY <1>2, <4>2
    <3> QED
      BY <3>1 DEF HasLast
  <2>3. HasLast(t, S)
    BY <2>1 DEF HasLast
  <2>4. LastOf(t, S) = LastOf(os, S)
    BY <1>1, <2>1, <2>2 DEF LastOf
  <2> QED
    BY <1>4, <2>3, <2>4 DEF t
<1> QED
  BY <1>3, <1>4

Numbering(f) ==
    {p \in Options(library) : p.option = "number" /\ p.field = f /\ InRange(f, p.value)}
Securing == {p \in Options(library) : p.option = "strategy"}
Verifying == {p \in Options(library) : p.option \in {"skipVerify", "strategy"}}

Remembered(o, default) == IF o.option = "none" THEN default ELSE o.value

UsableInv ==
    /\ \A S \in SUBSET Options(library) : HasLast(options, S)
    /\ library = "kafka" =>
           /\ \A f \in DOMAIN Defaults.kafka :
                  settings.numbers[f] = Remembered(LastOf(options, Numbering(f)), Defaults.kafka[f])
           /\ settings.strategy = Remembered(LastOf(options, Securing), "CONFLUENT")
           /\ settings.skipVerify =>
                  LastOf(options, Verifying) = [option |-> "skipVerify", on |-> TRUE]
    /\ library = "rabbitmq" =>
           settings.strategy = Remembered(LastOf(options, Securing), "none")
    /\ client = "made" /\ library = "rabbitmq" => RabbitValid(settings)
    /\ client = "made" /\ library = "http" => HttpValid(settings)

LEMMA LastEmpty ==
    ASSUME NEW S
    PROVE  HasLast(<< >>, S) /\ LastOf(<< >>, S).option = "none"
<1>1. GivenAt(<< >>, S) = {}
  BY DEF GivenAt
<1> QED
  BY <1>1 DEF HasLast, LastOf

LEMMA UsableStart ==
    ASSUME NEW l \in Libraries, SettingsStart(l)
    PROVE  UsableInv
<1>1. library = l /\ options = << >> /\ settings = Fresh(l) /\ client = "none"
  BY DEF SettingsStart
<1>2. l = "kafka" => Defaults[l] = Defaults.kafka
  BY DefaultsTyped
<1>3. /\ settings.numbers = Defaults[l] /\ settings.skipVerify = FALSE
      /\ settings.strategy = (IF l = "kafka" THEN "CONFLUENT" ELSE "none")
  BY <1>1 DEF Fresh
<1> QED
  BY <1>1, <1>2, <1>3, LastEmpty DEF UsableInv, Remembered

LEMMA KafkaApplies ==
    ASSUME library = "kafka", library \in Libraries, NEW o \in Options(library),
           NEW s \in Configs(DOMAIN Defaults[library], StrategiesOf(library)),
           NEW w, w = Applied(s, o)
    PROVE  /\ \A f \in DOMAIN Defaults.kafka :
                  w.numbers[f] = IF o \in Numbering(f) THEN o.value ELSE s.numbers[f]
           /\ w.strategy = IF o \in Securing THEN o.value ELSE s.strategy
           /\ w.skipVerify /\ o \notin Verifying => s.skipVerify
           /\ w.skipVerify /\ o \in Verifying => o = [option |-> "skipVerify", on |-> TRUE]
<1> DEFINE names == DOMAIN Defaults.kafka
           strategies == StrategiesOf(library)
<1>1. Defaults[library] = Defaults.kafka
  BY DefaultsTyped
<1>2. s \in Configs(names, strategies)
  BY <1>1
<1>3. /\ o.option \in {"number", "strategy", "dlqEnabled", "dlqTopic", "skipVerify", "brokers"}
      /\ o.option = "number" => o.field \in names
      /\ o.option = "skipVerify" => o.on \in BOOLEAN /\ o = [option |-> "skipVerify", on |-> o.on]
  BY <1>1 DEF Options
<1> HIDE DEF names, strategies
<1>4. s.numbers \in [names -> Int] /\ s.skipVerify \in BOOLEAN
  BY <1>2 DEF Configs
<1>5. CASE o.option = "number"
  <2>1. \A f : o \in Numbering(f) <=> o.field = f /\ InRange(f, o.value)
    BY <1>5 DEF Numbering
  <2>2. o \notin Securing /\ o \notin Verifying
    BY <1>5 DEF Securing, Verifying
  <2>3. w = IF InRange(o.field, o.value)
            THEN Renumbered(s, [s.numbers EXCEPT ![o.field] = o.value]) ELSE s
    BY <1>5 DEF Applied, WithNumber, Renumbered
  <2>4. \A n : /\ Renumbered(s, n).numbers = n /\ Renumbered(s, n).strategy = s.strategy
               /\ Renumbered(s, n).skipVerify = s.skipVerify
    BY <1>2 DEF Renumbered, Configs
  <2>5. /\ w.strategy = s.strategy /\ w.skipVerify = s.skipVerify
        /\ w.numbers = IF InRange(o.field, o.value)
                       THEN [s.numbers EXCEPT ![o.field] = o.value] ELSE s.numbers
    BY <2>3, <2>4
  <2>6. ASSUME NEW f \in names
        PROVE  w.numbers[f] = IF o \in Numbering(f) THEN o.value ELSE s.numbers[f]
    BY <1>3, <1>4, <1>5, <2>1, <2>5
  <2> QED
    BY <2>2, <2>5, <2>6 DEF names
<1>6. CASE o.option = "strategy"
  <2>1. /\ \A f : o \notin Numbering(f)
        /\ o \in Securing /\ o \in Verifying
    BY <1>6 DEF Numbering, Securing, Verifying
  <2>2. w = [s EXCEPT !.strategy = o.value, !.skipVerify = FALSE]
    BY <1>6 DEF Applied, WithStrategy
  <2>3. w.strategy = o.value /\ ~w.skipVerify /\ w.numbers = s.numbers
    BY <1>2, <2>2 DEF Configs
  <2> QED
    BY <2>1, <2>3
<1>7. CASE o.option = "skipVerify"
  <2>1. /\ \A f : o \notin Numbering(f)
        /\ o \notin Securing /\ o \in Verifying
    BY <1>7 DEF Numbering, Securing, Verifying
  <2> DEFINE b == o.on
  <2>2. w = [s EXCEPT !.skipVerify = b]
    BY <1>7 DEF Applied
  <2>3. b \in BOOLEAN /\ o = [option |-> "skipVerify", on |-> b]
    BY <1>3, <1>7
  <2> HIDE DEF b
  <2>4. w.strategy = s.strategy /\ (w.skipVerify = b) /\ w.numbers = s.numbers
    BY <1>2, <2>2 DEF Configs
  <2>5. w.skipVerify => o = [option |-> "skipVerify", on |-> TRUE]
    BY <2>3, <2>4
  <2> QED
    BY <2>1, <2>4, <2>5
<1>8. CASE o.option \in {"dlqEnabled", "dlqTopic", "brokers"}
  <2>1. /\ \A f : o \notin Numbering(f)
        /\ o \notin Securing /\ o \notin Verifying
    BY <1>8 DEF Numbering, Securing, Verifying
  <2> DEFINE b == o.on
  <2>2. w = DeadLettered(s, b) \/ w = DeadLetteredToo(s, b) \/ w = Brokered(s, b)
    BY <1>8 DEF Applied, WithDLQ, DeadLettered, DeadLetteredToo, Brokered
  <2> HIDE DEF b
  <2>3. w.strategy = s.strategy /\ w.skipVerify = s.skipVerify /\ w.numbers = s.numbers
    BY <1>2, <2>2 DEF Configs, DeadLettered, DeadLetteredToo, Brokered
  <2> QED
    BY <2>1, <2>3
<1> QED
  BY <1>3, <1>5, <1>6, <1>7, <1>8

LEMMA RabbitApplies ==
    ASSUME library = "rabbitmq", library \in Libraries, NEW o \in Options(library),
           NEW s \in Configs(DOMAIN Defaults[library], StrategiesOf(library)),
           NEW w, w = Applied(s, o)
    PROVE  w.strategy = IF o \in Securing THEN o.value ELSE s.strategy
<1> DEFINE names == DOMAIN Defaults[library]
           strategies == StrategiesOf(library)
<1>1. s \in Configs(names, strategies)
  OBVIOUS
<1>2. o.option \in {"number", "strategy", "reconnect", "config", "name"}
  BY DEF Options
<1> HIDE DEF names, strategies
<1>3. o \in Securing <=> o.option = "strategy"
  BY DEF Securing
<1>4. CASE o.option = "number"
  BY <1>1, <1>3, <1>4 DEF Applied, WithNumber, Configs
<1>5. CASE o.option = "strategy"
  BY <1>1, <1>3, <1>5 DEF Applied, WithStrategy, Configs
<1>6. CASE o.option = "reconnect"
  BY <1>1, <1>3, <1>6 DEF Applied, WithReconnectConfig, Configs
<1>7. CASE o.option = "config"
  <2> DEFINE n == IF o.value = "zero" THEN [f \in DOMAIN s.numbers |-> 0]
                  ELSE [Defaults.rabbitmq EXCEPT !.MaxRetries = -1]
             b == o.value # "zero"
  <2>1. w = Replaced(s, n, b)
    <3>1. CASE o.value = "zero"
      BY <1>7, <3>1 DEF Applied, WithConfig, Replaced
    <3>2. CASE o.value # "zero"
      BY <1>7, <3>2 DEF Applied, WithConfig, Replaced
    <3> QED
      BY <3>1, <3>2
  <2> HIDE DEF n, b
  <2> QED
    BY <1>1, <1>3, <1>7, <2>1 DEF Replaced, Configs
<1>8. CASE o.option = "name"
  BY <1>1, <1>3, <1>8 DEF Applied, Configs
<1> QED
  BY <1>2, <1>4, <1>5, <1>6, <1>7, <1>8

LEMMA UsableKeep ==
    ASSUME SettingsBounds, UsableInv, SettingsNext \/ UNCHANGED settingsVars
    PROVE  UsableInv'
<1>1. library' = library /\ library \in Libraries
  BY DEF SettingsNext, Make, Give, settingsVars, SettingsBounds
<1>2. CASE Make
  <2>1. UNCHANGED <<library, options, settings>> /\ client = "none"
    BY <1>2 DEF Make
  <2>2. library = "rabbitmq" /\ client' = "made" => RabbitValid(settings)
    BY <1>2 DEF Make
  <2>3. library = "http" /\ client' = "made" => HttpValid(settings)
    BY <1>2 DEF Make
  <2>4. /\ (RabbitValid(settings))' = RabbitValid(settings)
        /\ (HttpValid(settings))' = HttpValid(settings)
    BY <2>1 DEF RabbitValid, HttpValid
  <2> QED
    BY <2>1, <2>2, <2>3, <2>4 DEF UsableInv, Numbering, Securing, Verifying
<1>3. CASE \E o \in Options(library) : Give(o)
  <2>1. PICK o \in Options(library) : Give(o)
    BY <1>3
  <2> DEFINE T == Options(library)
             w == settings'
             os == options
  <2>2. /\ client = "none" /\ client' = client
        /\ options' = Append(os, o) /\ w = Applied(settings, o)
    BY <2>1 DEF Give
  <2>3. os \in Seq(T) /\ o \in T /\ Options(library)' = T
        /\ settings \in Configs(DOMAIN Defaults[library], StrategiesOf(library))
    BY <1>1, <2>1 DEF SettingsBounds
  <2>4. ASSUME NEW S \in SUBSET T
        PROVE  /\ HasLast(Append(os, o), S)
               /\ LastOf(Append(os, o), S) = IF o \in S THEN o ELSE LastOf(os, S)
    <3> HIDE DEF T, os
    <3>1. HasLast(os, S)
      BY <2>4 DEF UsableInv, T, os
    <3> QED
      BY <2>3, <3>1, LastAppended
  <2>5. Securing \in SUBSET T /\ Verifying \in SUBSET T /\ \A f : Numbering(f) \in SUBSET T
    BY DEF Securing, Verifying, Numbering
  <2>6. /\ Securing' = Securing /\ Verifying' = Verifying
    BY <1>1 DEF Securing, Verifying
  <2>7. \A S \in SUBSET T : HasLast(options', S)
    BY <2>2, <2>4
  <2>8. CASE library = "kafka"
    <3>1. /\ \A f \in DOMAIN Defaults.kafka :
                w.numbers[f] = IF o \in Numbering(f) THEN o.value ELSE settings.numbers[f]
          /\ w.strategy = IF o \in Securing THEN o.value ELSE settings.strategy
          /\ w.skipVerify /\ o \notin Verifying => settings.skipVerify
          /\ w.skipVerify /\ o \in Verifying => o = [option |-> "skipVerify", on |-> TRUE]
      <4> HIDE DEF w
      <4> QED
        BY <1>1, <2>2, <2>3, <2>8, KafkaApplies
    <3>2. ASSUME NEW f \in DOMAIN Defaults.kafka
          PROVE  w.numbers[f] = Remembered(LastOf(options', Numbering(f)), Defaults.kafka[f])
      <4> DEFINE N == Numbering(f)
                 d == Defaults.kafka[f]
      <4>1. settings.numbers[f] = Remembered(LastOf(os, N), d)
        BY <2>8, <3>2 DEF UsableInv
      <4>2. LastOf(options', N) = IF o \in N THEN o ELSE LastOf(os, N)
        BY <2>2, <2>4, <2>5
      <4>3. o \in N => o.option # "none"
        BY DEF Numbering
      <4>4. w.numbers[f] = IF o \in N THEN o.value ELSE settings.numbers[f]
        BY <3>1, <3>2
      <4> HIDE DEF N, d, w, os
      <4> QED
        BY <4>1, <4>2, <4>3, <4>4 DEF Remembered, N, d
    <3>3. w.strategy = Remembered(LastOf(options', Securing), "CONFLUENT")
      <4>1. settings.strategy = Remembered(LastOf(os, Securing), "CONFLUENT")
        BY <2>8 DEF UsableInv
      <4>2. LastOf(options', Securing) = IF o \in Securing THEN o ELSE LastOf(os, Securing)
        BY <2>2, <2>4, <2>5
      <4>3. o \in Securing => o.option # "none"
        BY DEF Securing
      <4> HIDE DEF w, os
      <4> QED
        BY <3>1, <4>1, <4>2, <4>3 DEF Remembered
    <3>4. w.skipVerify => LastOf(options', Verifying) = [option |-> "skipVerify", on |-> TRUE]
      <4>1. settings.skipVerify =>
                LastOf(os, Verifying) = [option |-> "skipVerify", on |-> TRUE]
        BY <2>8 DEF UsableInv
      <4>2. LastOf(options', Verifying) = IF o \in Verifying THEN o ELSE LastOf(os, Verifying)
        BY <2>2, <2>4, <2>5
      <4> HIDE DEF w, os
      <4> QED
        BY <3>1, <4>1, <4>2
    <3>5. \A f : (Numbering(f))' = Numbering(f)
      BY <1>1 DEF Numbering, InRange
    <3> QED
      BY <1>1, <2>2, <2>3, <2>6, <2>7, <2>8, <3>2, <3>3, <3>4, <3>5 DEF UsableInv, Numbering, InRange
  <2>9. CASE library = "rabbitmq"
    <3>1. w.strategy = IF o \in Securing THEN o.value ELSE settings.strategy
      <4> HIDE DEF w
      <4> QED
        BY <1>1, <2>2, <2>3, <2>9, RabbitApplies
    <3>2. w.strategy = Remembered(LastOf(options', Securing), "none")
      <4>1. settings.strategy = Remembered(LastOf(os, Securing), "none")
        BY <2>9 DEF UsableInv
      <4>2. LastOf(options', Securing) = IF o \in Securing THEN o ELSE LastOf(os, Securing)
        BY <2>2, <2>4, <2>5
      <4>3. o \in Securing => o.option # "none"
        BY DEF Securing
      <4> HIDE DEF w, os
      <4> QED
        BY <3>1, <4>1, <4>2, <4>3 DEF Remembered
    <3> QED
      BY <1>1, <2>2, <2>3, <2>6, <2>7, <2>9, <3>2 DEF UsableInv
  <2>10. CASE library = "http"
    BY <1>1, <2>2, <2>3, <2>7, <2>10 DEF UsableInv
  <2> QED
    BY <1>1, <2>8, <2>9, <2>10, SettingsAssumption DEF SettingsAssumption
<1>4. CASE UNCHANGED settingsVars
  <2>1. UNCHANGED <<library, options, settings, client>>
    BY <1>4 DEF settingsVars
  <2>2. /\ (RabbitValid(settings))' = RabbitValid(settings)
        /\ (HttpValid(settings))' = HttpValid(settings)
    BY <2>1 DEF RabbitValid, HttpValid
  <2> QED
    BY <2>1, <2>2 DEF UsableInv, Numbering, Securing, Verifying
<1> QED
  BY <1>2, <1>3, <1>4 DEF SettingsNext

LEMMA SettingsUsable ==
    ASSUME SettingsBounds, UsableInv
    PROVE  SettingsAreUsable
<1> DEFINE T == Options(library)
<1>1. options \in Seq(T) /\ library \in {"kafka", "rabbitmq", "http"}
      /\ settings \in Configs(DOMAIN Defaults[library], StrategiesOf(library))
  BY SettingsAssumption DEF SettingsBounds, SettingsAssumption
<1>2. \A i \in 1 .. Len(options) : options[i] \in T
  BY <1>1
<1>3. ASSUME library = "kafka", NEW f \in DOMAIN settings.numbers
      PROVE  LET o == LastGiven(LAMBDA p : /\ p.option = "number" /\ p.field = f
                                           /\ InRange(f, p.value)) IN
             settings.numbers[f] = IF o.option = "none" THEN Defaults.kafka[f] ELSE o.value
  <2> DEFINE N == Numbering(f)
             I == {i \in 1 .. Len(options) : /\ options[i].option = "number" /\ options[i].field = f
                                             /\ InRange(f, options[i].value)}
  <2>1. I = GivenAt(options, N)
    BY <1>2 DEF GivenAt, Numbering
  <2>2. f \in DOMAIN Defaults.kafka
    <3>1. Defaults[library] = Defaults.kafka
      BY <1>3, DefaultsTyped
    <3>2. DOMAIN settings.numbers = DOMAIN Defaults[library]
      BY <1>1 DEF Configs
    <3> QED
      BY <1>3, <3>1, <3>2
  <2>3. settings.numbers[f] = Remembered(LastOf(options, N), Defaults.kafka[f])
    BY <1>3, <2>2 DEF UsableInv
  <2>4. LastGiven(LAMBDA p : /\ p.option = "number" /\ p.field = f /\ InRange(f, p.value))
            = LastOf(options, N)
    <3>1. LastOf(options, N) = IF I # {} THEN options[Max(I)] ELSE [option |-> "none"]
      BY <2>1 DEF LastOf
    <3> QED
      BY <3>1 DEF LastGiven, SelectLastInSeq
  <2> QED
    BY <2>3, <2>4 DEF Remembered
<1>4. LastGiven(LAMBDA p : p.option = "strategy") = LastOf(options, Securing)
  <2> DEFINE I == {i \in 1 .. Len(options) : options[i].option = "strategy"}
  <2>1. I = GivenAt(options, Securing)
    BY <1>2 DEF GivenAt, Securing
  <2>2. LastOf(options, Securing) = IF I # {} THEN options[Max(I)] ELSE [option |-> "none"]
    BY <2>1 DEF LastOf
  <2> QED
    BY <2>2 DEF LastGiven, SelectLastInSeq
<1>5. LastGiven(LAMBDA p : p.option \in {"skipVerify", "strategy"}) = LastOf(options, Verifying)
  <2> DEFINE I == {i \in 1 .. Len(options) : options[i].option \in {"skipVerify", "strategy"}}
  <2>1. I = GivenAt(options, Verifying)
    BY <1>2 DEF GivenAt, Verifying
  <2>2. LastOf(options, Verifying) = IF I # {} THEN options[Max(I)] ELSE [option |-> "none"]
    BY <2>1 DEF LastOf
  <2> QED
    BY <2>2 DEF LastGiven, SelectLastInSeq
<1>6. ASSUME library = "kafka", settings.strategy \in {"PLAINTEXT", "plain"}
      PROVE  LastOf(options, Securing).value = "PLAINTEXT"
  <2>1. settings.strategy \in {"PLAINTEXT", "PLAIN", "SCRAM", "CONFLUENT", "none"}
    BY <1>1, <1>6 DEF Configs, StrategiesOf
  <2>2. settings.strategy = Remembered(LastOf(options, Securing), "CONFLUENT")
    BY <1>6 DEF UsableInv
  <2> QED
    BY <1>6, <2>1, <2>2 DEF Remembered
<1>7. ASSUME library = "rabbitmq", settings.strategy \in {"PLAINTEXT", "plain"}
      PROVE  LastOf(options, Securing).value = "plain"
  <2>1. settings.strategy \in {"plain", "tls", "cloud", "none"}
    BY <1>1, <1>7 DEF Configs, StrategiesOf
  <2>2. settings.strategy = Remembered(LastOf(options, Securing), "none")
    BY <1>7 DEF UsableInv
  <2> QED
    BY <1>7, <2>1, <2>2 DEF Remembered
<1>8. ASSUME library = "kafka", settings.skipVerify
      PROVE  LastOf(options, Verifying) = [option |-> "skipVerify", on |-> TRUE]
  BY <1>8 DEF UsableInv
<1>9. ASSUME client = "made", library = "rabbitmq"
      PROVE  /\ settings.numbers.ReconnectInitialInterval \in 1 .. settings.numbers.ReconnectMaxInterval
             /\ settings.numbers.Heartbeat > 0 /\ settings.numbers.DefaultPrefetchCount > 0
  <2>1. RabbitValid(settings)
    BY <1>9 DEF UsableInv
  <2>2. DOMAIN Defaults[library] = {"Heartbeat", "ConnectionTimeout", "PublishTimeout",
            "ReconnectTimeout", "ReconnectInitialInterval", "ReconnectMaxInterval",
            "DefaultPrefetchCount", "MaxRetries"}
    BY <1>9 DEF Defaults
  <2>3. settings.numbers \in [DOMAIN Defaults[library] -> Int]
    BY <1>1 DEF Configs
  <2> QED
    BY <2>1, <2>2, <2>3 DEF RabbitValid
<1>10. ASSUME client = "made", library = "http", settings.cors # "off"
       PROVE  /\ Allowed("stranger") = (settings.cors = "star")
              /\ (\E origin \in {"a", "b"} : Allowed(origin)) = (settings.cors # "comma")
              /\ \A f \in DOMAIN settings.numbers : settings.numbers[f] > 0
  <2>1. HttpValid(settings)
    BY <1>10 DEF UsableInv
  <2>2. settings.cors \in {"comma", "star", "one", "two"}
    BY <1>1, <1>10, <2>1 DEF Configs, HttpValid, Origins
  <2> DEFINE among == Origins[settings.cors]
             star == settings.cors = "star"
             other == settings.cors # "comma"
  <2>3. /\ settings.cors = "comma" => among = {}
        /\ settings.cors = "star" => among = {"*"}
        /\ settings.cors = "one" => among = {"a"}
        /\ settings.cors = "two" => among = {"a", "b"}
    BY DEF Origins
  <2>4. \A origin : Allowed(origin) <=> among = {"*"} \/ origin \in among
    BY DEF Allowed
  <2> HIDE DEF among
  <2>5. Allowed("stranger") <=> star
    BY <2>2, <2>3, <2>4
  <2>6. (\E origin \in {"a", "b"} : Allowed(origin)) <=> other
    BY <2>2, <2>3, <2>4
  <2> DEFINE R == Allowed("stranger")
             S == \E origin \in {"a", "b"} : Allowed(origin)
  <2>7. R = star
    <3>1. R \in BOOLEAN /\ star \in BOOLEAN /\ (R <=> star)
      BY <2>5 DEF Allowed
    <3> HIDE DEF R, star
    <3> QED
      BY <3>1
  <2>8. S = other
    <3>1. S \in BOOLEAN /\ other \in BOOLEAN /\ (S <=> other)
      BY <2>6
    <3> HIDE DEF S, other
    <3> QED
      BY <3>1
  <2> QED
    BY <2>1, <2>7, <2>8 DEF HttpValid
<1>11. (~Dialled.tls <=> settings.strategy \in {"PLAINTEXT", "plain"})
       /\ (~Dialled.verified <=> settings.skipVerify)
  BY DEF Dialled
<1> QED
  BY <1>3, <1>4, <1>5, <1>6, <1>7, <1>8, <1>9, <1>10, <1>11 DEF SettingsAreUsable
-----------------------------------------------------------------------------
(* All the components: one that is not the subject rests in the state it   *)
(* starts in.                                                              *)
WebInv ==
    /\ Of("http", HttpInv) /\ (subject = "http" \/ rq = [r \in Requests |-> NewRequest])
    /\ Of("health", HealthInv) /\ Of("client", ClientInv)

MessagingInv ==
    /\ KafkaInv /\ ChannelsInv /\ Of("producer", ProducerInv) /\ Of("trace", TraceInv)

DataInv == MigratorInv /\ Of("start", StartInv) /\ Of("telemetry", TelemetryInv)

CommonInv == Of("provider", OtelInv) /\ Of("values", ValuesInv)

ServicesInv == WebInv /\ MessagingInv /\ DataInv /\ CommonInv

LEMMA ServicesStart ==
    ASSUME ServicesInit
    PROVE  ServicesInv
<1>1. KafkaInv /\ ChannelsInv /\ MigratorInv
  BY KafkaStarts, ChannelsStart, MigratorStarts DEF ServicesInit
<1>2. CASE subject = "http"
  <2>1. PICK k \in ServerKinds : HttpStart(k)
    BY <1>2 DEF ServicesInit, HttpInit
  <2>2. HttpInv
    BY <2>1, HttpStarts
  <2> QED
    BY <1>1, <1>2, <2>2 DEF ServicesInv, WebInv, MessagingInv, DataInv, CommonInv, Of
<1>3. CASE subject # "http"
  <2>1. rq = [r \in Requests |-> NewRequest]
    BY <1>3 DEF ServicesInit, HttpStart
  <2>2. subject = "health" => HealthInv
    BY HealthStarts DEF ServicesInit, HealthInit
  <2>3. subject = "client" => ClientInv
    BY ClientStarts DEF ServicesInit, ClientInit
  <2>4. subject = "producer" => ProducerInv
    BY ProducerStarts DEF ServicesInit, ProducerInit
  <2>5. subject = "trace" => TraceInv
    BY TraceStarts DEF ServicesInit, JourneyInit
  <2>6. subject = "start" => StartInv
    BY ManagerStarted DEF ServicesInit, StartInit
  <2>7. subject = "telemetry" => TelemetryInv
    BY TelemetryStarts DEF ServicesInit, TelemetryInit
  <2>8. subject = "provider" => OtelInv
    BY OtelStarts DEF ServicesInit, OtelInit
  <2>9. subject = "values" => ValuesInv
    BY CalculationStarts DEF ServicesInit, ValuesInit
  <2> QED
    BY <1>1, <1>3, <2>1, <2>2, <2>3, <2>4, <2>5, <2>6, <2>7, <2>8, <2>9
       DEF ServicesInv, WebInv, MessagingInv, DataInv, CommonInv, Of
<1> QED
  BY <1>2, <1>3

(* A step is the subject's: its component makes one, and the others rest.  *)
LEMMA ServicesSteps ==
    ASSUME [ServicesNext]_servicesVars
    PROVE  /\ subject' = subject
           /\ Web \/ UNCHANGED web
           /\ Messaging \/ UNCHANGED messaging
           /\ Data \/ UNCHANGED data
           /\ Common \/ UNCHANGED common
<1>1. CASE ServicesNext
  BY <1>1 DEF ServicesNext
<1>2. CASE UNCHANGED servicesVars
  BY <1>2 DEF servicesVars
<1> QED
  BY <1>1, <1>2

LEMMA WebKeeps ==
    ASSUME WebInv, subject' = subject, Web \/ UNCHANGED web
    PROVE  WebInv'
<1>1. /\ (subject = "http" /\ HttpNext) \/ UNCHANGED httpVars
      /\ (subject = "health" /\ HealthNext) \/ UNCHANGED healthVars
      /\ (subject = "client" /\ ClientNext) \/ UNCHANGED clientVars
  BY DEF Web, web
<1>2. subject = "http" => HttpInv'
  <2>1. subject = "http" => HttpInv
    BY DEF WebInv, Of
  <2> QED
    BY <1>1, <2>1, HttpNextKeeps, HttpRests
<1>3. subject # "http" => rq' = [r \in Requests |-> NewRequest]
  <2>1. subject # "http" => rq = [r \in Requests |-> NewRequest]
    BY DEF WebInv
  <2> QED
    BY <1>1, <2>1 DEF httpVars
<1>4. subject = "health" => HealthInv'
  <2>1. subject = "health" => HealthInv
    BY DEF WebInv, Of
  <2> QED
    BY <1>1, <2>1, HealthNextKeeps, HealthRests
<1>5. subject = "client" => ClientInv'
  <2>1. subject = "client" => ClientInv
    BY DEF WebInv, Of
  <2> QED
    BY <1>1, <2>1, ClientNextKeeps, ClientRests
<1> QED
  BY <1>2, <1>3, <1>4, <1>5 DEF WebInv, Of

LEMMA MessagingKeeps ==
    ASSUME MessagingInv, subject' = subject, Messaging \/ UNCHANGED messaging
    PROVE  MessagingInv'
<1>1. /\ KafkaNext \/ UNCHANGED kafkaVars
      /\ ChannelsNext \/ UNCHANGED channelVars
      /\ (subject = "producer" /\ ProducerNext) \/ UNCHANGED producerVars
      /\ (subject = "trace" /\ JourneyNext) \/ UNCHANGED traceVars
  BY DEF Messaging, messaging
<1>2. KafkaInv'
  <2>1. KafkaInv
    BY DEF MessagingInv
  <2> QED
    BY <1>1, <2>1, KafkaNextKeeps, KafkaRests
<1>3. ChannelsInv'
  <2>1. ChannelsInv
    BY DEF MessagingInv
  <2> QED
    BY <1>1, <2>1, ChannelsNextKeeps, ChannelsRest
<1>4. subject = "producer" => ProducerInv'
  <2>1. subject = "producer" => ProducerInv
    BY DEF MessagingInv, Of
  <2> QED
    BY <1>1, <2>1, ProducerNextKeeps, ProducerRests
<1>5. subject = "trace" => TraceInv'
  <2>1. subject = "trace" => TraceInv
    BY DEF MessagingInv, Of
  <2> QED
    BY <1>1, <2>1, JourneyNextKeeps, JourneyRests
<1> QED
  BY <1>2, <1>3, <1>4, <1>5 DEF MessagingInv, Of

LEMMA DataKeeps ==
    ASSUME DataInv, subject' = subject, Data \/ UNCHANGED data
    PROVE  DataInv'
<1>1. /\ MigratorNext \/ UNCHANGED migratorVars
      /\ (subject = "start" /\ StartNext) \/ UNCHANGED startVars
      /\ (subject = "telemetry" /\ TelemetryNext) \/ UNCHANGED telemetryVars
  BY DEF Data, data
<1>2. MigratorInv'
  <2>1. MigratorInv
    BY DEF DataInv
  <2> QED
    BY <1>1, <2>1, MigratorNextKeeps, MigratorRests
<1>3. subject = "start" => StartInv'
  <2>1. subject = "start" => StartInv
    BY DEF DataInv, Of
  <2> QED
    BY <1>1, <2>1, StartNextKeeps, StartRests
<1>4. subject = "telemetry" => TelemetryInv'
  <2>1. subject = "telemetry" => TelemetryInv
    BY DEF DataInv, Of
  <2> QED
    BY <1>1, <2>1, TelemetryNextKeeps, TelemetryRests
<1> QED
  BY <1>2, <1>3, <1>4 DEF DataInv, Of

LEMMA CommonKeeps ==
    ASSUME CommonInv, subject' = subject, Common \/ UNCHANGED common
    PROVE  CommonInv'
<1>1. /\ (subject = "provider" /\ OtelNext) \/ UNCHANGED providerVars
      /\ (subject = "values" /\ Calculate) \/ UNCHANGED valuesVars
  BY DEF Common, common
<1>2. subject = "provider" => OtelInv'
  <2>1. subject = "provider" => OtelInv
    BY DEF CommonInv, Of
  <2> QED
    BY <1>1, <2>1, OtelNextKeeps, OtelRests
<1>3. subject = "values" => ValuesInv'
  <2>1. subject = "values" => ValuesInv
    BY DEF CommonInv, Of
  <2> QED
    BY <1>1, <2>1, CalculateKeeps, CalculationRests
<1> QED
  BY <1>2, <1>3 DEF CommonInv, Of

(* The invariant most of the results below follow from.  The event         *)
(* dispatcher has a module of its own; its invariant, the settings' and    *)
(* the bounds of the counters are in TypesInv.                             *)
THEOREM ServicesInvariant == ServicesSpec => []ServicesInv
<1>1. ServicesInit => ServicesInv
  BY ServicesStart
<1>2. ServicesInv /\ [ServicesNext]_servicesVars => ServicesInv'
  <2> SUFFICES ASSUME ServicesInv, [ServicesNext]_servicesVars
               PROVE  ServicesInv'
    OBVIOUS
  <2>1. WebInv /\ MessagingInv /\ DataInv /\ CommonInv
    BY DEF ServicesInv
  <2>2. WebInv' /\ MessagingInv' /\ DataInv'
    BY <2>1, ServicesSteps, WebKeeps, MessagingKeeps, DataKeeps
  <2>3. CommonInv'
    BY <2>1, ServicesSteps, CommonKeeps
  <2> QED
    BY <2>2, <2>3 DEF ServicesInv
<1> QED
  BY <1>1, <1>2, PTL DEF ServicesSpec

(* A request has one answer, from one writer, whole or none, of the        *)
(* middleware chain of either server, for any number of requests at once   *)
(* (chi_server/middleware.go, chi_server/server.go, fiber_server).         *)
THEOREM ResponseCorrect == ServicesSpec => []OneResponse
<1>1. ServicesInv => OneResponse
  <2> SUFFICES ASSUME ServicesInv
               PROVE  OneResponse
    OBVIOUS
  <2>1. CASE subject = "http"
    BY <2>1, HttpOneResponse DEF ServicesInv, WebInv, Of
  <2>2. CASE subject # "http"
    BY <2>2, FreshFacts DEF ServicesInv, WebInv, OneResponse, NewRequest
  <2> QED
    BY <2>1, <2>2
<1> QED
  BY <1>1, ServicesInvariant, PTL

(* A shutdown that says it succeeded has let every request end and run     *)
(* every step of the provider; a Kafka client that is closed has left open *)
(* only connections it had replaced or whose dial was under way; and no    *)
(* channel of a RabbitMQ consumer is open that nobody has to release       *)
(* (lifecycle.go, otel/shutdown.go, kafka/client.go:254-375,               *)
(* rabbitmq/channel_pool.go:109-241).                                      *)
THEOREM ShutdownCorrect == ServicesSpec => []ShutdownIsFinal
<1>1. ServicesInv => ShutdownIsFinal
  <2> SUFFICES ASSUME ServicesInv
               PROVE  ShutdownIsFinal
    OBVIOUS
  <2>1. Of("http", StopIsTrue)
    BY HttpStopIsTrue DEF ServicesInv, WebInv, Of
  <2>2. CloseIsFinal /\ ChannelsAreReleased
    BY KafkaCloseIsFinal, ChannelsReleased DEF ServicesInv, MessagingInv
  <2> QED
    BY <2>1, <2>2 DEF ShutdownIsFinal, Of
<1> QED
  BY <1>1, ServicesInvariant, PTL

(* What is reported is what happened, of a request, a probe, a call, a     *)
(* message from its publisher to its handlers and a statement              *)
(* (chi_server/middleware.go, common/health.go, httpclient/observable.go,  *)
(* kafka/otel.go, rabbitmq/otel.go, manager/instrumentation.go).           *)
THEOREM ReportsCorrect == ServicesSpec => []ReportsAreTrue
<1>1. ServicesInv => ReportsAreTrue
  <2> SUFFICES ASSUME ServicesInv
               PROVE  ReportsAreTrue
    OBVIOUS
  <2>1. Of("http", TelemetryIsTrue)
    BY HttpTelemetryIsTrue DEF ServicesInv, WebInv, Of
  <2>2. Of("health", HealthIsTrue)
    BY ProbeIsTrue DEF ServicesInv, WebInv, Of
  <2>3. Of("client", CallIsReported)
    BY ClientIsReported DEF ServicesInv, WebInv, Of
  <2>4. Of("trace", TracesAreTrue)
    BY TracesTrue DEF ServicesInv, MessagingInv, Of
  <2>5. Of("telemetry", StatementsAreTold)
    BY StatementsTold DEF ServicesInv, DataInv, Of
  <2> QED
    BY <2>1, <2>2, <2>3, <2>4, <2>5 DEF ReportsAreTrue
<1> QED
  BY <1>1, ServicesInvariant, PTL

(* A start of the database manager that fails leaves nothing behind, and   *)
(* one that succeeds has made all it was to make; a migration that says it *)
(* succeeded has, among any number of calls and whatever the migrations;   *)
(* a provider that started is whole, and what one that failed has made is  *)
(* what a shutdown would stop (manager.go:57-137, migrator.go:101-199,     *)
(* otel/runtime.go:34-104).                                                *)
THEOREM StartsCorrect == ServicesSpec => []StartsAreWhole
<1>1. ServicesInv => StartsAreWhole
  <2> SUFFICES ASSUME ServicesInv
               PROVE  StartsAreWhole
    OBVIOUS
  <2>1. Of("start", FailedStartLeavesNothing)
    BY StartLeavesNothing DEF ServicesInv, DataInv, Of
  <2>2. Of("migrator", MigrationIsTrue)
    BY MigrationTrue DEF ServicesInv, DataInv, Of
  <2>3. Of("provider", ProviderIsWhole)
    BY ProviderWhole DEF ServicesInv, CommonInv, Of
  <2> QED
    BY <2>1, <2>2, <2>3 DEF StartsAreWhole
<1> QED
  BY <1>1, ServicesInvariant, PTL

(* The attempts of an HTTP call and of a publish, and the bodies that were *)
(* opened, are those the result accounts for, whatever the number of       *)
(* retries (httpclient/transport_retry.go, kafka/new_producer.go).         *)
THEOREM AttemptsCorrect == ServicesSpec => []AttemptsAreCounted
<1>1. ServicesInv => AttemptsAreCounted
  <2> SUFFICES ASSUME ServicesInv
               PROVE  AttemptsAreCounted
    OBVIOUS
  <2>1. Of("client", CallIsAccounted)
    BY ClientIsAccounted DEF ServicesInv, WebInv, Of
  <2>2. Of("producer", PublishIsTrue)
    BY ProducerIsTrue DEF ServicesInv, MessagingInv, Of
  <2> QED
    BY <2>1, <2>2 DEF AttemptsAreCounted
<1> QED
  BY <1>1, ServicesInvariant, PTL

(* Whatever the limit of an amount and the width of an integer: Money and  *)
(* Percentage never return a value that is not exact, and return it, or    *)
(* the error that says why there is none, for every calculation but the    *)
(* two kinds of Unserved (money.go:120-215, percentage.go:104-186).        *)
THEOREM ArithmeticCorrect ==
    ServicesSpec => [](subject = "values" /\ answer.kind # "none" => ArithmeticIsExact)
<1>1. ServicesInv => (subject = "values" /\ answer.kind # "none" => ArithmeticIsExact)
  BY ValuesAreExact DEF ServicesInv, CommonInv, Of
<1> QED
  BY <1>1, ServicesInvariant, PTL
-----------------------------------------------------------------------------
(* The bounds of every component's counters hold where it starts.          *)
LEMMA ProducerBoundsStart ==
    ASSUME NEW c \in Productions, ProducerStart(c)
    PROVE  ProducerBounds
  BY ProducerAssumption DEF ProducerAssumption, ProducerStart, ProducerBounds

LEMMA HealthBoundsStart ==
    ASSUME NEW e \in {"health", "ready", "live"}, HealthStart(e)
    PROVE  HealthBounds
  BY HealthAssumption DEF HealthAssumption, HealthStart, HealthBounds

LEMMA ClientBoundsStart ==
    ASSUME NEW c \in Calls, ClientStart(c)
    PROVE  ClientBounds
  BY HttpClientAssumption DEF HttpClientAssumption, ClientStart, ClientBounds

LEMMA TelemetryBoundsStart ==
    ASSUME NEW k \in StatementKinds, StatementStart(k)
    PROVE  TelemetryBounds
  BY TelemetryAssumption DEF TelemetryAssumption, StatementStart, TelemetryBounds, Stats, NoStats

LEMMA StartBoundsStart ==
    ASSUME NEW s \in Setups, ManagerStarts(s)
    PROVE  StartBounds
  BY DEF ManagerStarts, StartBounds, NoConfig, Kinds, Drivers, Forms

LEMMA TraceBoundsStart ==
    ASSUME NEW j \in Journeys, JourneyStart(j)
    PROVE  TraceBounds
<1>1. TraceRetries \in Nat /\ KafkaHandlers \in Nat /\ KafkaTries \in Nat
  BY MessageTraceAssumption DEF MessageTraceAssumption
<1>2. /\ leg.delivered = 0 /\ leg.run = 0 /\ leg.tries = 0 /\ leg.again = FALSE
      /\ carried = 0 /\ Len(spans) = 0
  BY DEF JourneyStart
<1> QED
  BY <1>1, <1>2 DEF TraceBounds, DeliveredInv, ParentsInv

(* What the types need besides the invariant above, of the subject; the    *)
(* event dispatcher has its own, and so have the settings.                 *)
TypesInv ==
    /\ subject \in Subjects
    /\ Of("http", LeaksBounds) /\ Of("health", HealthBounds) /\ Of("client", ClientBounds)
    /\ Of("producer", ProducerBounds) /\ Of("trace", TraceBounds)
    /\ Of("start", StartBounds) /\ Of("telemetry", TelemetryBounds)
    /\ MigratorBounds /\ IInv
    /\ Of("settings", SettingsBounds) /\ Of("settings", UsableInv)

LEMMA TypesStart ==
    ASSUME ServicesInit
    PROVE  TypesInv
<1>1. subject \in Subjects /\ MigratorBounds /\ IInv
  BY MigratorBoundsStart, InitIInv DEF ServicesInit
<1>2. subject = "http" => LeaksBounds
  BY LeaksStart DEF ServicesInit, HttpInit
<1>3. subject = "health" => HealthBounds
  BY HealthBoundsStart DEF ServicesInit, HealthInit
<1>4. subject = "client" => ClientBounds
  BY ClientBoundsStart DEF ServicesInit, ClientInit
<1>5. subject = "producer" => ProducerBounds
  BY ProducerBoundsStart DEF ServicesInit, ProducerInit
<1>6. subject = "trace" => TraceBounds
  BY TraceBoundsStart DEF ServicesInit, JourneyInit
<1>7. subject = "start" => StartBounds
  BY StartBoundsStart DEF ServicesInit, StartInit
<1>8. subject = "telemetry" => TelemetryBounds
  BY TelemetryBoundsStart DEF ServicesInit, TelemetryInit
<1>9. subject = "settings" => SettingsBounds /\ UsableInv
  BY SettingsBoundsStart, UsableStart DEF ServicesInit, SettingsInit
<1> QED
  BY <1>1, <1>2, <1>3, <1>4, <1>5, <1>6, <1>7, <1>8, <1>9 DEF TypesInv, Of

LEMMA TypesKeep ==
    ASSUME ServicesInv, ServicesInv', TypesInv, [ServicesNext]_servicesVars
    PROVE  TypesInv'
<1>1. /\ subject' = subject
      /\ Web \/ UNCHANGED web
      /\ Messaging \/ UNCHANGED messaging
      /\ Data \/ UNCHANGED data
      /\ Common \/ UNCHANGED common
  BY ServicesSteps
<1>2. WebInv /\ MessagingInv /\ DataInv /\ DataInv'
  BY DEF ServicesInv
<1>3. subject \in Subjects /\ MigratorBounds /\ IInv
  BY DEF TypesInv
<1>4. subject = "http" => LeaksBounds'
  <2>1. subject = "http" => HttpInv /\ LeaksBounds /\ (HttpNext \/ UNCHANGED httpVars)
    BY <1>1, <1>2 DEF WebInv, TypesInv, Of, Web, web
  <2> QED
    BY <2>1, LeaksKeep
<1>5. subject = "health" => HealthBounds'
  <2>1. subject = "health" => HealthInv /\ HealthBounds /\ (HealthNext \/ UNCHANGED healthVars)
    BY <1>1, <1>2 DEF WebInv, TypesInv, Of, Web, web
  <2> QED
    BY <2>1, HealthBoundsKeep
<1>6. subject = "client" => ClientBounds'
  <2>1. subject = "client" => ClientInv /\ ClientBounds /\ (ClientNext \/ UNCHANGED clientVars)
    BY <1>1, <1>2 DEF WebInv, TypesInv, Of, Web, web
  <2> QED
    BY <2>1, ClientBoundsKeep
<1>7. subject = "producer" => ProducerBounds'
  <2>1. subject = "producer" =>
            ProducerInv /\ ProducerBounds /\ (ProducerNext \/ UNCHANGED producerVars)
    BY <1>1, <1>2 DEF MessagingInv, TypesInv, Of, Messaging, messaging
  <2> QED
    BY <2>1, ProducerBoundsKeep
<1>8. subject = "trace" => TraceBounds'
  <2>1. subject = "trace" => TraceInv /\ TraceBounds /\ (JourneyNext \/ UNCHANGED traceVars)
    BY <1>1, <1>2 DEF MessagingInv, TypesInv, Of, Messaging, messaging
  <2> QED
    BY <2>1, TraceBoundsKeep
<1>9. subject = "start" => StartBounds'
  <2>1. subject = "start" => StartInv /\ StartBounds /\ (StartNext \/ UNCHANGED startVars)
    BY <1>1, <1>2 DEF DataInv, TypesInv, Of, Data, data
  <2> QED
    BY <2>1, StartBoundsKeep
<1>10. subject = "telemetry" => TelemetryBounds'
  <2>1. subject = "telemetry" =>
            TelemetryInv /\ TelemetryBounds /\ (TelemetryNext \/ UNCHANGED telemetryVars)
    BY <1>1, <1>2 DEF DataInv, TypesInv, Of, Data, data
  <2>2. subject = "telemetry" => TelemetryInv'
    BY <1>1, <1>2 DEF DataInv, Of
  <2> QED
    BY <2>1, <2>2, TelemetryBoundsKeep
<1>11. MigratorBounds'
  <2>1. MigratorInv /\ (MigratorNext \/ UNCHANGED migratorVars)
    BY <1>1, <1>2 DEF DataInv, Data, data
  <2> QED
    BY <1>3, <2>1, MigratorBoundsKeep
<1>12. IInv'
  <2>1. [DispatcherNext]_dispatcherVars
    BY <1>1 DEF Common, common
  <2> QED
    BY <1>3, <2>1, NextIInv
<1>13. subject = "settings" => SettingsBounds' /\ UsableInv'
  <2>1. subject = "settings" =>
            SettingsBounds /\ UsableInv /\ (SettingsNext \/ UNCHANGED settingsVars)
    BY <1>1 DEF TypesInv, Of, Common, common
  <2> QED
    BY <2>1, SettingsBoundsKeep, UsableKeep
<1> QED
  BY <1>1, <1>3, <1>4, <1>5, <1>6, <1>7, <1>8, <1>9, <1>10, <1>11, <1>12, <1>13
     DEF TypesInv, Of

THEOREM ServicesTypes == ServicesSpec => []TypesInv
<1>1. ServicesInit => TypesInv
  BY TypesStart
<1>2. ServicesInv /\ ServicesInv' /\ TypesInv /\ [ServicesNext]_servicesVars => TypesInv'
  BY TypesKeep
<1> QED
  BY <1>1, <1>2, ServicesInvariant, PTL DEF ServicesSpec

(* Every component's variables stay in their types, the counters within    *)
(* the bounds the code sets them: the leaks of a server among its          *)
(* requests, the checks at once among the slots, the attempts of a call,   *)
(* of a publish and of a message among the retries, the versions of a      *)
(* database among the migrations, and each span's parent among those that  *)
(* were started before it.                                                 *)
THEOREM ServicesTypeCorrect == ServicesSpec => []ServicesTypeOK
<1>1. ServicesInv /\ TypesInv => ServicesTypeOK
  <2> SUFFICES ASSUME ServicesInv, TypesInv
               PROVE  ServicesTypeOK
    OBVIOUS
  <2>1. WebInv /\ MessagingInv /\ DataInv /\ CommonInv
    BY DEF ServicesInv
  <2>2. /\ subject = "http" => HttpTypeOK
        /\ subject = "health" => HealthTypeOK
        /\ subject = "client" => ClientTypeOK
    BY <2>1, HttpTyped, HealthTyped, ClientTyped DEF WebInv, TypesInv, Of
  <2>3. /\ KafkaTypeOK /\ ChannelsTypeOK
        /\ subject = "producer" => ProducerTypeOK
        /\ subject = "trace" => TraceTypeOK
    BY <2>1, KafkaTyped, ChannelsTyped, ProducerTyped, TraceTyped DEF MessagingInv, TypesInv, Of
  <2>4. /\ MigratorTypeOK
        /\ subject = "start" => StartTypeOK
        /\ subject = "telemetry" => DatabaseTelemetryTypeOK
    BY <2>1, MigratorTyped, StartTyped, TelemetryTyped DEF DataInv, TypesInv, Of
  <2>5. /\ DispatcherTypeOK
        /\ subject = "provider" => OtelTypeOK
        /\ subject = "settings" => SettingsTypeOK
    BY <2>1, DispatcherTyped, OtelTyped, SettingsTyped DEF CommonInv, TypesInv, Of
  <2> QED
    BY <2>2, <2>3, <2>4, <2>5 DEF ServicesTypeOK, TypesInv, Of
<1> QED
  BY <1>1, ServicesInvariant, ServicesTypes, PTL

(* Whatever options are given, in whatever order and however often: a      *)
(* Kafka client has the number that was accepted last, never one its       *)
(* option refuses, and connects without TLS, or without looking at the     *)
(* certificate, only when the last option about that said so; a RabbitMQ   *)
(* client that is made has waits that make sense; a server that is made    *)
(* lets a stranger's origin in only for a star (kafka/options.go,          *)
(* rabbitmq/config.go:93-143, common/config.go:66-109, cors.go:10-70).     *)
THEOREM SettingsCorrect ==
    ServicesSpec => [](subject = "settings" => SettingsAreUsable)
<1>1. TypesInv => (subject = "settings" => SettingsAreUsable)
  BY SettingsUsable DEF TypesInv, Of
<1> QED
  BY <1>1, ServicesTypes, PTL

(* The order of the event dispatcher's handlers is kept among the other    *)
(* components too (events/event_dispatcher.go).                            *)
THEOREM ServicesDispatchCorrect == ServicesSpec => []DispatchInOrder
<1>1. TypesInv => IInv
  BY DEF TypesInv
<1>2. IInv => DispatchInOrder
  BY DispatchIsInOrder
<1> QED
  BY <1>1, <1>2, ServicesTypes, PTL
=============================================================================
