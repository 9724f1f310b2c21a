----------------------------- MODULE RabbitLink -----------------------------
(***************************************************************************)
(* What the connection manager of pkg/messaging/rabbitmq promises to those *)
(* that use its channel pool: generations of connections, of which one is  *)
(* current; a pool is handed out only while the manager is up; a replaced  *)
(* connection has its pool closed.  RabbitConnection implements it, with   *)
(* watchers, flags and a reconnect goroutine; RabbitDelivery builds on it. *)
(***************************************************************************)
EXTENDS Integers

CONSTANT MaxGen   \* bound: connections that may be dialled

ASSUME LinkAssumption == MaxGen \in Nat \ {0}

Gens == 1 .. MaxGen
NoGen == 0

VARIABLES
    link,      \* for each generation: its connection, as the broker has it
    poolOpen,  \* for each generation: is its channel pool usable?
    conn,      \* the current generation
    status,    \* "up"; "down" during a reconnect; "resuming" at its end
    closed     \* has Shutdown closed the manager?

linkVars == <<link, poolOpen, conn, status, closed>>

LinkTypeOK ==
    /\ link \in [Gens -> {"none", "open", "dropped", "closed"}]
    /\ poolOpen \in [Gens -> BOOLEAN]
    /\ conn \in Gens \cup {NoGen}
    /\ status \in {"up", "down", "resuming"}
    /\ closed \in BOOLEAN

LinkInit ==
    /\ link = [n \in Gens |-> "none"]
    /\ poolOpen = [n \in Gens |-> FALSE]
    /\ conn = NoGen
    /\ status = "down"
    /\ closed = FALSE

Connect ==
    /\ conn = NoGen /\ ~closed
    /\ link' = [link EXCEPT ![1] = "open"]
    /\ poolOpen' = [poolOpen EXCEPT ![1] = TRUE]
    /\ conn' = 1
    /\ status' = "up"
    /\ UNCHANGED closed

(* The broker or the network drops a connection.                           *)
Drop(n) ==
    /\ link[n] = "open"
    /\ link' = [link EXCEPT ![n] = "dropped"]
    /\ UNCHANGED <<poolOpen, conn, status, closed>>

(* The manager notices and starts to reconnect.                            *)
Lose ==
    /\ status = "up" /\ ~closed
    /\ link[conn] = "dropped"
    /\ status' = "down"
    /\ UNCHANGED <<link, poolOpen, conn, closed>>

(* A new connection and its pool, not current yet.                         *)
Dial(k) ==
    /\ status = "down" /\ conn # NoGen
    /\ k = conn + 1 /\ link[k] = "none"
    /\ link' = [link EXCEPT ![k] = "open"]
    /\ poolOpen' = [poolOpen EXCEPT ![k] = TRUE]
    /\ UNCHANGED <<conn, status, closed>>

(* It becomes the current one; the old one's pool is closed.               *)
Install ==
    /\ status = "down" /\ conn # NoGen
    /\ conn + 1 \in Gens /\ link[conn + 1] # "none"
    /\ poolOpen' = [poolOpen EXCEPT ![conn] = FALSE]
    /\ conn' = conn + 1
    /\ status' = "resuming"
    /\ UNCHANGED <<link, closed>>

Resume ==
    /\ status = "resuming"
    /\ status' = "up"
    /\ UNCHANGED <<link, poolOpen, conn, closed>>

Close ==
    /\ ~closed
    /\ closed' = TRUE
    /\ status' = "down"
    /\ IF conn = NoGen
       THEN UNCHANGED <<link, poolOpen>>
       ELSE /\ poolOpen' = [poolOpen EXCEPT ![conn] = FALSE]
            /\ link' = [link EXCEPT ![conn] = IF @ = "open" THEN "closed" ELSE @]
    /\ UNCHANGED conn
-----------------------------------------------------------------------------
LinkNext ==
    \/ Connect \/ Lose \/ Install \/ Resume \/ Close
    \/ \E n \in Gens : Drop(n) \/ Dial(n)

LinkSpec == LinkInit /\ [][LinkNext]_linkVars

(* The three guards of getChannelPool.                                     *)
PoolGiven == ~closed /\ status = "up" /\ conn # NoGen

(* A channel of generation n still works.                                  *)
Works(n) == poolOpen[n] /\ link[n] = "open"
=============================================================================
