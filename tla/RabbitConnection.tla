-------------------------- MODULE RabbitConnection --------------------------
(***************************************************************************)
(* pkg/messaging/rabbitmq: connectionManager.  The connection is dialled   *)
(* once by New; a watcher goroutine waits for the broker to drop it, and a *)
(* reconnect goroutine dials the next one with a backoff; Shutdown closes  *)
(* whatever is current.                                                    *)
(*                                                                         *)
(* Every successful dial is a generation: a connection, its channel pool,  *)
(* the context and goroutine of its watcher, and the reconnect goroutine   *)
(* that this watcher may start.  Critical sections of connectionManager.mu *)
(* are single steps; dialling happens outside the lock.                    *)
(***************************************************************************)
EXTENDS Integers, FiniteSets

CONSTANTS
    MaxGen,        \* bound: connections that may be dialled
    AutoReconnect  \* Config.EnableAutoReconnect

ASSUME RabbitAssumption == MaxGen \in Nat \ {0} /\ AutoReconnect \in BOOLEAN

Gens == 1 .. MaxGen
NoGen == 0

VARIABLES
    link,           \* for each generation: its connection, as the broker has it
    poolOpen,       \* for each generation: is its channel pool usable?
    conn,           \* connectionManager.conn and channelPool, set together
    isConnected,
    isReconnecting,
    closed,         \* connectionManager.closed; closeChan is closed with it
    watcher,        \* for each generation: its watchConnection goroutine
    watcherCancel,  \* the generation whose context watcherCancel cancels
    cancelled,      \* the generations whose watcher context is done
    recon,          \* for each generation: the reconnect its watcher started
    dialled         \* for each generation: what its reconnect has dialled

managerVars == <<conn, isConnected, isReconnecting, closed, watcherCancel,
                 cancelled>>
vars == <<link, poolOpen, watcher, recon, dialled, managerVars>>

TypeOK ==
    /\ link \in [Gens -> {"none", "open", "dropped", "closed"}]
    /\ poolOpen \in [Gens -> BOOLEAN]
    /\ conn \in Gens \cup {NoGen}
    /\ isConnected \in BOOLEAN
    /\ isReconnecting \in BOOLEAN
    /\ closed \in BOOLEAN
    /\ watcher \in [Gens -> {"none", "start", "watching", "gone"}]
    /\ watcherCancel \in Gens \cup {NoGen}
    /\ cancelled \subseteq Gens
    /\ recon \in [Gens -> {"none", "try", "dialling", "dialled", "finish",
                           "failed", "done", "gaveUp"}]
    /\ dialled \in [Gens -> Gens \cup {NoGen}]

Init ==
    /\ link = [n \in Gens |-> "none"]
    /\ poolOpen = [n \in Gens |-> FALSE]
    /\ conn = NoGen
    /\ isConnected = FALSE
    /\ isReconnecting = FALSE
    /\ closed = FALSE
    /\ watcher = [n \in Gens |-> "none"]
    /\ watcherCancel = NoGen
    /\ cancelled = {}
    /\ recon = [n \in Gens |-> "none"]
    /\ dialled = [n \in Gens |-> NoGen]
-----------------------------------------------------------------------------
(* connect, called by New: a dial that fails leaves everything as it was.  *)
Connect ==
    /\ ~closed /\ ~isConnected
    /\ conn = NoGen
    /\ link' = [link EXCEPT ![1] = "open"]
    /\ poolOpen' = [poolOpen EXCEPT ![1] = TRUE]
    /\ conn' = 1
    /\ isConnected' = TRUE
    /\ IF AutoReconnect
       THEN /\ watcher' = [watcher EXCEPT ![1] = "start"]
            /\ watcherCancel' = 1
       ELSE UNCHANGED <<watcher, watcherCancel>>
    /\ UNCHANGED <<isReconnecting, closed, cancelled, recon, dialled>>

(* The broker or the network drops a connection.                           *)
Drop(n) ==
    /\ link[n] = "open"
    /\ link' = [link EXCEPT ![n] = "dropped"]
    /\ UNCHANGED <<poolOpen, watcher, recon, dialled, managerVars>>
-----------------------------------------------------------------------------
(* watchConnection registers with NotifyClose.  The library closes the     *)
(* notification channel at once when the connection is already gone, which *)
(* the select below reads as a deliberate close (a nil error).             *)
WatchStart(n) ==
    /\ watcher[n] = "start"
    /\ watcher' = [watcher EXCEPT ![n] =
                      IF closed \/ conn = NoGen \/ link[conn] # "open"
                      THEN "gone" ELSE "watching"]
    /\ UNCHANGED <<link, poolOpen, recon, dialled, managerVars>>

(* Mistake: triggerReconnect does not look at its flags.                   *)
WatchDropUnchecked(n) ==
    /\ watcher[n] = "watching"
    /\ link[n] = "dropped"
    /\ watcher' = [watcher EXCEPT ![n] = "gone"]
    /\ isConnected' = FALSE
    /\ isReconnecting' = TRUE
    /\ recon' = [recon EXCEPT ![n] = "try"]
    /\ UNCHANGED <<link, poolOpen, dialled, conn, closed, watcherCancel, cancelled>>

(* The select takes the error of a dropped connection: triggerReconnect.   *)
WatchDrop(n) ==
    /\ watcher[n] = "watching"
    /\ link[n] = "dropped"
    /\ watcher' = [watcher EXCEPT ![n] = "gone"]
    /\ IF closed \/ isReconnecting
       THEN UNCHANGED <<isConnected, isReconnecting, recon>>
       ELSE /\ isConnected' = FALSE
            /\ isReconnecting' = TRUE
            /\ recon' = [recon EXCEPT ![n] = "try"]
    /\ UNCHANGED <<link, poolOpen, dialled, conn, closed, watcherCancel, cancelled>>

(* The select takes a deliberate close, closeChan, or the done context.    *)
WatchExit(n) ==
    /\ watcher[n] = "watching"
    /\ link[n] = "closed" \/ closed \/ n \in cancelled
    /\ watcher' = [watcher EXCEPT ![n] = "gone"]
    /\ UNCHANGED <<link, poolOpen, recon, dialled, managerVars>>
-----------------------------------------------------------------------------
(* One attempt of reconnect's operation: the check of closeChan and of the *)
(* watcher's context, which a Permanent error ends ...                     *)
ReconnectCheck(n) ==
    /\ recon[n] = "try"
    /\ recon' = [recon EXCEPT ![n] =
                    IF closed \/ n \in cancelled THEN "failed" ELSE "dialling"]
    /\ UNCHANGED <<link, poolOpen, watcher, dialled, managerVars>>

(* ... the dial and the new channel pool, without the lock ...             *)
DialOk(n) ==
    \E k \in Gens :
        /\ recon[n] = "dialling"
        /\ link[k] = "none" /\ (k > 1 => link[k - 1] # "none")
        /\ link' = [link EXCEPT ![k] = "open"]
        /\ poolOpen' = [poolOpen EXCEPT ![k] = TRUE]
        /\ dialled' = [dialled EXCEPT ![n] = k]
        /\ recon' = [recon EXCEPT ![n] = "dialled"]
        /\ UNCHANGED <<watcher, managerVars>>

DialFails(n) ==
    /\ recon[n] = "dialling"
    /\ recon' = [recon EXCEPT ![n] = "try"]
    /\ UNCHANGED <<link, poolOpen, watcher, dialled, managerVars>>

(* MaxElapsedTime is over: backoff.Retry returns the last error.           *)
GiveUp(n) ==
    /\ recon[n] = "dialling"
    /\ recon' = [recon EXCEPT ![n] = "failed"]
    /\ UNCHANGED <<link, poolOpen, watcher, dialled, managerVars>>

(* Mistakes: the old pool is not closed; isConnected is not set.           *)
InstallKeepsPool(n) ==
    LET k == dialled[n]
        done == cancelled \cup ({watcherCancel} \ {NoGen})
    IN
    /\ recon[n] = "dialled"
    /\ conn' = k
    /\ isConnected' = TRUE
    /\ watcherCancel' = k
    /\ cancelled' = IF n \in done THEN done \cup {k} ELSE done
    /\ watcher' = [watcher EXCEPT ![k] = "start"]
    /\ recon' = [recon EXCEPT ![n] = "finish"]
    /\ UNCHANGED <<link, poolOpen, dialled, isReconnecting, closed>>

InstallUnconnected(n) ==
    LET k == dialled[n]
        done == cancelled \cup ({watcherCancel} \ {NoGen})
    IN
    /\ recon[n] = "dialled"
    /\ poolOpen' = IF conn = NoGen THEN poolOpen ELSE [poolOpen EXCEPT ![conn] = FALSE]
    /\ conn' = k
    /\ watcherCancel' = k
    /\ cancelled' = IF n \in done THEN done \cup {k} ELSE done
    /\ watcher' = [watcher EXCEPT ![k] = "start"]
    /\ recon' = [recon EXCEPT ![n] = "finish"]
    /\ UNCHANGED <<link, dialled, isConnected, isReconnecting, closed>>

(* ... and the critical section that makes the new connection the current  *)
(* one.  The old watcher's context, from which the new one's is derived    *)
(* afterwards, is cancelled first: a context derived from a cancelled one  *)
(* is done from the start.                                                 *)
Install(n) ==
    LET k == dialled[n]
        done == cancelled \cup ({watcherCancel} \ {NoGen})
    IN
    /\ recon[n] = "dialled"
    /\ poolOpen' = IF conn = NoGen THEN poolOpen ELSE [poolOpen EXCEPT ![conn] = FALSE]
    /\ conn' = k
    /\ isConnected' = TRUE
    /\ watcherCancel' = k
    /\ cancelled' = IF n \in done THEN done \cup {k} ELSE done
    /\ watcher' = [watcher EXCEPT ![k] = "start"]
    /\ recon' = [recon EXCEPT ![n] = "finish"]
    /\ UNCHANGED <<link, dialled, isReconnecting, closed>>

(* Mistake: the flag is reset on success only.                             *)
ReconnectEndOnSuccess(n) ==
    /\ recon[n] \in {"finish", "failed"}
    /\ isReconnecting' = (recon[n] = "failed")
    /\ recon' = [recon EXCEPT ![n] = IF @ = "finish" THEN "done" ELSE "gaveUp"]
    /\ UNCHANGED <<link, poolOpen, watcher, dialled, conn, isConnected, closed,
                   watcherCancel, cancelled>>

(* The deferred function resets isReconnecting.                            *)
ReconnectEnd(n) ==
    /\ recon[n] \in {"finish", "failed"}
    /\ isReconnecting' = FALSE
    /\ recon' = [recon EXCEPT ![n] = IF @ = "finish" THEN "done" ELSE "gaveUp"]
    /\ UNCHANGED <<link, poolOpen, watcher, dialled, conn, isConnected, closed,
                   watcherCancel, cancelled>>

(* Mistake: getChannelPool does not look at closed.                        *)
GetsPoolClosed == isConnected /\ ~isReconnecting

(* getChannelPool's three guards, in their order.                          *)
GetsPool == ~closed /\ isConnected /\ ~isReconnecting

(* A channel of generation n still works.                                  *)
Usable(n) == poolOpen[n] /\ link[n] = "open"

(* close, under closeOnce: the current pool and connection are closed.     *)
Close ==
    /\ ~closed
    /\ closed' = TRUE
    /\ cancelled' = cancelled \cup ({watcherCancel} \ {NoGen})
    /\ watcherCancel' = NoGen
    /\ IF conn = NoGen
       THEN UNCHANGED <<link, poolOpen>>
       ELSE /\ poolOpen' = [poolOpen EXCEPT ![conn] = FALSE]
            /\ link' = [link EXCEPT ![conn] = IF @ = "open" THEN "closed" ELSE @]
    /\ isConnected' = FALSE
    /\ UNCHANGED <<conn, isReconnecting, watcher, recon, dialled>>
-----------------------------------------------------------------------------
Next ==
    \/ Connect
    \/ Close
    \/ \E n \in Gens :
        \/ Drop(n)
        \/ WatchStart(n) \/ WatchDrop(n) \/ WatchExit(n)
        \/ ReconnectCheck(n)
        \/ DialOk(n) \/ DialFails(n) \/ GiveUp(n)
        \/ Install(n)
        \/ ReconnectEnd(n)

Spec == Init /\ [][Next]_vars

(* Goroutines that can run do run, and a dial answers.  Dials cannot fail  *)
(* for ever: MaxElapsedTime is positive (Config.Validate), so an operation *)
(* that is retried without end would be given up.  The broker never has to *)
(* drop anything and the client is never obliged to connect or to close.   *)
Fairness ==
    \A n \in Gens :
        /\ WF_vars(WatchStart(n))
        /\ WF_vars(WatchDrop(n) \/ WatchExit(n))
        /\ WF_vars(ReconnectCheck(n))
        /\ WF_vars(DialOk(n) \/ DialFails(n) \/ GiveUp(n))
        /\ SF_vars(DialOk(n) \/ GiveUp(n))
        /\ WF_vars(Install(n))
        /\ WF_vars(ReconnectEnd(n))

FairSpec == Spec /\ Fairness
-----------------------------------------------------------------------------
Reconnecting == {n \in Gens : recon[n] \in {"try", "dialling", "dialled",
                                            "finish", "failed"}}

(* At most one goroutine reconnects, and isReconnecting says so, whatever  *)
(* drops come in while it runs: the flag is what keeps a second one out    *)
(* (connection.go:143-163).                                                *)
OneReconnect ==
    /\ Cardinality(Reconnecting) <= 1
    /\ isReconnecting <=> (Reconnecting # {})

(* getChannelPool hands out only the open pool of the current connection,  *)
(* and no replaced connection keeps its pool: whenever its three guards    *)
(* let a caller through, the current pool is open and every other one that *)
(* was ever current is closed (connection.go:205-214, 244-264).            *)
PoolIsCurrent ==
    /\ GetsPool => conn # NoGen /\ poolOpen[conn]
    /\ \A n \in Gens :
           poolOpen[n] => n = conn \/ \E r \in Gens : recon[r] = "dialled" /\ dialled[r] = n

(* A drop that a live watcher is waiting for is repaired, unless the       *)
(* client is closed or the reconnect runs out of time                      *)
(* (connection.go:121-133, 158-239).                                       *)
WatchedDropIsRepaired ==
    \A n \in Gens :
        (watcher[n] = "watching" /\ n \notin cancelled /\ link[n] = "dropped") ~>
            (closed \/ recon[n] = "gaveUp" \/ (conn > n /\ isConnected))

(* Closing the client ends the reconnect under way (connection.go:174-181, *)
(* 294-305).                                                               *)
CloseEndsReconnect == closed ~> ~isReconnecting

(* "Health Checks: Monitora conexao continuamente" (README.md:256 of the   *)
(* package): a connection that stays current and open has, from some point *)
(* on, a watcher that would notice its loss.                               *)
LinkStaysWatched ==
    \A n \in Gens :
        <>[](conn = n /\ link[n] = "open") => <>[](watcher[n] = "watching")

(* The manager as those see it that use its pool (connection.go:244-291).  *)
Link == INSTANCE RabbitLink WITH
    status <- IF ~isConnected THEN "down" ELSE IF isReconnecting THEN "resuming" ELSE "up"

(* It implements RabbitLink: whatever watchers, flags and reconnects do,   *)
(* the pool that is handed out is that of a connection that was dialled    *)
(* last and installed under the lock, and the one before it is closed      *)
(* (connection.go:143-239, 294-338).                                       *)
ImplementsLink == Link!LinkSpec
=============================================================================
