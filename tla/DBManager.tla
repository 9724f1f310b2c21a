----------------------------- MODULE DBManager -----------------------------
(***************************************************************************)
(* The lifecycle of pkg/database/manager: transactions opened through      *)
(* dbManager.BeginTx, ended through trackedTx.Commit and Rollback, Ping,   *)
(* the pool-statistics scraper, and Shutdown, which drains the open        *)
(* transactions before it closes the driver's pool.                        *)
(*                                                                         *)
(* One goroutine runs each transaction, each Ping and each Shutdown call;  *)
(* the body of sync.Once, its WaitGroup waiter, the goroutine in           *)
(* adapter.Close and the scraper are processes too.  A step is a stretch   *)
(* of code between two points where another goroutine can be observed.     *)
(* The driver (adapter.BeginTx, Commit, Rollback, Ping, Close) answers     *)
(* whenever it likes, with success or with an error.                       *)
(***************************************************************************)
EXTENDS Integers, FiniteSets

CONSTANTS
    Txs,        \* transactions: calls of BeginTx with what follows them
    Pingers,    \* goroutines that call Ping
    Callers     \* goroutines that call Shutdown

ASSUME TxsAssumption == IsFiniteSet(Txs)

VARIABLES
    closed,     \* dbManager.closed
    activeTx,   \* the counter of dbManager.activeTx
    tx,         \* where each transaction is
    fired,      \* trackedTx.done: has the transaction's sync.Once run?
    ping,       \* is a goroutine inside Ping, holding the read lock?
    caller,     \* where each Shutdown call is; a verdict once it returned
    stage,      \* where the body of dbManager.shutdown.Do is
    ctxDone,    \* is shutdownCtx done?
    waiter,     \* the goroutine in activeTx.Wait
    scraper,    \* the goroutine of internalpool.Scraper
    stop,       \* is Scraper.stop closed?
    closer,     \* the goroutine in adapter.Close
    shutdownErr \* dbManager.shutdownErr

txVars == <<activeTx, tx, fired>>
onceVars == <<closed, stage, ctxDone, waiter, stop, shutdownErr>>
vars == <<closed, activeTx, tx, fired, ping, caller, stage, ctxDone, waiter,
          scraper, stop, closer, shutdownErr>>

Verdicts == {"nil", "ErrShutdownTimeout", "closeErr"}

(* The transaction is counted: BeginTx has added it to activeTx and its    *)
(* first Commit or Rollback has not returned.                              *)
Live(t) == \/ tx[t] \in {"acquiring", "open"}
           \/ tx[t] \in {"committing", "rollingBack"} /\ ~fired[t]

LiveTxs == {t \in Txs : Live(t)}

TypeOK ==
    /\ closed \in BOOLEAN
    /\ activeTx \in Nat
    /\ tx \in [Txs -> {"idle", "refused", "acquiring", "failed", "open",
                       "committing", "rollingBack", "ended"}]
    /\ fired \in [Txs -> BOOLEAN]
    /\ ping \in [Pingers -> {"idle", "pinging"}]
    /\ caller \in [Callers -> {"idle", "waiting"} \cup Verdicts]
    /\ stage \in {"new", "lock", "drain", "stopScraper", "close", "done"}
    /\ ctxDone \in BOOLEAN
    /\ waiter \in {"none", "waiting", "drained"}
    /\ scraper \in {"absent", "waiting", "scraping", "stopped"}
    /\ stop \in BOOLEAN
    /\ closer \in {"none", "closing", "ok", "failed"}
    /\ shutdownErr \in Verdicts

(* New or NewFromAdapter: there is a scraper only with a real provider.    *)
Init ==
    /\ closed = FALSE
    /\ activeTx = 0
    /\ tx = [t \in Txs |-> "idle"]
    /\ fired = [t \in Txs |-> FALSE]
    /\ ping = [p \in Pingers |-> "idle"]
    /\ caller = [s \in Callers |-> "idle"]
    /\ stage = "new"
    /\ ctxDone = FALSE
    /\ waiter = "none"
    /\ scraper \in {"absent", "waiting"}
    /\ stop = FALSE
    /\ closer = "none"
    /\ shutdownErr = "nil"
-----------------------------------------------------------------------------
(* The reader side of dbManager.mu: a writer that waits for the lock keeps *)
(* new readers out, and so does the writer that holds it (its critical     *)
(* section is one assignment, part of the step that takes the lock).       *)
CanRLock == stage # "lock"

NoReader == \A p \in Pingers : ping[p] # "pinging"

(* Mistake: BeginTx does not look at closed.                               *)
BeginTxUnchecked(t) ==
    /\ tx[t] = "idle"
    /\ CanRLock
    /\ tx' = [tx EXCEPT ![t] = "acquiring"]
    /\ activeTx' = activeTx + 1
    /\ UNCHANGED <<fired, ping, caller, onceVars, scraper, closer>>

(* BeginTx, its critical section: the check of closed and activeTx.Add     *)
(* happen under one read lock.                                             *)
BeginTx(t) ==
    /\ tx[t] = "idle"
    /\ CanRLock
    /\ IF closed
       THEN /\ tx' = [tx EXCEPT ![t] = "refused"]
            /\ UNCHANGED activeTx
       ELSE /\ tx' = [tx EXCEPT ![t] = "acquiring"]
            /\ activeTx' = activeTx + 1
    /\ UNCHANGED <<fired, ping, caller, onceVars, scraper, closer>>

(* BeginTx, after adapter.BeginTx has answered.                            *)
BeginTxOk(t) ==
    /\ tx[t] = "acquiring"
    /\ tx' = [tx EXCEPT ![t] = "open"]
    /\ UNCHANGED <<activeTx, fired, ping, caller, onceVars, scraper, closer>>

(* Mistake: a begin that fails stays counted.                              *)
BeginTxErrCounted(t) ==
    /\ tx[t] = "acquiring"
    /\ tx' = [tx EXCEPT ![t] = "failed"]
    /\ UNCHANGED <<activeTx, fired, ping, caller, onceVars, scraper, closer>>

BeginTxErr(t) ==
    /\ tx[t] = "acquiring"
    /\ tx' = [tx EXCEPT ![t] = "failed"]
    /\ activeTx' = activeTx - 1
    /\ UNCHANGED <<fired, ping, caller, onceVars, scraper, closer>>

(* A client may end a transaction more than once: Rollback after a failed  *)
(* Commit, or a deferred Rollback after a Commit.                          *)
CommitCall(t) ==
    /\ tx[t] \in {"open", "ended"}
    /\ tx' = [tx EXCEPT ![t] = "committing"]
    /\ UNCHANGED <<activeTx, fired, ping, caller, onceVars, scraper, closer>>

RollbackCall(t) ==
    /\ tx[t] \in {"open", "ended"}
    /\ tx' = [tx EXCEPT ![t] = "rollingBack"]
    /\ UNCHANGED <<activeTx, fired, ping, caller, onceVars, scraper, closer>>

(* Mistake: wg.Done without the sync.Once.                                 *)
TxDoneTwice(t) ==
    /\ tx' = [tx EXCEPT ![t] = "ended"]
    /\ fired' = [fired EXCEPT ![t] = TRUE]
    /\ activeTx' = activeTx - 1
    /\ UNCHANGED <<ping, caller, onceVars, scraper, closer>>

(* t.done.Do(t.wg.Done), whatever the driver answered.                     *)
TxDone(t) ==
    /\ tx' = [tx EXCEPT ![t] = "ended"]
    /\ fired' = [fired EXCEPT ![t] = TRUE]
    /\ activeTx' = IF fired[t] THEN activeTx ELSE activeTx - 1
    /\ UNCHANGED <<ping, caller, onceVars, scraper, closer>>

CommitReturn(t) == tx[t] = "committing" /\ TxDone(t)

RollbackReturn(t) == tx[t] = "rollingBack" /\ TxDone(t)

(* Ping holds the read lock for as long as adapter.Ping runs.              *)
Ping(p) ==
    /\ ping[p] = "idle"
    /\ CanRLock
    /\ ping' = [ping EXCEPT ![p] = IF closed THEN "idle" ELSE "pinging"]
    /\ UNCHANGED <<txVars, caller, onceVars, scraper, closer>>

PingReturn(p) ==
    /\ ping[p] = "pinging"
    /\ ping' = [ping EXCEPT ![p] = "idle"]
    /\ UNCHANGED <<txVars, caller, onceVars, scraper, closer>>
-----------------------------------------------------------------------------
(* The scraper's select takes either ready case: a tick may be served      *)
(* after stop was closed.                                                  *)
ScraperTick ==
    /\ scraper = "waiting"
    /\ scraper' = "scraping"
    /\ UNCHANGED <<txVars, ping, caller, onceVars, closer>>

ScraperTickDone ==
    /\ scraper = "scraping"
    /\ scraper' = "waiting"
    /\ UNCHANGED <<txVars, ping, caller, onceVars, closer>>

ScraperStop ==
    /\ scraper = "waiting"
    /\ stop
    /\ scraper' = "stopped"
    /\ UNCHANGED <<txVars, ping, caller, onceVars, closer>>
-----------------------------------------------------------------------------
(* Shutdown: the first caller runs the body of the sync.Once, every other  *)
(* one waits in Do until the body has returned.                            *)
ShutdownCall(s) ==
    /\ caller[s] = "idle"
    /\ caller' = [caller EXCEPT ![s] = "waiting"]
    /\ stage' = IF stage = "new" THEN "lock" ELSE stage
    /\ UNCHANGED <<txVars, ping, closed, ctxDone, waiter, scraper, stop,
                   closer, shutdownErr>>

(* m.mu.Lock, closed = true, Unlock; then the context and the waiter are   *)
(* created.                                                                *)
ShutdownLock ==
    /\ stage = "lock"
    /\ NoReader
    /\ closed' = TRUE
    /\ waiter' = "waiting"
    /\ stage' = "drain"
    /\ UNCHANGED <<txVars, ping, caller, ctxDone, scraper, stop, closer,
                   shutdownErr>>

(* shutdownTimeout, or the caller's own context, expires.                  *)
ShutdownDeadline ==
    /\ stage \in {"drain", "stopScraper", "close"}
    /\ ~ctxDone
    /\ ctxDone' = TRUE
    /\ UNCHANGED <<txVars, ping, caller, closed, stage, waiter, scraper, stop,
                   closer, shutdownErr>>

(* Mistake: the goroutine that waits closes the pool itself when Shutdown  *)
(* has given up.                                                           *)
DrainedClosesLate ==
    /\ waiter = "waiting"
    /\ activeTx = 0
    /\ waiter' = "drained"
    /\ closer' = IF stage = "done" THEN "closing" ELSE closer
    /\ UNCHANGED <<txVars, ping, caller, closed, stage, ctxDone, scraper, stop,
                   shutdownErr>>

(* The goroutine in activeTx.Wait closes drained.                          *)
Drained ==
    /\ waiter = "waiting"
    /\ activeTx = 0
    /\ waiter' = "drained"
    /\ UNCHANGED <<txVars, ping, caller, closed, stage, ctxDone, scraper, stop,
                   closer, shutdownErr>>

DrainTimeout ==
    /\ stage = "drain"
    /\ ctxDone
    /\ shutdownErr' = "ErrShutdownTimeout"
    /\ stage' = "done"
    /\ UNCHANGED <<txVars, ping, caller, closed, ctxDone, waiter, scraper, stop,
                   closer>>

(* Mistake: the deadline ends the drain, and the closing goes on.          *)
StopScraperUndrained ==
    /\ stage = "drain"
    /\ waiter = "drained" \/ ctxDone
    /\ stop' = (scraper # "absent")
    /\ stage' = "stopScraper"
    /\ UNCHANGED <<txVars, ping, caller, closed, ctxDone, waiter, scraper,
                   closer, shutdownErr>>

(* Drained in time: Scraper.Stop closes the stop channel ...               *)
StopScraper ==
    /\ stage = "drain"
    /\ waiter = "drained"
    /\ stop' = (scraper # "absent")
    /\ stage' = "stopScraper"
    /\ UNCHANGED <<txVars, ping, caller, closed, ctxDone, waiter, scraper,
                   closer, shutdownErr>>

(* Mistake: Scraper.Stop does not wait for the goroutine.                  *)
StartCloseAtOnce ==
    /\ stage = "stopScraper"
    /\ closer' = "closing"
    /\ stage' = "close"
    /\ UNCHANGED <<txVars, ping, caller, closed, ctxDone, waiter, scraper, stop,
                   shutdownErr>>

(* ... and waits for the goroutine; then adapter.Close starts.             *)
StartClose ==
    /\ stage = "stopScraper"
    /\ scraper \in {"absent", "stopped"}
    /\ closer' = "closing"
    /\ stage' = "close"
    /\ UNCHANGED <<txVars, ping, caller, closed, ctxDone, waiter, scraper, stop,
                   shutdownErr>>

CloseReturn ==
    /\ closer = "closing"
    /\ closer' \in {"ok", "failed"}
    /\ UNCHANGED <<txVars, ping, caller, onceVars, scraper>>

(* Mistake: the driver's answer is awaited without the context.            *)
CloseTimeoutLate ==
    /\ stage = "close"
    /\ ctxDone /\ closer # "closing"
    /\ shutdownErr' = "ErrShutdownTimeout"
    /\ stage' = "done"
    /\ UNCHANGED <<txVars, ping, caller, closed, ctxDone, waiter, scraper, stop,
                   closer>>

CloseTimeout ==
    /\ stage = "close"
    /\ ctxDone
    /\ shutdownErr' = "ErrShutdownTimeout"
    /\ stage' = "done"
    /\ UNCHANGED <<txVars, ping, caller, closed, ctxDone, waiter, scraper, stop,
                   closer>>

CloseDone ==
    /\ stage = "close"
    /\ closer \in {"ok", "failed"}
    /\ shutdownErr' = IF closer = "ok" THEN "nil" ELSE "closeErr"
    /\ stage' = "done"
    /\ UNCHANGED <<txVars, ping, caller, closed, ctxDone, waiter, scraper, stop,
                   closer>>

(* Mistake: a flag instead of the sync.Once lets later callers through.    *)
ShutdownReturnEarly(s) ==
    /\ caller[s] = "waiting"
    /\ caller' = [caller EXCEPT ![s] = shutdownErr]
    /\ UNCHANGED <<txVars, ping, onceVars, scraper, closer>>

ShutdownReturn(s) ==
    /\ caller[s] = "waiting"
    /\ stage = "done"
    /\ caller' = [caller EXCEPT ![s] = shutdownErr]
    /\ UNCHANGED <<txVars, ping, onceVars, scraper, closer>>
-----------------------------------------------------------------------------
TxNext(t) ==
    \/ BeginTx(t)
    \/ BeginTxOk(t)
    \/ BeginTxErr(t)
    \/ CommitCall(t)
    \/ RollbackCall(t)
    \/ CommitReturn(t)
    \/ RollbackReturn(t)

OnceNext ==
    \/ ShutdownLock
    \/ ShutdownDeadline
    \/ Drained
    \/ DrainTimeout
    \/ StopScraper
    \/ StartClose
    \/ CloseReturn
    \/ CloseTimeout
    \/ CloseDone

ScraperNext == ScraperTick \/ ScraperTickDone \/ ScraperStop

ManagerNext ==
    \/ \E p \in Pingers : Ping(p) \/ PingReturn(p)
    \/ \E s \in Callers : ShutdownCall(s) \/ ShutdownReturn(s)
    \/ OnceNext
    \/ ScraperNext

Next == ManagerNext \/ \E t \in Txs : TxNext(t)

Spec == Init /\ [][Next]_vars

(* What the Go runtime guarantees: a runnable goroutine runs, a timer      *)
(* fires, and a select with two ready cases takes each of them sometimes   *)
(* (strong fairness for the scraper, which is not ready to stop while it   *)
(* serves a tick).  Nothing is assumed of the driver: adapter.Ping,        *)
(* adapter.Close, Commit and Rollback may never return.                    *)
Fairness ==
    /\ WF_vars(ShutdownLock) /\ WF_vars(ShutdownDeadline)
    /\ WF_vars(Drained) /\ WF_vars(DrainTimeout)
    /\ WF_vars(StopScraper) /\ WF_vars(StartClose)
    /\ WF_vars(CloseTimeout) /\ WF_vars(CloseDone)
    /\ WF_vars(ScraperTickDone) /\ SF_vars(ScraperStop)
    /\ \A s \in Callers : WF_vars(ShutdownReturn(s))

FairSpec == Spec /\ Fairness
-----------------------------------------------------------------------------
(* Shutdown drains before it closes: once adapter.Close has started, no    *)
(* transaction is being opened, is in use, or is in its first Commit or    *)
(* Rollback (manager.go:237-257; shutdown_test.go:154).                    *)
ClosedPoolHasNoLiveTx == closer # "none" => LiveTxs = {}

(* The WaitGroup counts every live transaction exactly once, through       *)
(* failed begins and through transactions ended twice (manager.go:196-212).*)
ActiveTxCountsLive == activeTx = Cardinality(LiveTxs)

(* No activeTx.Add while a goroutine is, or has been, in activeTx.Wait:    *)
(* the misuse of WaitGroup that BeginTx and Shutdown prevent by checking   *)
(* and setting closed under the same lock (manager.go:175-180, 226-228).   *)
NoAddAfterWait == [][waiter # "none" => activeTx' <= activeTx]_vars

(* Every Shutdown call returns the verdict of the one body that ran, and a *)
(* nil verdict means that the pool is closed, the scraper gone and no      *)
(* transaction left (manager.go:224-267).                                  *)
VerdictIsTrue ==
    /\ \A r, s \in Callers : {caller[r], caller[s]} \subseteq Verdicts
                                => caller[r] = caller[s]
    /\ (\E s \in Callers : caller[s] = "nil") =>
            /\ closer = "ok"
            /\ scraper \in {"absent", "stopped"}
            /\ activeTx = 0

(* The manager is a drain-then-close shutdown of the driver's pool for its *)
(* transactions: what the pool's phase is follows from where Shutdown is.  *)
Phase ==
    IF closer # "none" THEN "closed"
    ELSE IF stage = "done" THEN "gaveUp"
    ELSE IF closed THEN "draining" ELSE "open"

Pool == INSTANCE DrainThenClose
    WITH Users <- Txs, inside <- LiveTxs, phase <- Phase

(* Shutdown implements the abstract promise; in particular one that timed  *)
(* out in the drain never closes the pool behind the transactions that are *)
(* still running (manager.go:243-248, RF-09 in shutdown_test.go:71).       *)
DrainsThenCloses == Pool!DTCSpec

(* The scraper never reads the statistics of a pool that is being closed   *)
(* (manager.go:250-257, pool/metrics.go:77-82).                            *)
ScraperStopsBeforeClose == closer # "none" => scraper \in {"absent", "stopped"}

(* Shutdown returns although transactions and adapter.Close may hang,      *)
(* provided that no Ping keeps the read lock for ever (manager.go:226).    *)
ShutdownReturnsIfPingsDo ==
    (\A p \in Pingers : []<>(ping[p] = "idle")) =>
        \A s \in Callers : caller[s] = "waiting" ~> caller[s] \in Verdicts

(* "configured shutdown timeout should bound Shutdown even without caller  *)
(* deadline" (shutdown_test.go:61): every Shutdown call returns.           *)
ShutdownIsBounded ==
    \A s \in Callers : caller[s] = "waiting" ~> caller[s] \in Verdicts
=============================================================================
