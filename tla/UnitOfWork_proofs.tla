------------------------- MODULE UnitOfWork_proofs -------------------------
(***************************************************************************)
(* Theorems about DBManager for every set of transactions, pingers and     *)
(* Shutdown callers, the set of transactions being finite; and then that   *)
(* Do keeps to its manager, tells its caller what the database did, and    *)
(* keeps its guard exact, for any instances, goroutines and calls.         *)
(***************************************************************************)
EXTENDS UnitOfWork, FiniteSetTheorems, SequenceTheorems, TLAPS

(* TypeOK with the counter in Int: that it never goes below zero is a      *)
(* consequence of what it counts, not of its type.                         *)
TypeInv ==
    /\ closed \in BOOLEAN
    /\ activeTx \in Int
    /\ tx \in [Txs -> {"idle", "refused", "acquiring", "failed", "open",
                       "committing", "rollingBack", "ended"}]
    /\ fired \in [Txs -> BOOLEAN]
    /\ ping \in [Pingers -> {"idle", "pinging"}]
    /\ caller \in [Callers -> {"idle", "waiting"} \cup Verdicts]
    /\ stage \in {"new", "lock", "drain", "stopScraper", "close", "done"}
    /\ ctxDone \in BOOLEAN
    /\ waiter \in {"none", "waiting", "drained"}
    /\ scraper \in {"absent", "waiting", "scraping", "stopped"}
    /\ stop \in BOOLEAN
    /\ closer \in {"none", "closing", "ok", "failed"}
    /\ shutdownErr \in Verdicts

(* A transaction's sync.Once has run exactly when a Commit or a Rollback   *)
(* of it has returned.                                                     *)
FiredInv ==
    \A t \in Txs :
        /\ tx[t] \in {"idle", "refused", "acquiring", "failed", "open"} => ~fired[t]
        /\ tx[t] = "ended" => fired[t]

(* How far the body of the sync.Once has come, seen from every variable    *)
(* it drives.                                                              *)
StageInv ==
    /\ closed <=> stage \notin {"new", "lock"}
    /\ (waiter # "none") <=> closed
    /\ stage \in {"stopScraper", "close"} => waiter = "drained"
    /\ closer # "none" => waiter = "drained"
    /\ closer # "none" => scraper \in {"absent", "stopped"}
    /\ closer # "none" => stage \in {"close", "done"}
    /\ stage = "close" => closer # "none"

(* The verdict of the body, and the callers that have already returned it. *)
VerdictInv ==
    /\ stage = "done" /\ shutdownErr = "nil" => closer = "ok"
    /\ \A s \in Callers :
           caller[s] \in Verdicts => stage = "done" /\ caller[s] = shutdownErr

DrainInv == waiter = "drained" => LiveTxs = {}

IInv ==
    /\ TypeInv
    /\ FiredInv
    /\ StageInv
    /\ VerdictInv
    /\ ActiveTxCountsLive
    /\ DrainInv
-----------------------------------------------------------------------------
LEMMA LiveFinite == IsFiniteSet(LiveTxs)
<1>1. LiveTxs \subseteq Txs
  BY DEF LiveTxs
<1> QED
  BY <1>1, TxsAssumption, FS_Subset

(* A step that leaves the transactions alone leaves the live ones alone.   *)
LEMMA LiveUnchanged ==
  ASSUME UNCHANGED <<tx, fired>>
  PROVE  LiveTxs' = LiveTxs
BY DEF LiveTxs, Live

(* The three things a step can do to the live transactions: nothing, let   *)
(* one in while the manager is not closed, let one out; the WaitGroup      *)
(* moves with them, and a step that lets one in or out does nothing else.  *)
Unmoved == LiveTxs' = LiveTxs /\ activeTx' = activeTx

OneIn(t) ==
    /\ ~closed
    /\ t \notin LiveTxs
    /\ LiveTxs' = LiveTxs \cup {t}
    /\ activeTx' = activeTx + 1
    /\ UNCHANGED <<onceVars, closer>>

OneOut(t) ==
    /\ t \in LiveTxs
    /\ LiveTxs' = LiveTxs \ {t}
    /\ activeTx' = activeTx - 1
    /\ UNCHANGED <<onceVars, closer>>

LEMMA TxDoneMoves ==
  ASSUME TypeInv, FiredInv, NEW t \in Txs,
         tx[t] \in {"committing", "rollingBack"}, TxDone(t)
  PROVE  Unmoved \/ OneOut(t)
<1>1. CASE fired[t]
  <2>1. activeTx' = activeTx
    BY <1>1 DEF TxDone
  <2>2. \A u \in Txs : Live(u)' <=> Live(u)
    BY <1>1 DEF TxDone, TypeInv, Live
  <2> QED
    BY <2>1, <2>2 DEF Unmoved, LiveTxs
<1>2. CASE ~fired[t]
  <2>1. activeTx' = activeTx - 1
    BY <1>2 DEF TxDone
  <2>2. Live(t) /\ ~Live(t)'
    BY <1>2 DEF TxDone, TypeInv, Live
  <2>3. \A u \in Txs \ {t} : Live(u)' <=> Live(u)
    BY DEF TxDone, TypeInv, Live
  <2> QED
    BY <2>1, <2>2, <2>3 DEF OneOut, LiveTxs, TxDone, onceVars
<1> QED
  BY <1>1, <1>2

LEMMA LiveMoves ==
  ASSUME TypeInv, FiredInv, [Next]_vars
  PROVE  Unmoved \/ \E t \in Txs : OneIn(t) \/ OneOut(t)
<1>1. ASSUME UNCHANGED <<tx, fired, activeTx>>
      PROVE  Unmoved
  BY <1>1, LiveUnchanged DEF Unmoved
<1>2. CASE UNCHANGED vars
  BY <1>1, <1>2 DEF vars
<1>3. CASE ManagerNext
  BY <1>1, <1>3
  DEF ManagerNext, OnceNext, ScraperNext, Ping, PingReturn, ShutdownCall,
      ShutdownReturn, ShutdownLock, ShutdownDeadline, Drained, DrainTimeout,
      StopScraper, StartClose, CloseReturn, CloseTimeout, CloseDone,
      ScraperTick, ScraperTickDone, ScraperStop, txVars
<1>4. ASSUME NEW t \in Txs, TxNext(t)
      PROVE  Unmoved \/ OneIn(t) \/ OneOut(t)
  <2>1. CASE BeginTx(t)
    <3>1. \A u \in Txs \ {t} : Live(u)' <=> Live(u)
      BY <2>1 DEF BeginTx, TypeInv, Live
    <3>2. CASE closed
      <4>1. ~Live(t) /\ ~Live(t)' /\ activeTx' = activeTx
        BY <2>1, <3>2 DEF BeginTx, TypeInv, Live
      <4> QED
        BY <3>1, <4>1 DEF Unmoved, LiveTxs
    <3>3. CASE ~closed
      <4>1. ~Live(t) /\ Live(t)' /\ activeTx' = activeTx + 1
        BY <2>1, <3>3 DEF BeginTx, TypeInv, Live
      <4> QED
        BY <2>1, <3>1, <3>3, <4>1 DEF OneIn, LiveTxs, BeginTx, onceVars
    <3> QED
      BY <3>2, <3>3
  <2>2. CASE BeginTxOk(t)
    <3>1. \A u \in Txs : Live(u)' <=> Live(u)
      BY <2>2 DEF BeginTxOk, TypeInv, Live
    <3> QED
      BY <2>2, <3>1 DEF BeginTxOk, Unmoved, LiveTxs
  <2>3. CASE BeginTxErr(t)
    <3>1. \A u \in Txs \ {t} : Live(u)' <=> Live(u)
      BY <2>3 DEF BeginTxErr, TypeInv, Live
    <3>2. Live(t) /\ ~Live(t)'
      BY <2>3 DEF BeginTxErr, TypeInv, Live
    <3> QED
      BY <2>3, <3>1, <3>2 DEF BeginTxErr, OneOut, LiveTxs, onceVars
  <2>4. CASE CommitCall(t) \/ RollbackCall(t)
    <3>1. \A u \in Txs : Live(u)' <=> Live(u)
      BY <2>4 DEF CommitCall, RollbackCall, TypeInv, FiredInv, Live
    <3> QED
      BY <2>4, <3>1 DEF CommitCall, RollbackCall, Unmoved, LiveTxs
  <2>5. CASE CommitReturn(t) \/ RollbackReturn(t)
    BY <2>5, TxDoneMoves DEF CommitReturn, RollbackReturn
  <2> QED
    BY <1>4, <2>1, <2>2, <2>3, <2>4, <2>5 DEF TxNext
<1> QED
  BY <1>2, <1>3, <1>4 DEF Next
-----------------------------------------------------------------------------
LEMMA InitIInv == Init => IInv
<1> SUFFICES ASSUME Init PROVE IInv
  OBVIOUS
<1>1. LiveTxs = {}
  BY DEF Init, LiveTxs, Live
<1>2. ActiveTxCountsLive /\ DrainInv
  BY <1>1, FS_EmptySet DEF Init, ActiveTxCountsLive, DrainInv
<1>3. TypeInv
  <2>1. tx \in [Txs -> {"idle", "refused", "acquiring", "failed", "open",
                        "committing", "rollingBack", "ended"}]
    BY DEF Init
  <2>2. fired \in [Txs -> BOOLEAN]
    BY DEF Init
  <2>3. ping \in [Pingers -> {"idle", "pinging"}]
    BY DEF Init
  <2>4. caller \in [Callers -> {"idle", "waiting"} \cup Verdicts]
    BY DEF Init
  <2>5. activeTx \in Int /\ shutdownErr \in Verdicts
    BY DEF Init, Verdicts
  <2>6. /\ closed \in BOOLEAN
        /\ stage \in {"new", "lock", "drain", "stopScraper", "close", "done"}
        /\ ctxDone \in BOOLEAN
        /\ waiter \in {"none", "waiting", "drained"}
        /\ scraper \in {"absent", "waiting", "scraping", "stopped"}
        /\ stop \in BOOLEAN
        /\ closer \in {"none", "closing", "ok", "failed"}
    BY DEF Init
  <2> QED
    BY <2>1, <2>2, <2>3, <2>4, <2>5, <2>6 DEF TypeInv
<1>4. FiredInv
  BY DEF Init, FiredInv
<1>5. StageInv
  BY DEF Init, StageInv
<1>6. VerdictInv
  BY DEF Init, VerdictInv, Verdicts
<1> QED
  BY <1>2, <1>3, <1>4, <1>5, <1>6 DEF IInv

LEMMA CountStep ==
  ASSUME IInv, [Next]_vars
  PROVE  ActiveTxCountsLive'
<1>1. Cardinality(LiveTxs) \in Nat
  BY LiveFinite, FS_CardinalityType
<1>2. CASE Unmoved
  BY <1>2 DEF Unmoved, ActiveTxCountsLive, IInv
<1>3. ASSUME NEW t \in Txs, OneIn(t)
      PROVE  ActiveTxCountsLive'
  <2>1. Cardinality(LiveTxs \cup {t}) = Cardinality(LiveTxs) + 1
    BY <1>3, LiveFinite, FS_AddElement DEF OneIn
  <2> QED
    BY <1>1, <1>3, <2>1 DEF OneIn, ActiveTxCountsLive, IInv
<1>4. ASSUME NEW t \in Txs, OneOut(t)
      PROVE  ActiveTxCountsLive'
  <2>1. Cardinality(LiveTxs \ {t}) = Cardinality(LiveTxs) - 1
    BY <1>4, LiveFinite, FS_RemoveElement DEF OneOut
  <2> QED
    BY <1>1, <1>4, <2>1 DEF OneOut, ActiveTxCountsLive, IInv
<1> QED
  BY <1>2, <1>3, <1>4, LiveMoves DEF IInv

(* The waiter reports an empty set, and nobody enters while closed.        *)
LEMMA DrainStep ==
  ASSUME IInv, [Next]_vars
  PROVE  DrainInv'
<1>1. CASE waiter = "drained"
  <2>1. LiveTxs = {} /\ closed
    BY <1>1 DEF IInv, DrainInv, StageInv
  <2> QED
    BY <2>1, LiveMoves DEF IInv, Unmoved, OneIn, OneOut, DrainInv
<1>2. CASE waiter # "drained" /\ waiter' = "drained"
  <2>1. Drained
    BY <1>2
    DEF Next, ManagerNext, OnceNext, ScraperNext, TxNext, BeginTx, BeginTxOk,
        BeginTxErr, CommitCall, RollbackCall, CommitReturn, RollbackReturn,
        TxDone, Ping, PingReturn, ShutdownCall, ShutdownReturn, ShutdownLock,
        ShutdownDeadline, DrainTimeout, StopScraper, StartClose, CloseReturn,
        CloseTimeout, CloseDone, ScraperTick, ScraperTickDone, ScraperStop,
        txVars, onceVars, vars
  <2>2. LiveTxs = {}
    BY <2>1, LiveFinite, FS_EmptySet DEF Drained, IInv, ActiveTxCountsLive
  <2> QED
    BY <2>1, <2>2, LiveUnchanged DEF Drained, DrainInv, txVars
<1> QED
  BY <1>1, <1>2 DEF DrainInv
-----------------------------------------------------------------------------
LEMMA TypeStep ==
  ASSUME TypeInv, [Next]_vars
  PROVE  TypeInv'
<1>1. CASE UNCHANGED vars
  BY <1>1 DEF TypeInv, vars
<1>2. CASE OnceNext
  <2>1. CASE ShutdownLock
    BY <2>1 DEF TypeInv, ShutdownLock, txVars
  <2>2. CASE ShutdownDeadline
    BY <2>2 DEF TypeInv, ShutdownDeadline, txVars
  <2>3. CASE Drained
    BY <2>3 DEF TypeInv, Drained, txVars
  <2>4. CASE DrainTimeout \/ CloseTimeout
    BY <2>4 DEF TypeInv, DrainTimeout, CloseTimeout, txVars, Verdicts
  <2>5. CASE CloseDone
    BY <2>5 DEF TypeInv, CloseDone, txVars, Verdicts
  <2>6. CASE StopScraper
    BY <2>6 DEF TypeInv, StopScraper, txVars
  <2>7. CASE StartClose \/ CloseReturn
    BY <2>7 DEF TypeInv, StartClose, CloseReturn, txVars, onceVars
  <2> QED
    BY <1>2, <2>1, <2>2, <2>3, <2>4, <2>5, <2>6, <2>7 DEF OnceNext
<1>3. CASE ScraperNext
  BY <1>3
  DEF TypeInv, ScraperNext, ScraperTick, ScraperTickDone, ScraperStop, txVars,
      onceVars
<1>4. ASSUME NEW p \in Pingers, Ping(p) \/ PingReturn(p)
      PROVE  TypeInv'
  BY <1>4 DEF TypeInv, Ping, PingReturn, txVars, onceVars
<1>5. ASSUME NEW s \in Callers, ShutdownCall(s)
      PROVE  TypeInv'
  BY <1>5 DEF TypeInv, ShutdownCall, txVars
<1>6. ASSUME NEW s \in Callers, ShutdownReturn(s)
      PROVE  TypeInv'
  BY <1>6 DEF TypeInv, ShutdownReturn, txVars, onceVars
<1>7. ASSUME NEW t \in Txs, TxNext(t)
      PROVE  TypeInv'
  <2>1. CASE BeginTx(t)
    BY <2>1 DEF TypeInv, BeginTx, onceVars
  <2>2. CASE BeginTxOk(t) \/ BeginTxErr(t)
    BY <2>2 DEF TypeInv, BeginTxOk, BeginTxErr, onceVars
  <2>3. CASE CommitCall(t) \/ RollbackCall(t)
    BY <2>3 DEF TypeInv, CommitCall, RollbackCall, onceVars
  <2>4. CASE CommitReturn(t) \/ RollbackReturn(t)
    <3>1. TxDone(t)
      BY <2>4 DEF CommitReturn, RollbackReturn
    <3>2. activeTx' \in Int
      BY <3>1 DEF TypeInv, TxDone
    <3>3. fired' \in [Txs -> BOOLEAN]
      BY <3>1 DEF TypeInv, TxDone
    <3> QED
      BY <3>1, <3>2, <3>3 DEF TypeInv, TxDone, onceVars
  <2> QED
    BY <1>7, <2>1, <2>2, <2>3, <2>4 DEF TxNext
<1> QED
  BY <1>1, <1>2, <1>3, <1>4, <1>5, <1>6, <1>7 DEF Next, ManagerNext

LEMMA FiredStep ==
  ASSUME TypeInv, FiredInv, [Next]_vars
  PROVE  FiredInv'
<1>1. CASE UNCHANGED <<tx, fired>>
  BY <1>1 DEF FiredInv
<1>2. ASSUME NEW t \in Txs, TxNext(t)
      PROVE  FiredInv'
  <2>1. CASE BeginTx(t)
    BY <2>1 DEF TypeInv, FiredInv, BeginTx
  <2>2. CASE BeginTxOk(t) \/ BeginTxErr(t)
    BY <2>2 DEF TypeInv, FiredInv, BeginTxOk, BeginTxErr
  <2>3. CASE CommitCall(t) \/ RollbackCall(t)
    BY <2>3 DEF TypeInv, FiredInv, CommitCall, RollbackCall
  <2>4. CASE CommitReturn(t) \/ RollbackReturn(t)
    BY <2>4 DEF TypeInv, FiredInv, CommitReturn, RollbackReturn, TxDone
  <2> QED
    BY <1>2, <2>1, <2>2, <2>3, <2>4 DEF TxNext
<1>3. CASE ManagerNext
  BY <1>1, <1>3
  DEF ManagerNext, OnceNext, ScraperNext, Ping, PingReturn, ShutdownCall,
      ShutdownReturn, ShutdownLock, ShutdownDeadline, Drained, DrainTimeout,
      StopScraper, StartClose, CloseReturn, CloseTimeout, CloseDone,
      ScraperTick, ScraperTickDone, ScraperStop, txVars
<1> QED
  BY <1>1, <1>2, <1>3 DEF Next, vars

(* A transaction's step touches nothing of Shutdown.                       *)
LEMMA TxFrame ==
  ASSUME NEW t \in Txs, TxNext(t)
  PROVE  UNCHANGED <<onceVars, caller, scraper, closer>>
BY DEF TxNext, BeginTx, BeginTxOk, BeginTxErr, CommitCall, RollbackCall,
       CommitReturn, RollbackReturn, TxDone

LEMMA StageStep ==
  ASSUME TypeInv, StageInv, [Next]_vars
  PROVE  StageInv'
<1>1. CASE UNCHANGED <<onceVars, scraper, closer>>
  BY <1>1 DEF StageInv, onceVars
<1>2. ASSUME NEW s \in Callers, ShutdownCall(s)
      PROVE  StageInv'
  BY <1>2 DEF StageInv, ShutdownCall
<1>3. CASE ShutdownLock \/ ShutdownDeadline \/ Drained
  BY <1>3 DEF StageInv, ShutdownLock, ShutdownDeadline, Drained
<1>4. CASE DrainTimeout \/ CloseTimeout \/ CloseDone
  BY <1>4 DEF StageInv, DrainTimeout, CloseTimeout, CloseDone
<1>5. CASE StopScraper \/ StartClose
  BY <1>5 DEF StageInv, StopScraper, StartClose
<1>6. CASE CloseReturn
  BY <1>6 DEF TypeInv, StageInv, CloseReturn, onceVars
<1>7. CASE ScraperNext
  BY <1>7 DEF StageInv, ScraperNext, ScraperTick, ScraperTickDone, ScraperStop,
              onceVars
<1> QED
  BY <1>1, <1>2, <1>3, <1>4, <1>5, <1>6, <1>7, TxFrame
  DEF Next, ManagerNext, OnceNext, Ping, PingReturn, ShutdownReturn, vars,
      onceVars

LEMMA VerdictStep ==
  ASSUME TypeInv, StageInv, VerdictInv, [Next]_vars
  PROVE  VerdictInv'
<1>1. CASE UNCHANGED <<stage, shutdownErr, closer, caller>>
  BY <1>1 DEF VerdictInv
<1>2. ASSUME NEW s \in Callers, ShutdownCall(s)
      PROVE  VerdictInv'
  BY <1>2 DEF TypeInv, VerdictInv, ShutdownCall, Verdicts
<1>3. ASSUME NEW s \in Callers, ShutdownReturn(s)
      PROVE  VerdictInv'
  BY <1>3 DEF TypeInv, VerdictInv, ShutdownReturn, onceVars
<1>4. CASE ShutdownLock \/ StopScraper \/ StartClose
  BY <1>4 DEF VerdictInv, ShutdownLock, StopScraper, StartClose
<1>5. CASE DrainTimeout \/ CloseTimeout \/ CloseDone
  BY <1>5 DEF VerdictInv, DrainTimeout, CloseTimeout, CloseDone
<1>6. CASE CloseReturn
  BY <1>6 DEF VerdictInv, CloseReturn, onceVars
<1> QED
  BY <1>1, <1>2, <1>3, <1>4, <1>5, <1>6, TxFrame
  DEF Next, ManagerNext, OnceNext, ScraperNext, Ping, PingReturn,
      ShutdownDeadline, Drained, ScraperTick, ScraperTickDone, ScraperStop,
      vars, onceVars

THEOREM IInvInvariant == Spec => []IInv
<1>1. IInv /\ [Next]_vars => IInv'
  BY TypeStep, FiredStep, StageStep, VerdictStep, CountStep, DrainStep
  DEF IInv
<1> QED
  BY InitIInv, <1>1, PTL DEF Spec
-----------------------------------------------------------------------------
(* Every variable keeps its type; the WaitGroup counter is never negative, *)
(* so trackedTx never makes sync.WaitGroup panic.                          *)
THEOREM TypeCorrect == Spec => []TypeOK
<1>1. IInv => TypeOK
  BY LiveFinite, FS_CardinalityType DEF IInv, TypeInv, TypeOK, ActiveTxCountsLive
<1> QED
  BY <1>1, IInvInvariant, PTL

(* The WaitGroup counts each live transaction exactly once.                *)
THEOREM CountCorrect == Spec => []ActiveTxCountsLive
<1>1. IInv => ActiveTxCountsLive
  BY DEF IInv
<1> QED
  BY <1>1, IInvInvariant, PTL

(* The pool is never being closed under a live transaction.                *)
THEOREM DrainedBeforeClose == Spec => []ClosedPoolHasNoLiveTx
<1>1. IInv => ClosedPoolHasNoLiveTx
  BY DEF IInv, StageInv, DrainInv, ClosedPoolHasNoLiveTx
<1> QED
  BY <1>1, IInvInvariant, PTL

(* All Shutdown calls return one verdict, and nil means that all is done.  *)
THEOREM VerdictCorrect == Spec => []VerdictIsTrue
<1>1. IInv => VerdictIsTrue
  <2> SUFFICES ASSUME IInv PROVE VerdictIsTrue
    OBVIOUS
  <2>1. \A r, s \in Callers : {caller[r], caller[s]} \subseteq Verdicts
                                  => caller[r] = caller[s]
    BY DEF IInv, VerdictInv
  <2>2. ASSUME NEW s \in Callers, caller[s] = "nil"
        PROVE  /\ closer = "ok"
               /\ scraper \in {"absent", "stopped"}
               /\ activeTx = 0
    <3>1. closer = "ok"
      BY <2>2 DEF IInv, VerdictInv, Verdicts
    <3>2. LiveTxs = {} /\ scraper \in {"absent", "stopped"}
      BY <3>1 DEF IInv, StageInv, DrainInv
    <3> QED
      BY <3>1, <3>2, FS_EmptySet DEF IInv, ActiveTxCountsLive
  <2> QED
    BY <2>1, <2>2 DEF VerdictIsTrue
<1> QED
  BY <1>1, IInvInvariant, PTL

(* The scraper is gone before the pool is closed.                          *)
THEOREM ScraperCorrect == Spec => []ScraperStopsBeforeClose
<1>1. IInv => ScraperStopsBeforeClose
  BY DEF IInv, StageInv, ScraperStopsBeforeClose
<1> QED
  BY <1>1, IInvInvariant, PTL

(* sync.WaitGroup is never raised while a goroutine waits on it.           *)
THEOREM WaitGroupCorrect == Spec => NoAddAfterWait
<1>1. IInv /\ [Next]_vars => [waiter # "none" => activeTx' <= activeTx]_vars
  BY LiveMoves DEF IInv, TypeInv, StageInv, Unmoved, OneIn, OneOut
<1> QED
  BY <1>1, IInvInvariant, PTL DEF Spec, NoAddAfterWait
-----------------------------------------------------------------------------
(* Steps that move neither the live transactions nor the pool's phase.     *)
LEMMA PhaseUnchanged ==
  ASSUME UNCHANGED <<closed, stage, closer>>
  PROVE  Phase' = Phase
BY DEF Phase

LEMMA DrainsInit == Init => Pool!DTCInit
<1> SUFFICES ASSUME Init PROVE Pool!DTCInit
  OBVIOUS
<1>1. LiveTxs = {}
  BY DEF Init, LiveTxs, Live
<1>2. Phase = "open"
  BY DEF Init, Phase
<1> QED
  BY <1>1, <1>2 DEF Pool!DTCInit

(* What Shutdown's own steps do to the phase.                              *)
LEMMA DrainsOnce ==
  ASSUME IInv, OnceNext
  PROVE  Pool!DTCNext \/ UNCHANGED Pool!dtcVars
<1>1. LiveTxs' = LiveTxs
  BY LiveUnchanged
  DEF OnceNext, ShutdownLock, ShutdownDeadline, Drained, DrainTimeout,
      StopScraper, StartClose, CloseReturn, CloseTimeout, CloseDone, txVars
<1>2. CASE ShutdownLock
  <2>1. Phase = "open" /\ Phase' = "draining"
    BY <1>2 DEF IInv, StageInv, ShutdownLock, Phase
  <2> QED
    BY <1>1, <2>1 DEF Pool!DTCNext, Pool!Drain
<1>3. CASE DrainTimeout
  <2>1. Phase = "draining" /\ Phase' = "gaveUp"
    BY <1>3 DEF IInv, StageInv, DrainTimeout, Phase
  <2> QED
    BY <1>1, <2>1 DEF Pool!DTCNext, Pool!GiveUp
<1>4. CASE StartClose
  <2>1. Phase' = "closed"
    BY <1>4 DEF StartClose, Phase
  <2>2. Phase = "draining" /\ LiveTxs = {}
    BY <1>4 DEF IInv, StageInv, DrainInv, StartClose, Phase
  <2> QED
    BY <1>1, <2>1, <2>2 DEF Pool!DTCNext, Pool!Close
<1>5. CASE CloseTimeout \/ CloseDone
  <2>1. Phase = "closed" /\ Phase' = "closed"
    BY <1>5 DEF IInv, StageInv, CloseTimeout, CloseDone, Phase
  <2> QED
    BY <1>1, <2>1 DEF Pool!dtcVars
<1>6. CASE ShutdownDeadline \/ Drained
  BY <1>1, <1>6, PhaseUnchanged DEF ShutdownDeadline, Drained, Pool!dtcVars
<1>7. CASE StopScraper
  <2>1. Phase = "draining" /\ Phase' = "draining"
    BY <1>7 DEF IInv, StageInv, StopScraper, Phase
  <2> QED
    BY <1>1, <2>1 DEF Pool!dtcVars
<1>8. CASE CloseReturn
  <2>1. Phase = "closed" /\ Phase' = "closed"
    BY <1>8 DEF CloseReturn, Phase
  <2> QED
    BY <1>1, <2>1 DEF Pool!dtcVars
<1> QED
  BY <1>2, <1>3, <1>4, <1>5, <1>6, <1>7, <1>8 DEF OnceNext

LEMMA DrainsStep ==
  ASSUME IInv, [Next]_vars
  PROVE  Pool!DTCNext \/ UNCHANGED Pool!dtcVars
<1>1. CASE OnceNext
  BY <1>1, DrainsOnce
<1>2. ASSUME NEW t \in Txs, TxNext(t)
      PROVE  Pool!DTCNext \/ UNCHANGED Pool!dtcVars
  <2>1. Phase' = Phase
    BY <1>2, TxFrame, PhaseUnchanged DEF onceVars
  <2>2. CASE Unmoved
    BY <2>1, <2>2 DEF Unmoved, Pool!dtcVars
  <2>3. ASSUME NEW u \in Txs, OneIn(u)
        PROVE  Pool!DTCNext
    <3>1. Phase = "open"
      BY <2>3 DEF IInv, StageInv, OneIn, Phase
    <3>2. Pool!Enter(u)
      BY <2>1, <2>3, <3>1 DEF OneIn, Pool!Enter
    <3> QED
      BY <3>2 DEF Pool!DTCNext
  <2>4. ASSUME NEW u \in Txs, OneOut(u)
        PROVE  Pool!DTCNext
    <3>1. Pool!Leave(u)
      BY <2>1, <2>4 DEF OneOut, Pool!Leave
    <3> QED
      BY <3>1 DEF Pool!DTCNext
  <2> QED
    BY <2>2, <2>3, <2>4, LiveMoves DEF IInv
<1>3. ASSUME UNCHANGED <<tx, fired>>, UNCHANGED <<closed, closer>>,
             UNCHANGED stage \/ (stage = "new" /\ stage' = "lock")
      PROVE  UNCHANGED Pool!dtcVars
  <2>1. Phase' = Phase
    BY <1>3 DEF Phase
  <2> QED
    BY <1>3, <2>1, LiveUnchanged DEF Pool!dtcVars
<1>4. CASE UNCHANGED vars
  BY <1>3, <1>4 DEF vars
<1>5. CASE ScraperNext
  BY <1>3, <1>5
  DEF ScraperNext, ScraperTick, ScraperTickDone, ScraperStop, txVars, onceVars
<1>6. ASSUME NEW p \in Pingers, Ping(p) \/ PingReturn(p)
      PROVE  UNCHANGED Pool!dtcVars
  BY <1>3, <1>6 DEF Ping, PingReturn, txVars, onceVars
<1>7. ASSUME NEW s \in Callers, ShutdownCall(s) \/ ShutdownReturn(s)
      PROVE  UNCHANGED Pool!dtcVars
  BY <1>3, <1>7 DEF ShutdownCall, ShutdownReturn, txVars, onceVars
<1> QED
  BY <1>1, <1>2, <1>4, <1>5, <1>6, <1>7 DEF Next, ManagerNext

(* The manager implements the drain-then-close promise.                    *)
THEOREM ManagerDrainsThenCloses == Spec => DrainsThenCloses
<1>1. IInv /\ [Next]_vars => [Pool!DTCNext]_Pool!dtcVars
  BY DrainsStep
<1> QED
  BY <1>1, DrainsInit, IInvInvariant, PTL
  DEF Spec, DrainsThenCloses, Pool!DTCSpec
-----------------------------------------------------------------------------
(* Where a call of Do is, its transaction, and what the database did with  *)
(* it so far, go together.                                                 *)
CallInv(t) ==
    /\ do[t] \in {"idle", "nested"} => tx[t] = "idle" /\ durable[t] = "none"
    /\ do[t] = "begin" => tx[t] \in {"idle", "acquiring"} /\ durable[t] = "none"
    /\ do[t] = "fn" => tx[t] = "open" /\ durable[t] = "open"
    /\ do[t] = "commit" => tx[t] = "committing" /\ ~fired[t] /\ durable[t] = "open"
    /\ do[t] = "abort" =>
           tx[t] = "ended" /\ why[t] = "commitErr" /\ durable[t] \in {"committed", "open"}
    /\ do[t] = "rollback" =>
           /\ tx[t] = "rollingBack"
           /\ \/ why[t] = "commitErr" /\ durable[t] \in {"committed", "open"}
              \/ why[t] # "commitErr" /\ durable[t] = "open" /\ ~fired[t]
    /\ do[t] = "ok" => tx[t] = "ended" /\ durable[t] = "committed"
    /\ do[t] \in {"fnErr", "panic"} => tx[t] = "ended" /\ durable[t] = "aborted"
    /\ do[t] = "commitErr" => tx[t] = "ended" /\ durable[t] \in {"committed", "aborted"}
    /\ do[t] = "beginErr" => tx[t] \in {"refused", "failed"} /\ durable[t] = "none"

At(t) == do[t] \in Inside

(* The guard holds exactly the calls inside, one for an instance and a     *)
(* goroutine.                                                              *)
GuardInv ==
    /\ \A t \in Txs : At(t) => who[t] \in active
    /\ \A a \in active : \E t \in Txs : At(t) /\ who[t] = a
    /\ \A t, r \in Txs : At(t) /\ At(r) /\ who[t] = who[r] => t = r

(* A goroutine's stack holds each of its calls inside once, and all but    *)
(* the innermost one are in the user's function.                           *)
StackInv ==
    /\ \A g \in Goroutines : \A i \in 1 .. Len(stack[g]) :
           At(stack[g][i]) /\ who[stack[g][i]] \in Units \X {g}
    /\ \A g \in Goroutines : \A i, j \in 1 .. Len(stack[g]) :
           i # j => stack[g][i] # stack[g][j]
    /\ \A g \in Goroutines : \A i \in 1 .. Len(stack[g]) :
           i < Len(stack[g]) => do[stack[g][i]] = "fn"
    /\ \A t \in Txs : At(t) =>
           /\ who[t] \in Units \X Goroutines
           /\ \E i \in 1 .. Len(stack[who[t][2]]) : stack[who[t][2]][i] = t

UowInv ==
    /\ IInv
    /\ UowTypeOK
    /\ \A t \in Txs : CallInv(t)
    /\ GuardInv
    /\ StackInv
-----------------------------------------------------------------------------
(* Every step of Do is a step of the manager, or none of its business.     *)
LEMMA UowStepIsManagers ==
    ASSUME [UowNext]_allVars
    PROVE  [Next]_vars
<1>1. CASE UNCHANGED allVars
  BY <1>1 DEF allVars
<1>2. CASE ManagerNext
  BY <1>2 DEF Next
<1>3. ASSUME NEW t \in Txs, DoNext(t)
      PROVE  [Next]_vars
  <2>1. CASE UNCHANGED vars
    BY <2>1
  <2>2. CASE TxNext(t)
    BY <2>2 DEF Next
  <2> QED
    BY <1>3, <2>1, <2>2 DEF DoNext, Enter, DoBegin, DoBegun, DoBeginFailed, FnOk, FnFailed,
        FnGoexit, DoCommitted, DoCommitFailed, DoAbort, DoRolledBack, TxNext
<1> QED
  BY <1>1, <1>2, <1>3 DEF UowNext

LEMMA ManagerStep ==
    ASSUME IInv, [Next]_vars
    PROVE  IInv'
BY TypeStep, FiredStep, StageStep, VerdictStep, CountStep, DrainStep DEF IInv

(* Do over the manager is a run of the manager: its theorems are about it. *)
THEOREM UowImplementsManager == UowSpec => Spec
<1>1. UowInit => Init
  BY DEF UowInit
<1>2. [UowNext]_allVars => [Next]_vars
  BY UowStepIsManagers
<1> QED
  BY <1>1, <1>2, PTL DEF UowSpec, Spec
-----------------------------------------------------------------------------
LEMMA FrontOf ==
    ASSUME NEW S, NEW s \in Seq(S), Len(s) # 0
    PROVE  /\ Front(s) \in Seq(S) /\ Len(Front(s)) = Len(s) - 1
           /\ \A i \in 1 .. Len(s) - 1 : Front(s)[i] = s[i]
<1> DEFINE n == Len(s) - 1
<1>1. n \in Nat /\ \A i \in 1 .. n : s[i] \in S
  OBVIOUS
<1>2. /\ SubSeq(s, 1, n) \in Seq(S)
      /\ Len(SubSeq(s, 1, n)) = IF 1 <= n THEN n - 1 + 1 ELSE 0
      /\ \A i \in 1 .. n - 1 + 1 : SubSeq(s, 1, n)[i] = s[1 + i - 1]
  <2> HIDE DEF n
  <2> QED
    BY <1>1, SubSeqProperties
<1> HIDE DEF n
<1>3. n - 1 + 1 = n /\ (n = 0 \/ 1 <= n) /\ \A i \in 1 .. n : 1 + i - 1 = i
  BY <1>1
<1>4. Len(SubSeq(s, 1, n)) = n
  BY <1>2, <1>3
<1>5. \A i \in 1 .. n : SubSeq(s, 1, n)[i] = s[i]
  BY <1>2, <1>3
<1> QED
  BY <1>2, <1>4, <1>5 DEF Front, n

(* A call that is not in the user's function, or whose function is the     *)
(* innermost one, is the last of its goroutine's stack.                    *)
LEMMA LastOfStack ==
    ASSUME UowTypeOK, StackInv, NEW t \in Txs, At(t), do[t] # "fn" \/ Innermost(t),
           NEW g, g = who[t][2]
    PROVE  /\ g \in Goroutines /\ stack[g] \in Seq(Txs)
           /\ Len(stack[g]) \in Nat \ {0} /\ stack[g][Len(stack[g])] = t
<1>1. g \in Goroutines
  BY DEF StackInv
<1>2. stack[g] \in Seq(Txs) /\ Len(stack[g]) \in Nat
  BY <1>1 DEF UowTypeOK
<1>3. PICK i \in 1 .. Len(stack[g]) : stack[g][i] = t
  BY DEF StackInv
<1>4. CASE do[t] # "fn"
  <2>1. ~(i < Len(stack[g]))
    BY <1>1, <1>3, <1>4 DEF StackInv
  <2> QED
    BY <1>1, <1>2, <1>3, <2>1
<1>5. CASE Innermost(t)
  <2>1. PICK h \in Goroutines : stack[h] # <<>> /\ Last(stack[h]) = t
    BY <1>5 DEF Innermost
  <2>2. stack[h] \in Seq(Txs) /\ Len(stack[h]) \in Nat \ {0} /\ stack[h][Len(stack[h])] = t
    BY <2>1 DEF UowTypeOK, Last
  <2>3. who[t] \in Units \X {h}
    <3>1. Len(stack[h]) \in 1 .. Len(stack[h])
      BY <2>2
    <3> QED
      BY <2>2, <3>1 DEF StackInv
  <2>4. h = g
    BY <2>3
  <2> QED
    BY <1>1, <2>2, <2>4
<1> QED
  BY <1>4, <1>5

(* A call moves on inside Do.                                              *)
LEMMA ShiftKeeps ==
    ASSUME UowTypeOK, GuardInv, StackInv, NEW t \in Txs, At(t),
           do[t] # "fn" \/ Innermost(t), NEW d \in Inside,
           do' = [do EXCEPT ![t] = d], UNCHANGED <<who, stack, active>>
    PROVE  GuardInv' /\ StackInv'
<1>1. \A r \in Txs : At(r)' <=> At(r)
  BY DEF At, UowTypeOK
<1>2. GuardInv'
  BY <1>1 DEF GuardInv
<1>3. \A g \in Goroutines : \A i \in 1 .. Len(stack[g]) :
          stack[g][i] \in Txs /\ i \in 1 .. Len(stack[g]) /\ Len(stack[g]) \in Nat
  BY DEF UowTypeOK
<1>4. \A g \in Goroutines : \A i \in 1 .. Len(stack[g]) :
          i < Len(stack[g]) => stack[g][i] # t
  <2> SUFFICES ASSUME NEW g \in Goroutines, NEW i \in 1 .. Len(stack[g]),
                      i < Len(stack[g]), stack[g][i] = t
               PROVE  FALSE
    OBVIOUS
  <2>1. who[t] \in Units \X {g}
    BY DEF StackInv
  <2>2. g = who[t][2]
    BY <2>1
  <2>3. Len(stack[g]) \in Nat \ {0} /\ stack[g][Len(stack[g])] = t
    BY <2>2, LastOfStack
  <2> QED
    BY <2>3 DEF StackInv
<1>5. StackInv'
  <2>1. \A g \in Goroutines : \A i \in 1 .. Len(stack[g]) :
            i < Len(stack[g]) => do'[stack[g][i]] = "fn"
    BY <1>3, <1>4 DEF StackInv, UowTypeOK
  <2>2. \A g \in Goroutines : \A i \in 1 .. Len(stack[g]) : At(stack[g][i])'
    <3>1. \A g \in Goroutines : \A i \in 1 .. Len(stack[g]) : do'[stack[g][i]] \in Inside
      BY <1>3 DEF StackInv, At, UowTypeOK
    <3> QED
      BY <3>1 DEF At
  <2> QED
    BY <1>1, <2>1, <2>2 DEF StackInv
<1> QED
  BY <1>2, <1>5

(* A call returns: it is off its stack and out of the guard.               *)
LEMMA ReturnKeeps ==
    ASSUME UowTypeOK, GuardInv, StackInv, NEW t \in Txs, At(t), do[t] # "fn",
           NEW v \in DoVerdicts, Return(t, v)
    PROVE  /\ GuardInv' /\ StackInv'
           /\ do' = [do EXCEPT ![t] = v] /\ UNCHANGED <<who, why>>
           /\ stack' \in [Goroutines -> Seq(Txs)]
           /\ active' \subseteq Units \X Goroutines
<1> DEFINE g == who[t][2]
           s == stack[g]
<1>1. /\ do' = [do EXCEPT ![t] = v] /\ stack' = [stack EXCEPT ![g] = Front(stack[g])]
      /\ active' = active \ {who[t]} /\ UNCHANGED <<who, why>>
  BY DEF Return
<1>2. /\ g \in Goroutines /\ s \in Seq(Txs) /\ Len(s) \in Nat \ {0} /\ s[Len(s)] = t
  BY LastOfStack
<1>3. /\ Front(s) \in Seq(Txs) /\ Len(Front(s)) = Len(s) - 1
      /\ \A i \in 1 .. Len(s) - 1 : Front(s)[i] = s[i]
  BY <1>2, FrontOf
<1>4. /\ stack' \in [Goroutines -> Seq(Txs)] /\ stack'[g] = Front(s)
      /\ \A h \in Goroutines \ {g} : stack'[h] = stack[h]
  BY <1>1, <1>2, <1>3 DEF UowTypeOK
<1>5. v \notin Inside
  BY DEF DoVerdicts, Errors, Inside
<1>6. \A r \in Txs : At(r)' <=> (At(r) /\ r # t)
  BY <1>1, <1>5 DEF At, UowTypeOK
<1>7. GuardInv'
  <2>1. \A r \in Txs : At(r)' => who[r] \in active'
    BY <1>1, <1>6 DEF GuardInv
  <2>2. \A a \in active' : \E r \in Txs : At(r)' /\ who[r] = a
    BY <1>1, <1>6 DEF GuardInv
  <2> QED
    BY <1>1, <1>6, <2>1, <2>2 DEF GuardInv
<1>8. \A h \in Goroutines : \A i \in 1 .. Len(stack'[h]) :
          /\ i \in 1 .. Len(stack[h]) /\ stack'[h][i] = stack[h][i]
          /\ stack[h][i] \in Txs \ {t}
          /\ i < Len(stack'[h]) => i < Len(stack[h])
  <2> SUFFICES ASSUME NEW h \in Goroutines, NEW i \in 1 .. Len(stack'[h])
               PROVE  /\ i \in 1 .. Len(stack[h]) /\ stack'[h][i] = stack[h][i]
                      /\ stack[h][i] \in Txs \ {t}
                      /\ i < Len(stack'[h]) => i < Len(stack[h])
    OBVIOUS
  <2>1. stack[h] \in Seq(Txs) /\ Len(stack[h]) \in Nat
    BY DEF UowTypeOK
  <2>2. CASE h = g
    <3>1. i \in 1 .. Len(s) - 1 /\ i # Len(s)
      BY <1>2, <1>3, <1>4, <2>2
    <3>2. s[i] # s[Len(s)]
      BY <1>2, <3>1 DEF StackInv
    <3> HIDE DEF s, g
    <3> QED
      BY <1>2, <1>3, <1>4, <2>1, <2>2, <3>1, <3>2 DEF s
  <2>3. CASE h # g
    <3>1. stack'[h] = stack[h]
      BY <1>4, <2>3
    <3>2. who[stack[h][i]] \in Units \X {h}
      BY <3>1 DEF StackInv
    <3>3. stack[h][i] # t
      BY <2>3, <3>2
    <3> QED
      BY <2>1, <3>1, <3>3
  <2> QED
    BY <2>2, <2>3
<1>9. StackInv'
  <2>0. \A r \in Txs \ {t} : do'[r] = do[r] /\ who'[r] = who[r]
    BY <1>1 DEF UowTypeOK
  <2>1. ASSUME NEW h \in Goroutines, NEW i \in 1 .. Len(stack'[h])
        PROVE  /\ do'[stack'[h][i]] \in Inside /\ who'[stack'[h][i]] \in Units \X {h}
               /\ i < Len(stack'[h]) => do'[stack'[h][i]] = "fn"
    <3>1. /\ i \in 1 .. Len(stack[h]) /\ stack'[h][i] = stack[h][i]
          /\ stack[h][i] \in Txs \ {t}
          /\ i < Len(stack'[h]) => i < Len(stack[h])
      BY <1>8
    <3>2. /\ do[stack[h][i]] \in Inside /\ who[stack[h][i]] \in Units \X {h}
          /\ i < Len(stack[h]) => do[stack[h][i]] = "fn"
      BY <3>1 DEF StackInv, At
    <3> QED
      BY <2>0, <3>1, <3>2
  <2>2. \A h \in Goroutines : \A i, j \in 1 .. Len(stack'[h]) :
            i # j => stack'[h][i] # stack'[h][j]
    <3> SUFFICES ASSUME NEW h \in Goroutines, NEW i \in 1 .. Len(stack'[h]),
                        NEW j \in 1 .. Len(stack'[h]), i # j
                 PROVE  stack'[h][i] # stack'[h][j]
      OBVIOUS
    <3>1. /\ i \in 1 .. Len(stack[h]) /\ stack'[h][i] = stack[h][i]
          /\ j \in 1 .. Len(stack[h]) /\ stack'[h][j] = stack[h][j]
      BY <1>8
    <3>2. stack[h][i] # stack[h][j]
      BY <3>1 DEF StackInv
    <3> QED
      BY <3>1, <3>2
  <2>4. ASSUME NEW r \in Txs, At(r)'
        PROVE  /\ who'[r] \in Units \X Goroutines
               /\ \E i \in 1 .. Len(stack'[who'[r][2]]) : stack'[who'[r][2]][i] = r
    <3>1. At(r) /\ r # t /\ who'[r] = who[r]
      BY <1>1, <1>6, <2>4
    <3>2. PICK i \in 1 .. Len(stack[who[r][2]]) : stack[who[r][2]][i] = r
      BY <3>1 DEF StackInv
    <3>3. who[r] \in Units \X Goroutines /\ who[r][2] \in Goroutines
      BY <3>1 DEF StackInv
    <3>4. CASE who[r][2] = g
      <4>1. i \in 1 .. Len(s) /\ s[i] = r /\ i # Len(s)
        BY <1>2, <3>1, <3>2, <3>4
      <4>2. i \in 1 .. Len(s) - 1
        BY <1>2, <4>1
      <4>3. i \in 1 .. Len(stack'[g]) /\ stack'[g][i] = r
        BY <1>3, <1>4, <4>1, <4>2
      <4> QED
        BY <3>1, <3>3, <3>4, <4>3
    <3>5. CASE who[r][2] # g
      BY <1>4, <3>1, <3>2, <3>3, <3>5
    <3> QED
      BY <3>4, <3>5
  <2> QED
    BY <2>1, <2>2, <2>4 DEF StackInv, At
<1>10. active' \subseteq Units \X Goroutines
  BY <1>1 DEF UowTypeOK
<1> QED
  BY <1>1, <1>4, <1>7, <1>9, <1>10

(* A call is turned away, or enters and is its goroutine's innermost.      *)
LEMMA EnterKeeps ==
    ASSUME UowTypeOK, GuardInv, StackInv, NEW t \in Txs, NEW u \in Units,
           NEW g \in Goroutines, NEW c \in BOOLEAN, Enter(t, u, g, c)
    PROVE  /\ GuardInv' /\ StackInv' /\ UowTypeOK'
<1> DEFINE s == stack[g]
<1>1. /\ do[t] = "idle" /\ InUserCode(g) /\ who' = [who EXCEPT ![t] = <<u, g>>]
      /\ UNCHANGED <<why, durable>>
  BY DEF Enter
<1>2. ~At(t) /\ \A r \in Txs \ {t} : who'[r] = who[r]
  BY <1>1 DEF At, Inside, UowTypeOK
<1>3. /\ who'[t] = <<u, g>> /\ <<u, g>> \in Units \X Goroutines /\ <<u, g>>[2] = g
      /\ who' \in [Txs -> (Units \X Goroutines) \cup {<<>>}]
  BY <1>1 DEF UowTypeOK
<1>4. \A h \in Goroutines : \A i \in 1 .. Len(stack[h]) : stack[h][i] \in Txs \ {t}
  <2>1. \A h \in Goroutines : \A i \in 1 .. Len(stack[h]) : stack[h][i] \in Txs
    BY DEF UowTypeOK
  <2> QED
    BY <1>2, <2>1 DEF StackInv
<1>5. CASE <<u, g>> \in active \/ c
  <2>1. do' = [do EXCEPT ![t] = "nested"] /\ UNCHANGED <<stack, active>>
    BY <1>5 DEF Enter
  <2>2. /\ do' \in [Txs -> {"idle"} \cup Inside \cup DoVerdicts]
        /\ do'[t] = "nested" /\ \A r \in Txs \ {t} : do'[r] = do[r]
    BY <2>1 DEF UowTypeOK, DoVerdicts
  <2>3. \A r \in Txs : At(r)' <=> At(r)
    BY <1>2, <2>2 DEF At, Inside
  <2>4. GuardInv'
    BY <1>2, <2>1, <2>3 DEF GuardInv
  <2>5. StackInv'
    <3>1. \A h \in Goroutines : \A i \in 1 .. Len(stack[h]) :
              /\ do'[stack[h][i]] \in Inside /\ who'[stack[h][i]] \in Units \X {h}
              /\ i < Len(stack[h]) => do'[stack[h][i]] = "fn"
      BY <1>2, <1>4, <2>2 DEF StackInv, At
    <3>2. \A r \in Txs : At(r)' =>
              /\ who'[r] \in Units \X Goroutines
              /\ \E i \in 1 .. Len(stack[who'[r][2]]) : stack[who'[r][2]][i] = r
      BY <1>2, <2>3 DEF StackInv
    <3> QED
      BY <2>1, <3>1, <3>2 DEF StackInv, At
  <2> QED
    BY <1>1, <1>3, <2>1, <2>2, <2>4, <2>5 DEF UowTypeOK
<1>6. CASE ~(<<u, g>> \in active \/ c)
  <2>1. /\ do' = [do EXCEPT ![t] = "begin"] /\ active' = active \cup {<<u, g>>}
        /\ stack' = [stack EXCEPT ![g] = Append(stack[g], t)]
    BY <1>6 DEF Enter
  <2>2. /\ do' \in [Txs -> {"idle"} \cup Inside \cup DoVerdicts]
        /\ do'[t] = "begin" /\ \A r \in Txs \ {t} : do'[r] = do[r]
    BY <2>1 DEF UowTypeOK, Inside
  <2>3. \A r \in Txs : At(r)' <=> (At(r) \/ r = t)
    BY <1>2, <2>2 DEF At, Inside
  <2>4. s \in Seq(Txs) /\ Len(s) \in Nat
    BY DEF UowTypeOK
  <2>5. /\ stack' \in [Goroutines -> Seq(Txs)] /\ stack'[g] = Append(s, t)
        /\ \A h \in Goroutines \ {g} : stack'[h] = stack[h]
    BY <2>1, <2>4 DEF UowTypeOK
  <2>6. /\ Len(stack'[g]) = Len(s) + 1 /\ stack'[g][Len(s) + 1] = t
        /\ \A i \in 1 .. Len(s) : stack'[g][i] = s[i]
    BY <2>4, <2>5
  <2>7. GuardInv'
    <3>1. \A r \in Txs : At(r) => who[r] # <<u, g>>
      BY <1>6 DEF GuardInv
    <3>2. \A r \in Txs : At(r)' => who'[r] \in active'
      BY <1>2, <1>3, <2>1, <2>3 DEF GuardInv
    <3>3. \A a \in active' : \E r \in Txs : At(r)' /\ who'[r] = a
      BY <1>2, <1>3, <2>1, <2>3 DEF GuardInv
    <3>4. \A q, r \in Txs : At(q)' /\ At(r)' /\ who'[q] = who'[r] => q = r
      BY <1>2, <1>3, <2>3, <3>1 DEF GuardInv
    <3> QED
      BY <3>2, <3>3, <3>4 DEF GuardInv
  <2>8. \A i \in 1 .. Len(s) : do[s[i]] = "fn"
    <3>1. Len(s) # 0 => do[s[Len(s)]] = "fn"
      BY <1>1, <2>4 DEF InUserCode, Last
    <3>2. \A i \in 1 .. Len(s) : i < Len(s) => do[s[i]] = "fn"
      BY DEF StackInv
    <3> QED
      BY <2>4, <3>1, <3>2
  <2>9. StackInv'
    <3>1. ASSUME NEW h \in Goroutines, h # g
          PROVE  /\ \A i \in 1 .. Len(stack'[h]) :
                        /\ do'[stack'[h][i]] \in Inside
                        /\ who'[stack'[h][i]] \in Units \X {h}
                        /\ i < Len(stack'[h]) => do'[stack'[h][i]] = "fn"
                 /\ \A i, j \in 1 .. Len(stack'[h]) : i # j => stack'[h][i] # stack'[h][j]
      <4>1. stack'[h] = stack[h]
        BY <2>5, <3>1
      <4>2. \A i \in 1 .. Len(stack[h]) :
                /\ do[stack[h][i]] \in Inside /\ who[stack[h][i]] \in Units \X {h}
                /\ i < Len(stack[h]) => do[stack[h][i]] = "fn"
        BY DEF StackInv, At
      <4>3. \A i, j \in 1 .. Len(stack[h]) : i # j => stack[h][i] # stack[h][j]
        BY DEF StackInv
      <4> QED
        BY <1>2, <1>4, <2>2, <4>1, <4>2, <4>3
    <3>2. \A i \in 1 .. Len(s) :
              /\ do'[s[i]] = "fn" /\ who'[s[i]] \in Units \X {g} /\ s[i] # t
      BY <1>2, <1>4, <2>2, <2>8 DEF StackInv
    <3>3. \A i \in 1 .. Len(stack'[g]) : i \in 1 .. Len(s) \/ i = Len(s) + 1
      BY <2>4, <2>6
    <3>4. /\ \A i \in 1 .. Len(stack'[g]) :
                 /\ do'[stack'[g][i]] \in Inside
                 /\ who'[stack'[g][i]] \in Units \X {g}
                 /\ i < Len(stack'[g]) => do'[stack'[g][i]] = "fn"
      BY <1>3, <2>2, <2>4, <2>6, <3>2, <3>3, SMTT(30) DEF Inside
    <3>5. \A i, j \in 1 .. Len(stack'[g]) : i # j => stack'[g][i] # stack'[g][j]
      BY <2>4, <2>6, <3>2, <3>3, SMTT(30) DEF StackInv
    <3>6. ASSUME NEW r \in Txs, At(r)'
          PROVE  /\ who'[r] \in Units \X Goroutines
                 /\ \E i \in 1 .. Len(stack'[who'[r][2]]) : stack'[who'[r][2]][i] = r
      <4>1. CASE r = t
        <5>1. Len(s) + 1 \in 1 .. Len(stack'[g])
          BY <2>4, <2>6
        <5> QED
          BY <1>3, <2>6, <4>1, <5>1
      <4>2. CASE r # t
        <5>1. At(r) /\ who'[r] = who[r]
          BY <1>2, <2>3, <3>6, <4>2
        <5>2. who[r] \in Units \X Goroutines /\ who[r][2] \in Goroutines
          BY <5>1 DEF StackInv
        <5>3. PICK i \in 1 .. Len(stack[who[r][2]]) : stack[who[r][2]][i] = r
          BY <5>1 DEF StackInv
        <5>4. CASE who[r][2] = g
          <6>1. i \in 1 .. Len(stack'[g]) /\ stack'[g][i] = r
            BY <2>4, <2>6, <5>3, <5>4
          <6> QED
            BY <5>1, <5>2, <5>4, <6>1
        <5>5. CASE who[r][2] # g
          BY <2>5, <5>1, <5>2, <5>3, <5>5
        <5> QED
          BY <5>4, <5>5
      <4> QED
        BY <4>1, <4>2
    <3> QED
      BY <3>1, <3>4, <3>5, <3>6, SMTT(30) DEF StackInv, At
  <2>10. active' \subseteq Units \X Goroutines
    BY <1>3, <2>1 DEF UowTypeOK
  <2> QED
    BY <1>1, <1>3, <2>2, <2>5, <2>7, <2>9, <2>10 DEF UowTypeOK
<1> QED
  BY <1>5, <1>6

(* runtime.Goexit takes all the calls of its goroutine away, and no other. *)
LEMMA GoexitKeeps ==
    ASSUME UowTypeOK, GuardInv, StackInv, NEW t \in Txs, FnGoexit(t)
    PROVE  /\ GuardInv' /\ StackInv' /\ UowTypeOK'
           /\ \A r \in Txs : do'[r] = do[r] \/ do'[r] = "goexit"
<1> DEFINE g == who[t][2]
           dying == ToSet(stack[g])
<1>1. /\ do[t] = "fn" /\ Innermost(t) /\ UNCHANGED <<who, why, durable>>
      /\ do' = [r \in Txs |-> IF r \in dying THEN "goexit" ELSE do[r]]
      /\ active' = active \ {who[r] : r \in dying}
      /\ stack' = [stack EXCEPT ![g] = <<>>]
  BY DEF FnGoexit
<1>2. At(t)
  BY <1>1 DEF At, Inside
<1>3. g \in Goroutines /\ stack[g] \in Seq(Txs)
  BY <1>1, <1>2, LastOfStack
<1>4. \A r : r \in dying <=> \E i \in 1 .. Len(stack[g]) : stack[g][i] = r
  BY <1>3 DEF ToSet
<1>5. \A r \in dying : r \in Txs /\ At(r) /\ who[r] \in Units \X {g} /\ who[r][2] = g
  <2>1. \A r \in dying : r \in Txs
    BY <1>3, <1>4
  <2>2. \A r \in dying : At(r) /\ who[r] \in Units \X {g}
    BY <1>3, <1>4 DEF StackInv
  <2> QED
    BY <2>1, <2>2
<1> HIDE DEF dying, g
<1>6. \A r \in Txs : At(r) /\ who[r][2] = g => r \in dying
  BY <1>3, <1>4 DEF StackInv
<1>7. \A r \in Txs : do'[r] = IF r \in dying THEN "goexit" ELSE do[r]
  BY <1>1
<1>8. \A r \in Txs : At(r)' <=> (At(r) /\ r \notin dying)
  BY <1>7 DEF At, Inside
<1>9. GuardInv'
  <2>1. \A r \in Txs : At(r)' => who[r] \in active'
    BY <1>1, <1>5, <1>8 DEF GuardInv
  <2>2. \A a \in active' : \E r \in Txs : At(r)' /\ who[r] = a
    BY <1>1, <1>8 DEF GuardInv
  <2>3. \A q, r \in Txs : At(q)' /\ At(r)' /\ who[q] = who[r] => q = r
    BY <1>8 DEF GuardInv
  <2> QED
    BY <1>1, <2>1, <2>2, <2>3 DEF GuardInv
<1>10. /\ stack' \in [Goroutines -> Seq(Txs)] /\ Len(stack'[g]) = 0
       /\ \A h \in Goroutines \ {g} : stack'[h] = stack[h]
  <2>1. <<>> \in Seq(Txs) /\ Len(<<>>) = 0
    OBVIOUS
  <2> QED
    BY <1>1, <1>3, <2>1 DEF UowTypeOK
<1>11. StackInv'
  <2>1. ASSUME NEW h \in Goroutines, NEW i \in 1 .. Len(stack'[h])
        PROVE  /\ h # g /\ stack'[h] = stack[h]
               /\ do'[stack'[h][i]] = do[stack[h][i]] /\ do[stack[h][i]] \in Inside
               /\ who'[stack'[h][i]] \in Units \X {h}
    <3>1. h # g /\ stack'[h] = stack[h]
      BY <1>10, <2>1
    <3>2. /\ stack[h][i] \in Txs /\ who[stack[h][i]] \in Units \X {h}
          /\ do[stack[h][i]] \in Inside
      BY <3>1 DEF StackInv, UowTypeOK, At
    <3>3. stack[h][i] \notin dying
      BY <1>5, <3>1, <3>2
    <3> QED
      BY <1>1, <1>7, <3>1, <3>2, <3>3
  <2>2. \A h \in Goroutines : \A i, j \in 1 .. Len(stack'[h]) :
            i # j => stack'[h][i] # stack'[h][j]
    BY <2>1 DEF StackInv
  <2>3. \A h \in Goroutines : \A i \in 1 .. Len(stack'[h]) :
            i < Len(stack'[h]) => do'[stack'[h][i]] = "fn"
    BY <2>1 DEF StackInv
  <2>4. ASSUME NEW r \in Txs, At(r)'
        PROVE  /\ who'[r] \in Units \X Goroutines
               /\ \E i \in 1 .. Len(stack'[who'[r][2]]) : stack'[who'[r][2]][i] = r
    <3>1. At(r) /\ who'[r] = who[r] /\ who[r][2] # g
      BY <1>1, <1>6, <1>8, <2>4
    <3>2. who[r] \in Units \X Goroutines /\ who[r][2] \in Goroutines
      BY <3>1 DEF StackInv
    <3> QED
      BY <1>10, <3>1, <3>2 DEF StackInv
  <2> QED
    BY <2>1, <2>2, <2>3, <2>4 DEF StackInv, At
<1>12. do' \in [Txs -> {"idle"} \cup Inside \cup DoVerdicts]
  BY <1>1, <1>7 DEF UowTypeOK, DoVerdicts
<1>13. active' \subseteq Units \X Goroutines
  BY <1>1 DEF UowTypeOK
<1> QED
  BY <1>1, <1>7, <1>9, <1>10, <1>11, <1>12, <1>13 DEF UowTypeOK
-----------------------------------------------------------------------------
(* A call of which a step changes nothing.                                 *)
LEMMA CallSame ==
    ASSUME NEW r \in Txs, CallInv(r), do'[r] = do[r], tx'[r] = tx[r], fired'[r] = fired[r],
           why'[r] = why[r], durable'[r] = durable[r]
    PROVE  CallInv(r)'
BY DEF CallInv

(* What a step of call t, within the manager, leaves of the others.        *)
LEMMA OthersSame ==
    ASSUME UowTypeOK, TypeInv, NEW t \in Txs, TxNext(t)
    PROVE  \A r \in Txs \ {t} : tx'[r] = tx[r] /\ fired'[r] = fired[r]
BY DEF TypeInv, TxNext, BeginTx, BeginTxOk, BeginTxErr, CommitCall, RollbackCall,
       CommitReturn, RollbackReturn, TxDone

LEMMA UowInitInv == UowInit => UowInv
<1> SUFFICES ASSUME UowInit
             PROVE  UowInv
  OBVIOUS
<1>1. Init /\ IInv
  BY InitIInv DEF UowInit
<1>2. UowTypeOK
  <2>1. <<>> \in Seq(Txs)
    OBVIOUS
  <2>2. stack \in [Goroutines -> Seq(Txs)]
    BY <2>1 DEF UowInit
  <2> QED
    BY <2>2 DEF UowInit, UowTypeOK, Errors
<1>3. \A t \in Txs : ~At(t) /\ CallInv(t)
  BY <1>1 DEF UowInit, Init, At, Inside, CallInv
<1>4. GuardInv
  BY <1>3 DEF UowInit, GuardInv
<1>5. \A g \in Goroutines : Len(stack[g]) = 0
  BY DEF UowInit
<1>6. StackInv
  BY <1>3, <1>5 DEF StackInv
<1> QED
  BY <1>1, <1>2, <1>3, <1>4, <1>6 DEF UowInv
-----------------------------------------------------------------------------
LEMMA UowStepInv ==
    ASSUME UowInv, [UowNext]_allVars
    PROVE  UowInv'
<1>1. /\ UowTypeOK /\ GuardInv /\ StackInv /\ TypeInv /\ FiredInv
      /\ \A t \in Txs : CallInv(t)
  BY DEF UowInv, IInv
<1>2. IInv'
  BY UowStepIsManagers, ManagerStep DEF UowInv
<1>3. ASSUME UNCHANGED <<uowVars, tx, fired>>
      PROVE  UowInv'
  <2>1. UowTypeOK' /\ GuardInv' /\ StackInv'
    BY <1>1, <1>3 DEF uowVars, UowTypeOK, GuardInv, StackInv, At
  <2>2. \A r \in Txs : CallInv(r)'
    BY <1>1, <1>3 DEF uowVars, CallInv
  <2> QED
    BY <1>2, <2>1, <2>2 DEF UowInv
<1>4. CASE UNCHANGED allVars
  BY <1>3, <1>4 DEF allVars, vars
<1>5. CASE ManagerNext /\ UNCHANGED uowVars
  BY <1>3, <1>5
  DEF ManagerNext, OnceNext, ScraperNext, Ping, PingReturn, ShutdownCall,
      ShutdownReturn, ShutdownLock, ShutdownDeadline, Drained, DrainTimeout,
      StopScraper, StartClose, CloseReturn, CloseTimeout, CloseDone,
      ScraperTick, ScraperTickDone, ScraperStop, txVars
<1>6. ASSUME NEW t \in Txs, NEW u \in Units, NEW g \in Goroutines, NEW c \in BOOLEAN,
             Enter(t, u, g, c)
      PROVE  UowInv'
  <2>1. GuardInv' /\ StackInv' /\ UowTypeOK'
    BY <1>1, <1>6, EnterKeeps
  <2>2. /\ do[t] = "idle" /\ do'[t] \in {"begin", "nested"}
        /\ \A r \in Txs \ {t} : do'[r] = do[r]
        /\ UNCHANGED <<why, durable, tx, fired>>
    BY <1>1, <1>6 DEF Enter, UowTypeOK, vars
  <2>3. CallInv(t)'
    BY <1>1, <2>2 DEF CallInv
  <2>4. \A r \in Txs \ {t} : CallInv(r)'
    BY <1>1, <2>2, CallSame
  <2> QED
    BY <1>2, <2>1, <2>3, <2>4 DEF UowInv
<1>7. ASSUME NEW t \in Txs, FnGoexit(t)
      PROVE  UowInv'
  <2>1. /\ GuardInv' /\ StackInv' /\ UowTypeOK'
        /\ \A r \in Txs : do'[r] = do[r] \/ do'[r] = "goexit"
    BY <1>1, <1>7, GoexitKeeps
  <2>2. UNCHANGED <<tx, fired, why, durable>>
    BY <1>7 DEF FnGoexit, vars
  <2>3. \A r \in Txs : CallInv(r)'
    <3>1. ASSUME NEW r \in Txs, do'[r] = "goexit"
          PROVE  CallInv(r)'
      BY <3>1 DEF CallInv
    <3> QED
      BY <1>1, <2>1, <2>2, <3>1, CallSame
  <2> QED
    BY <1>2, <2>1, <2>3 DEF UowInv
<1>8. ASSUME NEW t \in Txs, DoBegun(t)
      PROVE  UowInv'
  <2>1. At(t) /\ (do[t] # "fn" \/ Innermost(t)) /\ "fn" \in Inside
    BY <1>8 DEF DoBegun, At, Inside
  <2>2. /\ do' = [do EXCEPT ![t] = "fn"] /\ UNCHANGED <<who, stack, active>>
        /\ TxNext(t)
    BY <1>8 DEF DoBegun, TxNext
  <2>3. GuardInv' /\ StackInv'
    BY <1>1, <2>1, <2>2, ShiftKeeps
  <2>4. /\ do' \in [Txs -> {"idle"} \cup Inside \cup DoVerdicts] /\ do'[t] = "fn"
        /\ \A r \in Txs \ {t} : do'[r] = do[r]
    BY <1>1, <2>1, <2>2 DEF UowTypeOK
  <2>5. /\ why' \in [Txs -> Errors] /\ durable' \in [Txs -> {"none", "open", "committed", "aborted"}]
        /\ durable'[t] = "open"
        /\ \A r \in Txs \ {t} : why'[r] = why[r] /\ durable'[r] = durable[r]
    BY <1>1, <1>8 DEF DoBegun, UowTypeOK
  <2>6. UowTypeOK'
    BY <1>1, <2>2, <2>4, <2>5 DEF UowTypeOK
  <2>7. CallInv(t)'
    BY <1>1, <1>8, <2>4, <2>5 DEF CallInv, DoBegun, BeginTxOk, TypeInv, FiredInv
  <2>8. \A r \in Txs \ {t} : CallInv(r)'
    BY <1>1, <2>2, <2>4, <2>5, OthersSame, CallSame
  <2> QED
    BY <1>2, <2>3, <2>6, <2>7, <2>8 DEF UowInv
<1>9. ASSUME NEW t \in Txs, FnOk(t)
      PROVE  UowInv'
  <2>1. At(t) /\ (do[t] # "fn" \/ Innermost(t)) /\ "commit" \in Inside
    BY <1>9 DEF FnOk, At, Inside
  <2>2. /\ do' = [do EXCEPT ![t] = "commit"] /\ UNCHANGED <<who, stack, active>>
        /\ TxNext(t)
    BY <1>9 DEF FnOk, TxNext
  <2>3. GuardInv' /\ StackInv'
    BY <1>1, <2>1, <2>2, ShiftKeeps
  <2>4. /\ do' \in [Txs -> {"idle"} \cup Inside \cup DoVerdicts] /\ do'[t] = "commit"
        /\ \A r \in Txs \ {t} : do'[r] = do[r]
    BY <1>1, <2>1, <2>2 DEF UowTypeOK
  <2>5. /\ why' \in [Txs -> Errors] /\ durable' \in [Txs -> {"none", "open", "committed", "aborted"}]
        /\ UNCHANGED <<why, durable>>
        /\ \A r \in Txs \ {t} : why'[r] = why[r] /\ durable'[r] = durable[r]
    BY <1>1, <1>9 DEF FnOk, UowTypeOK
  <2>6. UowTypeOK'
    BY <1>1, <2>2, <2>4, <2>5 DEF UowTypeOK
  <2>7. CallInv(t)'
    BY <1>1, <1>9, <2>4, <2>5 DEF CallInv, FnOk, CommitCall, TypeInv, FiredInv
  <2>8. \A r \in Txs \ {t} : CallInv(r)'
    BY <1>1, <2>2, <2>4, <2>5, OthersSame, CallSame
  <2> QED
    BY <1>2, <2>3, <2>6, <2>7, <2>8 DEF UowInv
<1>10. ASSUME NEW t \in Txs, FnFailed(t)
      PROVE  UowInv'
  <2>1. At(t) /\ (do[t] # "fn" \/ Innermost(t)) /\ "rollback" \in Inside
    BY <1>10 DEF FnFailed, At, Inside
  <2>2. /\ do' = [do EXCEPT ![t] = "rollback"] /\ UNCHANGED <<who, stack, active>>
        /\ TxNext(t)
    BY <1>10 DEF FnFailed, TxNext
  <2>3. GuardInv' /\ StackInv'
    BY <1>1, <2>1, <2>2, ShiftKeeps
  <2>4. /\ do' \in [Txs -> {"idle"} \cup Inside \cup DoVerdicts] /\ do'[t] = "rollback"
        /\ \A r \in Txs \ {t} : do'[r] = do[r]
    BY <1>1, <2>1, <2>2 DEF UowTypeOK
  <2>5. /\ why' \in [Txs -> Errors] /\ durable' \in [Txs -> {"none", "open", "committed", "aborted"}]
        /\ why'[t] \in {"fnErr", "panic"} /\ UNCHANGED durable
        /\ \A r \in Txs \ {t} : why'[r] = why[r] /\ durable'[r] = durable[r]
    BY <1>1, <1>10 DEF FnFailed, UowTypeOK, Errors
  <2>6. UowTypeOK'
    BY <1>1, <2>2, <2>4, <2>5 DEF UowTypeOK
  <2>7. CallInv(t)'
    BY <1>1, <1>10, <2>4, <2>5 DEF CallInv, FnFailed, RollbackCall, TypeInv, FiredInv
  <2>8. \A r \in Txs \ {t} : CallInv(r)'
    BY <1>1, <2>2, <2>4, <2>5, OthersSame, CallSame
  <2> QED
    BY <1>2, <2>3, <2>6, <2>7, <2>8 DEF UowInv
<1>11. ASSUME NEW t \in Txs, DoCommitFailed(t)
      PROVE  UowInv'
  <2>1. At(t) /\ (do[t] # "fn" \/ Innermost(t)) /\ "abort" \in Inside
    BY <1>11 DEF DoCommitFailed, At, Inside
  <2>2. /\ do' = [do EXCEPT ![t] = "abort"] /\ UNCHANGED <<who, stack, active>>
        /\ TxNext(t)
    BY <1>11 DEF DoCommitFailed, TxNext
  <2>3. GuardInv' /\ StackInv'
    BY <1>1, <2>1, <2>2, ShiftKeeps
  <2>4. /\ do' \in [Txs -> {"idle"} \cup Inside \cup DoVerdicts] /\ do'[t] = "abort"
        /\ \A r \in Txs \ {t} : do'[r] = do[r]
    BY <1>1, <2>1, <2>2 DEF UowTypeOK
  <2>5. /\ why' \in [Txs -> Errors] /\ durable' \in [Txs -> {"none", "open", "committed", "aborted"}]
        /\ why'[t] = "commitErr" /\ durable'[t] \in {"committed", "open"}
        /\ \A r \in Txs \ {t} : why'[r] = why[r] /\ durable'[r] = durable[r]
    BY <1>1, <1>11 DEF DoCommitFailed, UowTypeOK, Errors
  <2>6. UowTypeOK'
    BY <1>1, <2>2, <2>4, <2>5 DEF UowTypeOK
  <2>7. CallInv(t)'
    BY <1>1, <1>11, <2>4, <2>5 DEF CallInv, DoCommitFailed, CommitReturn, TxDone, TypeInv, FiredInv
  <2>8. \A r \in Txs \ {t} : CallInv(r)'
    BY <1>1, <2>2, <2>4, <2>5, OthersSame, CallSame
  <2> QED
    BY <1>2, <2>3, <2>6, <2>7, <2>8 DEF UowInv
<1>12. ASSUME NEW t \in Txs, DoAbort(t)
      PROVE  UowInv'
  <2>1. At(t) /\ (do[t] # "fn" \/ Innermost(t)) /\ "rollback" \in Inside
    BY <1>12 DEF DoAbort, At, Inside
  <2>2. /\ do' = [do EXCEPT ![t] = "rollback"] /\ UNCHANGED <<who, stack, active>>
        /\ TxNext(t)
    BY <1>12 DEF DoAbort, TxNext
  <2>3. GuardInv' /\ StackInv'
    BY <1>1, <2>1, <2>2, ShiftKeeps
  <2>4. /\ do' \in [Txs -> {"idle"} \cup Inside \cup DoVerdicts] /\ do'[t] = "rollback"
        /\ \A r \in Txs \ {t} : do'[r] = do[r]
    BY <1>1, <2>1, <2>2 DEF UowTypeOK
  <2>5. /\ why' \in [Txs -> Errors] /\ durable' \in [Txs -> {"none", "open", "committed", "aborted"}]
        /\ UNCHANGED <<why, durable>>
        /\ \A r \in Txs \ {t} : why'[r] = why[r] /\ durable'[r] = durable[r]
    BY <1>1, <1>12 DEF DoAbort, UowTypeOK
  <2>6. UowTypeOK'
    BY <1>1, <2>2, <2>4, <2>5 DEF UowTypeOK
  <2>7. CallInv(t)'
    BY <1>1, <1>12, <2>4, <2>5 DEF CallInv, DoAbort, RollbackCall, TypeInv, FiredInv
  <2>8. \A r \in Txs \ {t} : CallInv(r)'
    BY <1>1, <2>2, <2>4, <2>5, OthersSame, CallSame
  <2> QED
    BY <1>2, <2>3, <2>6, <2>7, <2>8 DEF UowInv
<1>13. ASSUME NEW t \in Txs, DoBegin(t), closed
      PROVE  UowInv'
  <2>1. At(t) /\ do[t] # "fn" /\ "beginErr" \in DoVerdicts
    BY <1>1, <1>13 DEF DoBegin, At, Inside, DoVerdicts, Errors, UowTypeOK
  <2>2. Return(t, "beginErr") /\ TxNext(t)
    BY <1>13 DEF DoBegin, TxNext
  <2>3. /\ GuardInv' /\ StackInv' /\ do' = [do EXCEPT ![t] = "beginErr"] /\ UNCHANGED <<who, why>>
        /\ stack' \in [Goroutines -> Seq(Txs)] /\ active' \subseteq Units \X Goroutines
    BY <1>1, <2>1, <2>2, ReturnKeeps
  <2>4. /\ do' \in [Txs -> {"idle"} \cup Inside \cup DoVerdicts] /\ do'[t] = "beginErr"
        /\ \A r \in Txs \ {t} : do'[r] = do[r]
    BY <1>1, <2>1, <2>3 DEF UowTypeOK
  <2>5. /\ durable' \in [Txs -> {"none", "open", "committed", "aborted"}]
        /\ UNCHANGED durable
        /\ \A r \in Txs \ {t} : durable'[r] = durable[r]
    BY <1>1, <1>13 DEF DoBegin, UowTypeOK
  <2>6. UowTypeOK'
    BY <1>1, <2>3, <2>4, <2>5 DEF UowTypeOK
  <2>7. CallInv(t)'
    BY <1>1, <1>13, <2>3, <2>4, <2>5 DEF CallInv, DoBegin, BeginTx, TypeInv, FiredInv, UowTypeOK, Errors
  <2>8. \A r \in Txs \ {t} : CallInv(r)'
    BY <1>1, <2>2, <2>3, <2>4, <2>5, OthersSame, CallSame
  <2> QED
    BY <1>2, <2>3, <2>6, <2>7, <2>8 DEF UowInv
<1>14. ASSUME NEW t \in Txs, DoBegin(t), ~closed
       PROVE  UowInv'
  <2>1. BeginTx(t) /\ UNCHANGED uowVars /\ do[t] = "begin" /\ TxNext(t)
    BY <1>14 DEF DoBegin, doVars, uowVars, TxNext
  <2>2. UowTypeOK' /\ GuardInv' /\ StackInv'
    BY <1>1, <2>1 DEF uowVars, UowTypeOK, GuardInv, StackInv, At
  <2>3. CallInv(t)'
    BY <1>1, <1>14, <2>1 DEF CallInv, BeginTx, TypeInv, uowVars
  <2>4. \A r \in Txs \ {t} : CallInv(r)'
    BY <1>1, <2>1, OthersSame, CallSame DEF uowVars
  <2> QED
    BY <1>2, <2>2, <2>3, <2>4 DEF UowInv
<1>15. ASSUME NEW t \in Txs, DoBeginFailed(t)
      PROVE  UowInv'
  <2>1. At(t) /\ do[t] # "fn" /\ "beginErr" \in DoVerdicts
    BY <1>1, <1>15 DEF DoBeginFailed, At, Inside, DoVerdicts, Errors, UowTypeOK
  <2>2. Return(t, "beginErr") /\ TxNext(t)
    BY <1>15 DEF DoBeginFailed, TxNext
  <2>3. /\ GuardInv' /\ StackInv' /\ do' = [do EXCEPT ![t] = "beginErr"] /\ UNCHANGED <<who, why>>
        /\ stack' \in [Goroutines -> Seq(Txs)] /\ active' \subseteq Units \X Goroutines
    BY <1>1, <2>1, <2>2, ReturnKeeps
  <2>4. /\ do' \in [Txs -> {"idle"} \cup Inside \cup DoVerdicts] /\ do'[t] = "beginErr"
        /\ \A r \in Txs \ {t} : do'[r] = do[r]
    BY <1>1, <2>1, <2>3 DEF UowTypeOK
  <2>5. /\ durable' \in [Txs -> {"none", "open", "committed", "aborted"}]
        /\ UNCHANGED durable
        /\ \A r \in Txs \ {t} : durable'[r] = durable[r]
    BY <1>1, <1>15 DEF DoBeginFailed, UowTypeOK
  <2>6. UowTypeOK'
    BY <1>1, <2>3, <2>4, <2>5 DEF UowTypeOK
  <2>7. CallInv(t)'
    BY <1>1, <1>15, <2>3, <2>4, <2>5 DEF CallInv, DoBeginFailed, BeginTxErr, TypeInv, FiredInv, UowTypeOK, Errors
  <2>8. \A r \in Txs \ {t} : CallInv(r)'
    BY <1>1, <2>2, <2>3, <2>4, <2>5, OthersSame, CallSame
  <2> QED
    BY <1>2, <2>3, <2>6, <2>7, <2>8 DEF UowInv
<1>16. ASSUME NEW t \in Txs, DoCommitted(t)
      PROVE  UowInv'
  <2>1. At(t) /\ do[t] # "fn" /\ "ok" \in DoVerdicts
    BY <1>1, <1>16 DEF DoCommitted, At, Inside, DoVerdicts, Errors, UowTypeOK
  <2>2. Return(t, "ok") /\ TxNext(t)
    BY <1>16 DEF DoCommitted, TxNext
  <2>3. /\ GuardInv' /\ StackInv' /\ do' = [do EXCEPT ![t] = "ok"] /\ UNCHANGED <<who, why>>
        /\ stack' \in [Goroutines -> Seq(Txs)] /\ active' \subseteq Units \X Goroutines
    BY <1>1, <2>1, <2>2, ReturnKeeps
  <2>4. /\ do' \in [Txs -> {"idle"} \cup Inside \cup DoVerdicts] /\ do'[t] = "ok"
        /\ \A r \in Txs \ {t} : do'[r] = do[r]
    BY <1>1, <2>1, <2>3 DEF UowTypeOK
  <2>5. /\ durable' \in [Txs -> {"none", "open", "committed", "aborted"}]
        /\ durable'[t] = "committed"
        /\ \A r \in Txs \ {t} : durable'[r] = durable[r]
    BY <1>1, <1>16 DEF DoCommitted, UowTypeOK
  <2>6. UowTypeOK'
    BY <1>1, <2>3, <2>4, <2>5 DEF UowTypeOK
  <2>7. CallInv(t)'
    BY <1>1, <1>16, <2>3, <2>4, <2>5 DEF CallInv, DoCommitted, CommitReturn, TxDone, TypeInv, FiredInv, UowTypeOK, Errors
  <2>8. \A r \in Txs \ {t} : CallInv(r)'
    BY <1>1, <2>2, <2>3, <2>4, <2>5, OthersSame, CallSame
  <2> QED
    BY <1>2, <2>3, <2>6, <2>7, <2>8 DEF UowInv
<1>17. ASSUME NEW t \in Txs, DoRolledBack(t)
      PROVE  UowInv'
  <2>1. At(t) /\ do[t] # "fn" /\ why[t] \in DoVerdicts
    BY <1>1, <1>17 DEF DoRolledBack, At, Inside, DoVerdicts, Errors, UowTypeOK
  <2>2. Return(t, why[t]) /\ TxNext(t)
    BY <1>17 DEF DoRolledBack, TxNext
  <2>3. /\ GuardInv' /\ StackInv' /\ do' = [do EXCEPT ![t] = why[t]] /\ UNCHANGED <<who, why>>
        /\ stack' \in [Goroutines -> Seq(Txs)] /\ active' \subseteq Units \X Goroutines
    BY <1>1, <2>1, <2>2, ReturnKeeps
  <2>4. /\ do' \in [Txs -> {"idle"} \cup Inside \cup DoVerdicts] /\ do'[t] = why[t]
        /\ \A r \in Txs \ {t} : do'[r] = do[r]
    BY <1>1, <2>1, <2>3 DEF UowTypeOK
  <2>5. /\ durable' \in [Txs -> {"none", "open", "committed", "aborted"}]
        /\ durable'[t] = IF durable[t] = "open" THEN "aborted" ELSE durable[t]
        /\ \A r \in Txs \ {t} : durable'[r] = durable[r]
    BY <1>1, <1>17 DEF DoRolledBack, UowTypeOK
  <2>6. UowTypeOK'
    BY <1>1, <2>3, <2>4, <2>5 DEF UowTypeOK
  <2>7. CallInv(t)'
    BY <1>1, <1>17, <2>3, <2>4, <2>5 DEF CallInv, DoRolledBack, RollbackReturn, TxDone, TypeInv, FiredInv, UowTypeOK, Errors
  <2>8. \A r \in Txs \ {t} : CallInv(r)'
    BY <1>1, <2>2, <2>3, <2>4, <2>5, OthersSame, CallSame
  <2> QED
    BY <1>2, <2>3, <2>6, <2>7, <2>8 DEF UowInv
<1> QED
  BY <1>4, <1>5, <1>6, <1>7, <1>8, <1>9, <1>10, <1>11, <1>12, <1>13, <1>14, <1>15, <1>16, <1>17
  DEF UowNext, DoNext
-----------------------------------------------------------------------------
THEOREM UowInvariant == UowSpec => []UowInv
<1>1. UowInv /\ [UowNext]_allVars => UowInv'
  BY UowStepInv
<1> QED
  BY UowInitInv, <1>1, PTL DEF UowSpec

(* Every variable of Do keeps its type; a goroutine's stack holds calls.   *)
THEOREM UowTypeCorrect == UowSpec => []UowTypeOK
<1>1. UowInv => UowTypeOK
  BY DEF UowInv
<1> QED
  BY UowInvariant, <1>1, PTL

(* Do's verdict is what the database did, and a Do that returned, however  *)
(* its function left but by Goexit, has left nothing open (uow.go:100-149).*)
THEOREM OutcomeCorrect == UowSpec => []OutcomeIsTrue
<1>1. UowInv => OutcomeIsTrue
  <2> SUFFICES ASSUME UowInv, NEW t \in Txs
               PROVE  /\ do[t] = "ok" => durable[t] = "committed"
                      /\ do[t] \in {"fnErr", "panic"} => durable[t] = "aborted"
                      /\ do[t] \in {"nested", "beginErr"} => durable[t] = "none"
                      /\ do[t] \in DoVerdicts \ {"goexit"} => ~Live(t) /\ durable[t] # "open"
    BY DEF OutcomeIsTrue
  <2>1. CallInv(t)
    BY DEF UowInv
  <2> QED
    BY <2>1 DEF CallInv, Live, DoVerdicts, Errors
<1> QED
  BY UowInvariant, <1>1, PTL

(* A goroutine is in the guard of an instance exactly while it is inside   *)
(* one, and only one, Do of it, whatever was turned away, and whatever     *)
(* returned, panicked or ended its goroutine (uow.go:59-66, 180-203).      *)
THEOREM GuardCorrect == UowSpec => []GuardIsExact
<1>1. UowInv => GuardIsExact
  <2> SUFFICES ASSUME UowInv, NEW u \in Units, NEW g \in Goroutines,
                      NEW inside, inside = {t \in Txs : do[t] \in Inside /\ who[t] = <<u, g>>}
               PROVE  Cardinality(inside) <= 1 /\ (<<u, g>> \in active <=> inside # {})
    BY DEF GuardIsExact
  <2>1. GuardInv
    BY DEF UowInv
  <2>2. <<u, g>> \in active <=> inside # {}
    BY <2>1 DEF GuardInv, At
  <2>3. \A t, r \in inside : t = r
    BY <2>1 DEF GuardInv, At
  <2>4. CASE inside = {}
    <3>1. Cardinality(inside) = 0
      BY <2>4, FS_EmptySet
    <3> QED
      BY <2>2, <3>1
  <2>5. CASE inside # {}
    <3>1. PICK t : t \in inside
      BY <2>5
    <3>2. inside = {t}
      BY <2>3, <3>1
    <3>3. Cardinality(inside) = 1
      BY <3>2, FS_Singleton
    <3> QED
      BY <2>2, <3>3
  <2> QED
    BY <2>4, <2>5
<1> QED
  BY UowInvariant, <1>1, PTL

(* A Shutdown that closes the pool finds no function running and no        *)
(* outcome open, but for the rollback after a failed commit                *)
(* (manager.go:202-206, 237-257; uow.go:133-137).                          *)
THEOREM CloseCorrect == UowSpec => []CloseSparesDo
<1>1. UowInv => CloseSparesDo
  <2> SUFFICES ASSUME UowInv, closer # "none", NEW t \in Txs
               PROVE  /\ do[t] \notin {"fn", "commit"}
                      /\ do[t] = "begin" => tx[t] = "idle"
                      /\ do[t] = "rollback" => why[t] = "commitErr"
    BY DEF CloseSparesDo
  <2>1. CallInv(t) /\ ~Live(t)
    BY DEF UowInv, IInv, StageInv, DrainInv, LiveTxs
  <2> QED
    BY <2>1 DEF CallInv, Live
<1> QED
  BY UowInvariant, <1>1, PTL

(* What is proved of the manager holds under Do: in particular Shutdown    *)
(* drains the calls of Do before it closes the pool.                       *)
THEOREM UowDrainsThenCloses == UowSpec => DrainsThenCloses
BY UowImplementsManager, ManagerDrainsThenCloses
=============================================================================
