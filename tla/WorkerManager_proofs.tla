------------------------ MODULE WorkerManager_proofs ------------------------
(***************************************************************************)
(* Theorems about Scheduler and WorkerManager for every set of jobs,       *)
(* consumers and callers of Stop, and every bound on overlapping ticks.    *)
(***************************************************************************)
EXTENDS WorkerManager, FiniteSetTheorems, TLAPS

(* Where the scheduler is tells which ticks there can be.                  *)
SchedInv ==
    /\ sched \in {"off", "starting"} => \A e \in Ticks : run[e] = "none"
    /\ sched \in {"allowWait", "gone"} => InCron = {}
    /\ sched = "gone" => InAllowWg = {}

(* The flag of a job is up while one of its ticks runs, and only one does. *)
FlagInv ==
    /\ \A e \in SkipTicks : run[e] = "running" => inFlight[e[1]]
    /\ \A j \in SkipJobs :
           inFlight[j] => \E e \in SkipTicks : e[1] = j /\ run[e] = "running"
    /\ \A e, f \in SkipTicks :
           run[e] = "running" /\ run[f] = "running" /\ e[1] = f[1] => e = f

(* One call of Stop does the work, and what it has seen stays so.          *)
StopInv ==
    /\ state = "idle" => sched = "off"
    /\ \A s \in Stoppers : AtWork(s) => state \in {"stopping", "stopped"}
    /\ \A r, s \in Stoppers : AtWork(r) /\ AtWork(s) => r = s
    /\ state \in {"stopping", "stopped"} =>
           \A c \in Consumers : conStop[c] # "none"
    /\ \A s \in Stoppers :
           stopper[s] \in {"joining", "ok", "failed"} => ConsumersStopped
    /\ \A s \in Stoppers :
           stopper[s] \in {"ok", "failed"} =>
               /\ sched = "gone"
               /\ \A c \in Consumers : con[c] = "gone"
               /\ stopper[s] = "ok" => ~Failed

IInv == WorkerTypes /\ SchedInv /\ FlagInv /\ StopInv
-----------------------------------------------------------------------------
LEMMA TickKinds ==
  /\ Ticks = SkipTicks \cup AllowTicks
  /\ SkipTicks \cap AllowTicks = {}
  /\ \A e \in SkipTicks : e[1] \in SkipJobs
  /\ \A e \in AllowTicks : e[1] \notin SkipJobs
BY SchedulerAssumption DEF Ticks, SkipTicks, AllowTicks, Jobs

LEMMA InitIInv == WorkerInit => IInv
<1> SUFFICES ASSUME WorkerInit
             PROVE  IInv
  OBVIOUS
<1> USE DEF WorkerInit, SchedInit
<1>1. WorkerTypes
  BY DEF WorkerTypes, SchedTypeOK
<1>2. SchedInv
  BY DEF SchedInv
<1>3. FlagInv
  BY TickKinds DEF FlagInv
<1>4. StopInv
  BY DEF StopInv, AtWork
<1> QED
  BY <1>1, <1>2, <1>3, <1>4 DEF IInv

LEMMA TypeStep ==
  ASSUME WorkerTypes, [WorkerNext]_workerVars
  PROVE  WorkerTypes'
<1> USE DEF WorkerTypes, SchedTypeOK
<1>1. CASE SchedNext /\ UNCHANGED managerVars
  <2>1. ASSUME NEW e \in Ticks, TickNext(e)
        PROVE  SchedTypeOK'
    BY <2>1 DEF TickNext, Fire, RunSkip, RunAllow, RunEnd
  <2>2. ASSUME CronStart \/ CronStop \/ CronStopped \/ AllowWaited
        PROVE  SchedTypeOK'
    BY <2>2 DEF CronStart, CronStop, CronStopped, AllowWaited
  <2>3. SchedTypeOK'
    <3> HIDE DEF WorkerTypes, SchedTypeOK
    <3> QED
      BY <1>1, <2>1, <2>2 DEF SchedNext
  <2> QED
    BY <1>1, <2>3 DEF managerVars
<1>2. CASE Start \/ ParentDone \/ StopDeadline
  <2>1. CASE Start
    BY <2>1 DEF Start
  <2>2. CASE ParentDone
    BY <2>2 DEF ParentDone, managerVars
  <2>3. CASE StopDeadline
    BY <2>3 DEF StopDeadline, schedVars
  <2> QED
    BY <1>2, <2>1, <2>2, <2>3
<1>3. ASSUME NEW c \in Consumers, ConsumerReturns(c) \/ ConsumerStopped(c)
      PROVE  WorkerTypes'
  BY <1>3 DEF ConsumerReturns, ConsumerStopped, schedVars
<1>4. ASSUME NEW s \in Stoppers, StopCall(s)
      PROVE  WorkerTypes'
  BY <1>4 DEF StopCall
<1>5. ASSUME NEW s \in Stoppers,
             StopTimesOut(s) \/ StopJoins(s) \/ StopReturns(s)
      PROVE  WorkerTypes'
  BY <1>5 DEF StopTimesOut, StopJoins, StopReturns, schedVars
<1>6. CASE UNCHANGED workerVars
  BY <1>6 DEF workerVars, managerVars, schedVars
<1> QED
  BY <1>1, <1>2, <1>3, <1>4, <1>5, <1>6 DEF WorkerNext

(* Outside the scheduler's own steps, its ticks stay and only Start moves  *)
(* it, out of a state in which it has none.                                *)
LEMMA SchedFrame ==
  ASSUME [WorkerNext]_workerVars, StopInv
  PROVE  \/ SchedNext /\ UNCHANGED managerVars
         \/ UNCHANGED <<sched, run, inFlight>>
         \/ sched = "off" /\ sched' = "starting" /\ UNCHANGED <<run, inFlight>>
<1>1. CASE Start
  BY <1>1 DEF Start, StopInv
<1>2. CASE ParentDone \/ StopDeadline
  BY <1>2 DEF ParentDone, StopDeadline, schedVars
<1>3. ASSUME NEW c \in Consumers, ConsumerReturns(c) \/ ConsumerStopped(c)
      PROVE  UNCHANGED <<sched, run, inFlight>>
  BY <1>3 DEF ConsumerReturns, ConsumerStopped, schedVars
<1>4. ASSUME NEW s \in Stoppers,
             StopCall(s) \/ StopTimesOut(s) \/ StopJoins(s) \/ StopReturns(s)
      PROVE  UNCHANGED <<sched, run, inFlight>>
  BY <1>4 DEF StopCall, StopTimesOut, StopJoins, StopReturns, schedVars
<1>5. CASE UNCHANGED workerVars
  BY <1>5 DEF workerVars, schedVars
<1> QED
  BY <1>1, <1>2, <1>3, <1>4, <1>5 DEF WorkerNext

LEMMA SchedStep ==
  ASSUME IInv, [WorkerNext]_workerVars
  PROVE  SchedInv'
<1> USE DEF IInv, WorkerTypes, SchedTypeOK, SchedInv, InCron, InAllowWg
<1>1. ASSUME NEW e \in Ticks, TickNext(e)
      PROVE  SchedInv'
  <2>1. CASE Fire(e)
    BY <2>1 DEF Fire
  <2>2. CASE RunSkip(e)
    BY <2>2, TickKinds DEF RunSkip
  <2>3. CASE RunAllow(e)
    BY <2>3, TickKinds DEF RunAllow
  <2>4. CASE RunEnd(e)
    BY <2>4, TickKinds DEF RunEnd
  <2> QED
    BY <1>1, <2>1, <2>2, <2>3, <2>4 DEF TickNext
<1>2. CASE CronStart
  BY <1>2 DEF CronStart
<1>3. CASE CronStop
  BY <1>3 DEF CronStop
<1>4. CASE CronStopped
  BY <1>4 DEF CronStopped
<1>5. CASE AllowWaited
  BY <1>5 DEF AllowWaited
<1>6. CASE UNCHANGED <<sched, run, inFlight>>
  BY <1>6
<1>7. CASE sched = "off" /\ sched' = "starting" /\ UNCHANGED <<run, inFlight>>
  BY <1>7
<1> QED
  BY <1>1, <1>2, <1>3, <1>4, <1>5, <1>6, <1>7, SchedFrame DEF SchedNext

LEMMA FlagStep ==
  ASSUME IInv, [WorkerNext]_workerVars
  PROVE  FlagInv'
<1> USE DEF IInv, WorkerTypes, SchedTypeOK, FlagInv
<1>1. ASSUME NEW e \in Ticks, TickNext(e)
      PROVE  FlagInv'
  <2>1. CASE Fire(e)
    BY <2>1, TickKinds DEF Fire
  <2>2. CASE RunSkip(e)
    BY <2>2, TickKinds DEF RunSkip
  <2>3. CASE RunAllow(e)
    BY <2>3, TickKinds DEF RunAllow
  <2>4. CASE RunEnd(e)
    <3>1. CASE e \in SkipTicks
      <4>1. \A f \in SkipTicks :
               run'[f] = "running" <=> run[f] = "running" /\ f # e
        BY <2>4, <3>1, TickKinds DEF RunEnd
      <4>2. \A j \in SkipJobs : inFlight'[j] <=> inFlight[j] /\ j # e[1]
        BY <2>4 DEF RunEnd
      <4>3. \A f \in SkipTicks : run[f] = "running" /\ f # e => f[1] # e[1]
        BY <2>4, <3>1 DEF RunEnd
      <4> HIDE DEF IInv, WorkerTypes, SchedTypeOK
      <4>4. IInv => FlagInv
        BY DEF IInv
      <4> QED
        BY <3>1, <4>1, <4>2, <4>3, <4>4, TickKinds
    <3>2. CASE e \in AllowTicks
      <4>0. e[1] \notin SkipJobs
        BY <3>2, TickKinds
      <4>1. \A j \in SkipJobs : inFlight'[j] <=> inFlight[j]
        BY <2>4, <4>0 DEF RunEnd
      <4>2. \A f \in SkipTicks : run'[f] = run[f]
        BY <2>4, <3>2, TickKinds DEF RunEnd
      <4> QED
        BY <4>1, <4>2, TickKinds
    <3> QED
      BY <3>1, <3>2, TickKinds
  <2> QED
    BY <1>1, <2>1, <2>2, <2>3, <2>4 DEF TickNext
<1>2. CASE CronStart \/ CronStop \/ CronStopped \/ AllowWaited
  BY <1>2 DEF CronStart, CronStop, CronStopped, AllowWaited
<1>3. CASE UNCHANGED <<run, inFlight>>
  BY <1>3
<1> QED
  BY <1>1, <1>2, <1>3, SchedFrame DEF SchedNext

LEMMA StopStep ==
  ASSUME IInv, [WorkerNext]_workerVars
  PROVE  StopInv'
<1> USE DEF IInv, WorkerTypes, SchedTypeOK, StopInv, AtWork, ConsumersStopped, Failed
<1>1. CASE SchedNext /\ UNCHANGED managerVars
  <2>1. /\ sched = "off" => sched' = "off"
        /\ sched = "gone" => sched' = "gone"
    BY <1>1
    DEF SchedNext, CronStart, CronStop, CronStopped, AllowWaited, TickNext,
        Fire, RunSkip, RunAllow, RunEnd
  <2> QED
    BY <1>1, <2>1 DEF managerVars
<1>2. CASE Start
  BY <1>2 DEF Start
<1>3. CASE ParentDone \/ StopDeadline
  BY <1>3 DEF ParentDone, StopDeadline, managerVars, schedVars
<1>4. ASSUME NEW c \in Consumers, ConsumerReturns(c)
      PROVE  StopInv'
  BY <1>4 DEF ConsumerReturns, schedVars
<1>5. ASSUME NEW c \in Consumers, ConsumerStopped(c)
      PROVE  StopInv'
  BY <1>5 DEF ConsumerStopped, schedVars
<1>6. ASSUME NEW s \in Stoppers, StopCall(s)
      PROVE  StopInv'
  BY <1>6 DEF StopCall
<1>7. ASSUME NEW s \in Stoppers, StopTimesOut(s)
      PROVE  StopInv'
  BY <1>7 DEF StopTimesOut, schedVars
<1>8. ASSUME NEW s \in Stoppers, StopJoins(s)
      PROVE  StopInv'
  BY <1>8 DEF StopJoins, schedVars
<1>9. ASSUME NEW s \in Stoppers, StopReturns(s)
      PROVE  StopInv'
  BY <1>9 DEF StopReturns, schedVars
<1>10. CASE UNCHANGED workerVars
  BY <1>10 DEF workerVars, managerVars, schedVars
<1> QED
  BY <1>1, <1>2, <1>3, <1>4, <1>5, <1>6, <1>7, <1>8, <1>9, <1>10 DEF WorkerNext

(* The inductive invariant.                                                *)
THEOREM IInvInvariant == WorkerSpec => []IInv
<1>1. IInv /\ [WorkerNext]_workerVars => IInv'
  BY TypeStep, SchedStep, FlagStep, StopStep DEF IInv
<1> QED
  BY InitIInv, <1>1, PTL DEF WorkerSpec
-----------------------------------------------------------------------------
(* Every variable keeps its type.                                          *)
THEOREM WorkerTypeCorrect == WorkerSpec => []WorkerTypeOK
<1>1. IInv => WorkerTypeOK
  BY DEF IInv, StopInv, WorkerTypeOK
<1> QED
  BY <1>1, IInvInvariant, PTL

(* A job with OverlapSkip never overlaps itself (scheduler.go:98-103).    *)
THEOREM OverlapCorrect == WorkerSpec => []NoSelfOverlap
<1>1. ASSUME IInv
      PROVE  NoSelfOverlap
  <2> SUFFICES ASSUME NEW j \in SkipJobs
               PROVE  LET runs == {e \in SkipTicks : e[1] = j /\ run[e] = "running"}
                      IN  Cardinality(runs) <= 1 /\ (inFlight[j] <=> runs # {})
    BY DEF NoSelfOverlap
  <2> DEFINE runs == {e \in SkipTicks : e[1] = j /\ run[e] = "running"}
  <2>1. inFlight[j] <=> runs # {}
    BY <1>1 DEF IInv, FlagInv
  <2>2. CASE runs = {}
    <3>1. Cardinality(runs) = 0
      BY <2>2, FS_EmptySet
    <3> QED
      BY <2>1, <3>1
  <2>3. CASE runs # {}
    <3>1. PICK e \in runs : TRUE
      BY <2>3
    <3>2. runs = {e}
      BY <1>1, <3>1 DEF IInv, FlagInv
    <3>3. Cardinality(runs) = 1
      BY <3>2, FS_Singleton
    <3> QED
      BY <2>1, <3>3
  <2> QED
    BY <2>2, <2>3
<1> QED
  BY <1>1, IInvInvariant, PTL

(* The Stop that did the work leaves nothing running (manager.go:98-151).  *)
THEOREM StopCorrect == WorkerSpec => []StopLeavesNothing
<1>1. ASSUME IInv
      PROVE  StopLeavesNothing
  <2>1. ASSUME sched = "gone"
        PROVE  \A e \in Ticks : run[e] = "none"
    BY <1>1, <2>1, TickKinds
    DEF IInv, SchedInv, InCron, InAllowWg, WorkerTypes, SchedTypeOK
  <2>2. ASSUME NEW s \in Stoppers, stopper[s] \in {"ok", "failed"}
        PROVE  \A c \in Consumers : conStop[c] \in {"ok", "failed"}
    BY <1>1, <2>2 DEF IInv, StopInv, AtWork, ConsumersStopped, WorkerTypes
  <2> QED
    BY <1>1, <2>1, <2>2 DEF IInv, StopInv, StopLeavesNothing
<1> QED
  BY <1>1, IInvInvariant, PTL
-----------------------------------------------------------------------------
LEMMA DrainsInit == WorkerInit => Drain!DTCInit
BY DEF WorkerInit, SchedInit, Drain!DTCInit, CronPhase

(* A step that moves neither the ticks in or out nor the phase.            *)
LEMMA DrainStutters ==
  ASSUME \A e \in Ticks : run'[e] = "none" <=> run[e] = "none", CronPhase' = CronPhase
  PROVE  UNCHANGED Drain!dtcVars
BY DEF Drain!dtcVars

LEMMA DrainsStep ==
  ASSUME IInv, [WorkerNext]_workerVars
  PROVE  [Drain!DTCNext]_(Drain!dtcVars)
<1> USE DEF IInv, WorkerTypes, SchedTypeOK
<1>1. ASSUME NEW e \in Ticks, TickNext(e)
      PROVE  [Drain!DTCNext]_(Drain!dtcVars)
  <2>0. CronPhase' = CronPhase
    BY <1>1 DEF TickNext, Fire, RunSkip, RunAllow, RunEnd, CronPhase
  <2>1. CASE Fire(e)
    <3>1. Drain!Enter(e)
      BY <2>1, <2>0 DEF Fire, CronPhase, Drain!Enter
    <3> QED
      BY <3>1 DEF Drain!DTCNext
  <2>2. CASE run'[e] = "none"
    <3>1. Drain!Leave(e)
      BY <1>1, <2>0, <2>2 DEF TickNext, Fire, RunSkip, RunAllow, RunEnd, Drain!Leave
    <3> QED
      BY <3>1 DEF Drain!DTCNext
  <2>3. CASE ~Fire(e) /\ run'[e] # "none"
    <3>1. \A f \in Ticks : run'[f] = "none" <=> run[f] = "none"
      BY <1>1, <2>3 DEF TickNext, RunSkip, RunAllow, RunEnd
    <3> QED
      BY <2>0, <3>1, DrainStutters
  <2> QED
    BY <2>1, <2>2, <2>3
<1>2. CASE CronStart
  BY <1>2, DrainStutters DEF CronStart, CronPhase
<1>3. CASE CronStop
  <2>1. Drain!Drain
    BY <1>3 DEF CronStop, CronPhase, Drain!Drain
  <2> QED
    BY <2>1 DEF Drain!DTCNext
<1>4. CASE CronStopped
  BY <1>4, DrainStutters DEF CronStopped, CronPhase
<1>5. CASE AllowWaited
  <2>1. \A e \in Ticks : run[e] = "none"
    BY <1>5, TickKinds DEF AllowWaited, SchedInv, InCron, InAllowWg
  <2>2. Drain!Close
    BY <1>5, <2>1 DEF AllowWaited, CronPhase, Drain!Close
  <2> QED
    BY <2>2 DEF Drain!DTCNext
<1>6. CASE UNCHANGED <<sched, run, inFlight>>
  BY <1>6, DrainStutters DEF CronPhase
<1>7. CASE sched = "off" /\ sched' = "starting" /\ UNCHANGED <<run, inFlight>>
  BY <1>7, DrainStutters DEF CronPhase
<1> QED
  BY <1>1, <1>2, <1>3, <1>4, <1>5, <1>6, <1>7, SchedFrame DEF SchedNext

(* Scheduler.Start implements the drain (scheduler.go:115-119).            *)
THEOREM SchedulerCorrect == WorkerSpec => SchedulerDrains
<1>1. IInv /\ [WorkerNext]_workerVars => [Drain!DTCNext]_(Drain!dtcVars)
  BY DrainsStep
<1> QED
  BY DrainsInit, <1>1, IInvInvariant, PTL
  DEF WorkerSpec, SchedulerDrains, Drain!DTCSpec
=============================================================================
