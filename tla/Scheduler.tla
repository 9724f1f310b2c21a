----------------------------- MODULE Scheduler -----------------------------
(***************************************************************************)
(* pkg/worker/job: Scheduler.Start runs until its context is done.  The    *)
(* cron library starts a goroutine for every tick of a job.  A job whose   *)
(* policy is OverlapSkip runs in that goroutine, unless its last run is    *)
(* still in flight; one whose policy is OverlapAllow runs in a goroutine   *)
(* of its own, counted by allowWg.                                         *)
(*                                                                         *)
(* Cron.Stop lets no new tick start; the context it returns is done when   *)
(* the goroutines of the started ticks have returned.                      *)
(***************************************************************************)
EXTENDS Naturals, FiniteSets

CONSTANTS
    SkipJobs,   \* registered jobs with OverlapSkip
    AllowJobs,  \* registered jobs with OverlapAllow
    MaxRuns     \* bound: ticks of one job that have not ended

ASSUME SchedulerAssumption ==
    MaxRuns \in Nat \ {0} /\ SkipJobs \cap AllowJobs = {}

VARIABLES
    runDone,    \* is the context given to Scheduler.Start done?
    sched,      \* where Scheduler.Start is
    run,        \* for each tick: in cron's goroutine, or in the job
    inFlight    \* for each job with OverlapSkip: its flag

schedVars == <<runDone, sched, run, inFlight>>

Jobs == SkipJobs \cup AllowJobs
Ticks == Jobs \X (1 .. MaxRuns)
SkipTicks == SkipJobs \X (1 .. MaxRuns)
AllowTicks == AllowJobs \X (1 .. MaxRuns)

SchedTypeOK ==
    /\ runDone \in BOOLEAN
    /\ sched \in {"off", "starting", "running", "cronStop", "allowWait", "gone"}
    /\ run \in [Ticks -> {"none", "fired", "running"}]
    /\ inFlight \in [SkipJobs -> BOOLEAN]

SchedInit ==
    /\ runDone = FALSE
    /\ sched = "off"
    /\ run = [e \in Ticks |-> "none"]
    /\ inFlight = [j \in SkipJobs |-> FALSE]
-----------------------------------------------------------------------------
(* The ticks whose goroutine cron waits for, and those allowWg counts.     *)
InCron == {e \in Ticks : run[e] = "fired"} \cup {e \in SkipTicks : run[e] = "running"}

InAllowWg == {e \in AllowTicks : run[e] = "running"}

(* The jobs are added to the cron, and the cron is started.                *)
CronStart ==
    /\ sched = "starting"
    /\ sched' = "running"
    /\ UNCHANGED <<runDone, run, inFlight>>

Fire(e) ==
    /\ sched = "running"
    /\ run[e] = "none"
    /\ run' = [run EXCEPT ![e] = "fired"]
    /\ UNCHANGED <<runDone, sched, inFlight>>

(* Mistake: the flag is not looked at.                                     *)
RunSkipAlways(e) ==
    /\ e \in SkipTicks
    /\ run[e] = "fired"
    /\ run' = [run EXCEPT ![e] = "running"]
    /\ inFlight' = [inFlight EXCEPT ![e[1]] = TRUE]
    /\ UNCHANGED <<runDone, sched>>

(* inFlight.CompareAndSwap(false, true).                                   *)
RunSkip(e) ==
    /\ e \in SkipTicks
    /\ run[e] = "fired"
    /\ IF inFlight[e[1]]
       THEN /\ run' = [run EXCEPT ![e] = "none"]
            /\ UNCHANGED inFlight
       ELSE /\ run' = [run EXCEPT ![e] = "running"]
            /\ inFlight' = [inFlight EXCEPT ![e[1]] = TRUE]
    /\ UNCHANGED <<runDone, sched>>

(* allowWg.Go: counted before cron's goroutine returns.                    *)
RunAllow(e) ==
    /\ e \in AllowTicks
    /\ run[e] = "fired"
    /\ run' = [run EXCEPT ![e] = "running"]
    /\ UNCHANGED <<runDone, sched, inFlight>>

(* The job's Run returns.                                                  *)
RunEnd(e) ==
    /\ run[e] = "running"
    /\ run' = [run EXCEPT ![e] = "none"]
    /\ inFlight' = [j \in SkipJobs |-> IF j = e[1] THEN FALSE ELSE inFlight[j]]
    /\ UNCHANGED <<runDone, sched>>

CronStop ==
    /\ sched = "running"
    /\ runDone
    /\ sched' = "cronStop"
    /\ UNCHANGED <<runDone, run, inFlight>>

(* Mistake: the context that Cron.Stop returns is not awaited.             *)
CronStoppedAtOnce ==
    /\ sched = "cronStop"
    /\ sched' = "allowWait"
    /\ UNCHANGED <<runDone, run, inFlight>>

CronStopped ==
    /\ sched = "cronStop"
    /\ InCron = {}
    /\ sched' = "allowWait"
    /\ UNCHANGED <<runDone, run, inFlight>>

AllowWaited ==
    /\ sched = "allowWait"
    /\ InAllowWg = {}
    /\ sched' = "gone"
    /\ UNCHANGED <<runDone, run, inFlight>>
-----------------------------------------------------------------------------
TickNext(e) == Fire(e) \/ RunSkip(e) \/ RunAllow(e) \/ RunEnd(e)

SchedNext ==
    \/ CronStart
    \/ \E e \in Ticks : TickNext(e)
    \/ CronStop
    \/ CronStopped
    \/ AllowWaited

(* A job with OverlapSkip never runs beside itself, and its flag is up     *)
(* exactly while it runs, so that no run is skipped for ever after         *)
(* (scheduler.go:98-103, scheduler_test.go:71).                           *)
NoSelfOverlap ==
    \A j \in SkipJobs :
        LET runs == {e \in SkipTicks : e[1] = j /\ run[e] = "running"}
        IN  Cardinality(runs) <= 1 /\ (inFlight[j] <=> runs # {})

CronPhase ==
    CASE sched \in {"off", "starting", "running"} -> "open"
      [] sched \in {"cronStop", "allowWait"} -> "draining"
      [] OTHER -> "closed"

Drain == INSTANCE DrainThenClose
    WITH Users <- Ticks, inside <- {e \in Ticks : run[e] # "none"}, phase <- CronPhase

(* Scheduler.Start drains: after the cron was stopped no tick starts, and  *)
(* Start returns when no run of either policy is left                      *)
(* (scheduler.go:115-119, scheduler_test.go:100).                          *)
SchedulerDrains == Drain!DTCSpec
=============================================================================
