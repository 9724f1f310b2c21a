--------------------------- MODULE WorkerManager ---------------------------
(***************************************************************************)
(* pkg/worker: Manager.Start runs the scheduler of Scheduler and the       *)
(* consumers, each in a goroutine counted by wg; Manager.Stop cancels      *)
(* their context, calls Stop on every consumer, and waits for all of them. *)
(*                                                                         *)
(* Start holds startMu throughout, so it is one step: it succeeds, or      *)
(* leaves the manager idle (duplicate names, a bad schedule), or finds it  *)
(* started already.  Only the first of these changes anything.             *)
(***************************************************************************)
EXTENDS Scheduler

CONSTANTS
    Consumers,
    Stoppers    \* goroutines that call Stop

VARIABLES
    state,      \* Manager.state
    con,        \* for each consumer: its goroutine in Consumer.Start
    conStop,    \* for each consumer: the call of its Stop
    stopper,    \* where each Stop call is; its result once it returned
    stopExpired,\* is stopCtx done?
    timedOut    \* Stop's timedOut

managerVars == <<state, con, conStop, stopper, stopExpired, timedOut>>
workerVars == <<schedVars, managerVars>>

AtWork(s) == stopper[s] \in {"stopping", "joining", "ok", "failed"}

WorkerTypes ==
    /\ SchedTypeOK
    /\ state \in {"idle", "running", "stopping", "stopped"}
    /\ con \in [Consumers -> {"off", "running", "gone"}]
    /\ conStop \in [Consumers -> {"none", "stopping", "ok", "failed"}]
    /\ stopper \in [Stoppers -> {"idle", "noop", "stopping", "joining", "ok", "failed"}]
    /\ stopExpired \in BOOLEAN
    /\ timedOut \in BOOLEAN

(* The types; and at most one call of Stop does the work.                  *)
WorkerTypeOK ==
    /\ WorkerTypes
    /\ \A r, s \in Stoppers : AtWork(r) /\ AtWork(s) => r = s

WorkerInit ==
    /\ SchedInit
    /\ state = "idle"
    /\ con = [c \in Consumers |-> "off"]
    /\ conStop = [c \in Consumers |-> "none"]
    /\ stopper = [s \in Stoppers |-> "idle"]
    /\ stopExpired = FALSE
    /\ timedOut = FALSE
-----------------------------------------------------------------------------
Start ==
    /\ state = "idle"
    /\ state' = "running"
    /\ sched' = "starting"
    /\ con' = [c \in Consumers |-> "running"]
    /\ UNCHANGED <<runDone, run, inFlight, conStop, stopper, stopExpired, timedOut>>

(* The context that the caller gave to Start is done.                      *)
ParentDone ==
    /\ state = "running"
    /\ ~runDone
    /\ runDone' = TRUE
    /\ UNCHANGED <<sched, run, inFlight, managerVars>>

(* Consumer.Start returns, by itself or because its context is done.       *)
ConsumerReturns(c) ==
    /\ con[c] = "running"
    /\ con' = [con EXCEPT ![c] = "gone"]
    /\ UNCHANGED <<state, conStop, stopper, stopExpired, timedOut, schedVars>>

(* Mistake: the state is not swapped, so every caller stops the consumers. *)
StopCallTwice(s) ==
    /\ stopper[s] = "idle"
    /\ state \in {"running", "stopping"}
    /\ state' = "stopping"
    /\ runDone' = TRUE
    /\ conStop' = [c \in Consumers |-> "stopping"]
    /\ stopper' = [stopper EXCEPT ![s] = "stopping"]
    /\ UNCHANGED <<sched, run, inFlight, con, stopExpired, timedOut>>

(* Mistake: m.cancel is not called.                                        *)
StopCallUncancelled(s) ==
    /\ stopper[s] = "idle"
    /\ IF state = "running"
       THEN /\ state' = "stopping"
            /\ conStop' = [c \in Consumers |-> "stopping"]
            /\ stopper' = [stopper EXCEPT ![s] = "stopping"]
       ELSE /\ stopper' = [stopper EXCEPT ![s] = "noop"]
            /\ UNCHANGED <<state, conStop>>
    /\ UNCHANGED <<runDone, sched, run, inFlight, con, stopExpired, timedOut>>

(* Stop's CompareAndSwap: a manager that is not running, or that another   *)
(* call is stopping, makes it return at once; otherwise the run context is *)
(* cancelled and Stop is called on each consumer.                          *)
StopCall(s) ==
    /\ stopper[s] = "idle"
    /\ IF state = "running"
       THEN /\ state' = "stopping"
            /\ runDone' = TRUE
            /\ conStop' = [c \in Consumers |-> "stopping"]
            /\ stopper' = [stopper EXCEPT ![s] = "stopping"]
       ELSE /\ stopper' = [stopper EXCEPT ![s] = "noop"]
            /\ UNCHANGED <<state, runDone, conStop>>
    /\ UNCHANGED <<sched, run, inFlight, con, stopExpired, timedOut>>

ConsumerStopped(c) ==
    /\ conStop[c] = "stopping"
    /\ conStop' \in {[conStop EXCEPT ![c] = r] : r \in {"ok", "failed"}}
    /\ UNCHANGED <<state, con, stopper, stopExpired, timedOut, schedVars>>

(* ShutdownTimeout, or the caller's context.                               *)
StopDeadline ==
    /\ state = "stopping"
    /\ ~stopExpired
    /\ stopExpired' = TRUE
    /\ UNCHANGED <<state, con, conStop, stopper, timedOut, schedVars>>

ConsumersStopped == \A c \in Consumers : conStop[c] # "stopping"

(* The select between stopped and stopCtx: the deadline is noted, and the  *)
(* wait for the consumers goes on all the same.                            *)
StopTimesOut(s) ==
    /\ stopper[s] = "stopping"
    /\ stopExpired /\ ~timedOut
    /\ timedOut' = TRUE
    /\ UNCHANGED <<state, con, conStop, stopper, stopExpired, schedVars>>

StopJoins(s) ==
    /\ stopper[s] = "stopping"
    /\ ConsumersStopped
    /\ stopper' = [stopper EXCEPT ![s] = "joining"]
    /\ UNCHANGED <<state, con, conStop, stopExpired, timedOut, schedVars>>

Failed == timedOut \/ \E c \in Consumers : conStop[c] = "failed"

(* Mistake: after the deadline Stop does not wait for wg.                  *)
StopReturnsLate(s) ==
    /\ stopper[s] = "joining"
    /\ timedOut \/ (sched = "gone" /\ \A c \in Consumers : con[c] = "gone")
    /\ stopper' = [stopper EXCEPT ![s] = IF Failed THEN "failed" ELSE "ok"]
    /\ state' = "stopped"
    /\ UNCHANGED <<con, conStop, stopExpired, timedOut, schedVars>>

(* m.wg.Wait has returned; the errors are joined.                          *)
StopReturns(s) ==
    /\ stopper[s] = "joining"
    /\ sched = "gone" /\ \A c \in Consumers : con[c] = "gone"
    /\ stopper' = [stopper EXCEPT ![s] = IF Failed THEN "failed" ELSE "ok"]
    /\ state' = "stopped"
    /\ UNCHANGED <<con, conStop, stopExpired, timedOut, schedVars>>
-----------------------------------------------------------------------------
WorkerNext ==
    \/ SchedNext /\ UNCHANGED managerVars
    \/ Start
    \/ ParentDone
    \/ \E c \in Consumers : ConsumerReturns(c) \/ ConsumerStopped(c)
    \/ StopDeadline
    \/ \E s \in Stoppers :
        \/ StopCall(s) \/ StopTimesOut(s) \/ StopJoins(s) \/ StopReturns(s)

WorkerSpec == WorkerInit /\ [][WorkerNext]_workerVars

(* Goroutines that can run do.  Of the user's code it is assumed that a    *)
(* run of a job ends, that a consumer's Start returns when its context is  *)
(* done, and that its Stop returns: nothing in the manager bounds them.    *)
WorkerFairness ==
    /\ WF_schedVars(CronStart) /\ WF_schedVars(CronStop)
    /\ WF_schedVars(CronStopped) /\ WF_schedVars(AllowWaited)
    /\ \A e \in Ticks : WF_schedVars(RunSkip(e) \/ RunAllow(e) \/ RunEnd(e))
    /\ \A c \in Consumers :
        /\ WF_workerVars(runDone /\ ConsumerReturns(c))
        /\ WF_workerVars(ConsumerStopped(c))
    /\ \A s \in Stoppers : WF_workerVars(StopJoins(s)) /\ WF_workerVars(StopReturns(s))

FairWorkerSpec == WorkerSpec /\ WorkerFairness
-----------------------------------------------------------------------------
(* The Stop call that did the work returns only when nothing the manager   *)
(* started is left, the calls of the consumers' Stop included, and returns *)
(* no error only if each of them succeeded in time (manager.go:98-151;     *)
(* TestStop_NoGoroutineLeak, manager_test.go:179).                         *)
StopLeavesNothing ==
    \A s \in Stoppers :
        stopper[s] \in {"ok", "failed"} =>
            /\ sched = "gone"
            /\ \A e \in Ticks : run[e] = "none"
            /\ \A c \in Consumers : con[c] = "gone" /\ conStop[c] \in {"ok", "failed"}
            /\ stopper[s] = "ok" => ~Failed

(* Stop returns, whatever ticks, runs and early ends of consumers it       *)
(* meets, or a context that was done already (manager.go:98-151).          *)
StopTerminates ==
    \A s \in Stoppers : stopper[s] = "stopping" ~> stopper[s] \in {"ok", "failed"}
=============================================================================
