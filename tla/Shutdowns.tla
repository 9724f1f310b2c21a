------------------------------ MODULE Shutdowns ------------------------------
(***************************************************************************)
(* The two managers that a process stops on its way out: the database's    *)
(* (DBManager) and the worker's (WorkerManager).  They share nothing and   *)
(* promise the same (DrainThenClose), so that a behaviour is about one of  *)
(* them while the other rests in its initial state.                        *)
(***************************************************************************)
EXTENDS DBManager, WorkerManager

VARIABLE manager

shutdownsVars == <<manager, vars, workerVars>>

ShutdownsInit ==
    /\ manager \in {"database", "worker"}
    /\ Init /\ (manager = "worker" => scraper = "absent")
    /\ WorkerInit

ShutdownsNext ==
    \/ manager = "database" /\ Next /\ UNCHANGED <<manager, workerVars>>
    \/ manager = "worker" /\ WorkerNext /\ UNCHANGED <<manager, vars>>

(* Each manager under the fairness of its own specification, which asks    *)
(* nothing of one that rests.                                              *)
ShutdownsSpec ==
    ShutdownsInit /\ [][ShutdownsNext]_shutdownsVars /\ Fairness /\ WorkerFairness
=============================================================================
