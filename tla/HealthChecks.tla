---------------------------- MODULE HealthChecks ----------------------------
(***************************************************************************)
(* The health endpoints of both HTTP servers: one goroutine per check, a   *)
(* semaphore that lets MaxConcurrent of them run, one deadline for all     *)
(* (pkg/http_server/common/health.go, chi_server/health.go,                *)
(* server_fiber/health.go).                                                *)
(***************************************************************************)
EXTENDS Naturals, FiniteSets

CONSTANTS Checks,         \* the registered checks
          MaxConcurrent   \* 10 in the code

ASSUME HealthAssumption == MaxConcurrent \in Nat

VARIABLES
    probe,      \* the endpoint asked, whether the deadline is past, the answer
    semaphore,  \* how many checks hold a slot
    checkAt,    \* where the goroutine of each check is
    result      \* for each check: "none", "healthy", "timeout" or "failed"

healthVars == <<probe, semaphore, checkAt, result>>

HealthTypeOK ==
    /\ probe \in [endpoint : {"health", "ready", "live"},
                  late : BOOLEAN, code : {0, 200, 503}]
    /\ semaphore \in 0 .. MaxConcurrent
    /\ checkAt \in [Checks -> {"none", "select", "run", "over"}]
    /\ result \in [Checks -> {"none", "healthy", "timeout", "failed"}]

(* A probe arrives; live executes no check.                                *)
HealthStart(e) ==
    /\ probe = [endpoint |-> e, late |-> FALSE, code |-> 0]
    /\ semaphore = 0
    /\ checkAt = [c \in Checks |-> IF e = "live" THEN "none" ELSE "select"]
    /\ result = [c \in Checks |-> "none"]

HealthInit == \E e \in {"health", "ready", "live"} : HealthStart(e)
-----------------------------------------------------------------------------
DeadlinePasses ==
    /\ ~probe.late /\ probe.code = 0
    /\ probe' = [probe EXCEPT !.late = TRUE]
    /\ UNCHANGED <<semaphore, checkAt, result>>

AcquireSlot(c) ==
    /\ checkAt[c] = "select" /\ semaphore < MaxConcurrent
    /\ semaphore' = semaphore + 1
    /\ checkAt' = [checkAt EXCEPT ![c] = "run"]
    /\ UNCHANGED <<probe, result>>

(* The select takes either branch when both are ready.                     *)
SlotTimeout(c) ==
    /\ checkAt[c] = "select" /\ probe.late
    /\ checkAt' = [checkAt EXCEPT ![c] = "over"]
    /\ result' = [result EXCEPT ![c] = "timeout"]
    /\ UNCHANGED <<probe, semaphore>>

CheckReturns(c, err) ==
    /\ checkAt[c] = "run"
    /\ checkAt' = [checkAt EXCEPT ![c] = "over"]
    /\ result' = [result EXCEPT ![c] = IF err THEN "failed" ELSE "healthy"]
    /\ semaphore' = semaphore - 1
    /\ UNCHANGED probe

(* Mistake: the handler answers what it has when the deadline passes.      *)
AnswerProbeEarly ==
    /\ probe.code = 0
    /\ probe.late \/ \A c \in Checks : checkAt[c] \in {"none", "over"}
    /\ probe' = [probe EXCEPT !.code =
          IF \E c \in Checks : result[c] \in {"timeout", "failed"} THEN 503 ELSE 200]
    /\ UNCHANGED <<semaphore, checkAt, result>>

(* wg.Wait, then hasErrors decides the status.                             *)
AnswerProbe ==
    /\ probe.code = 0
    /\ \A c \in Checks : checkAt[c] \in {"none", "over"}
    /\ probe' = [probe EXCEPT !.code =
          IF \E c \in Checks : result[c] \in {"timeout", "failed"} THEN 503 ELSE 200]
    /\ UNCHANGED <<semaphore, checkAt, result>>

HealthNext ==
    \/ DeadlinePasses \/ AnswerProbe
    \/ \E c \in Checks :
           \/ AcquireSlot(c) \/ SlotTimeout(c)
           \/ \E err \in BOOLEAN : CheckReturns(c, err)

(* Checks must return by themselves: nothing interrupts one.               *)
HealthSpec == HealthInit /\ [][HealthNext]_healthVars /\ WF_healthVars(HealthNext)
-----------------------------------------------------------------------------
(* A server that says it is healthy has run every check of the endpoint to *)
(* its end and none failed; one that says it is not has a reason; and the  *)
(* slots are neither exceeded nor lost (common/health.go:66-111).          *)
HealthIsTrue ==
    /\ probe.code = 200 /\ probe.endpoint # "live" => \A c \in Checks : result[c] = "healthy"
    /\ probe.code = 503 => \E c \in Checks : result[c] \in {"timeout", "failed"}
    /\ semaphore = Cardinality({c \in Checks : checkAt[c] = "run"})

(* A probe that is not answered.                                           *)
ProbeWaits == probe.code = 0
=============================================================================
