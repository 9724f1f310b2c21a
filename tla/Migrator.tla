------------------------------ MODULE Migrator ------------------------------
(***************************************************************************)
(* pkg/database/migration: concurrent calls of Up, Down and Force on one   *)
(* database.  A call opens golang-migrate, runs it in a goroutine and      *)
(* waits for it or for its context; when the context ends, the goroutine   *)
(* is asked to stop, closed under, and left behind.                        *)
(***************************************************************************)
EXTENDS Integers

CONSTANTS MigratorCalls,   \* each call, to the operation it is
          Migrations       \* the source has 1 .. Migrations

Unlocked == "nobody"
CallNames == DOMAIN MigratorCalls

ASSUME MigratorAssumption ==
    /\ Migrations \in Nat /\ Unlocked \notin DOMAIN MigratorCalls
    /\ \A c \in DOMAIN MigratorCalls : MigratorCalls[c] \in {"up", "down", "force"}

VARIABLES
    migrating,  \* for each call: the caller's side
    runner,     \* ... golang-migrate's: where it is, how it ended
    stopping,   \* ... is there a token in GracefulStop?
    connection, \* ... its connection
    database,   \* the version table, what was applied, the advisory lock
    forced      \* history: was a version ever forced?

migratorVars == <<migrating, runner, stopping, connection, database, forced>>

MigratorTypeOK ==
    /\ migrating \in [CallNames -> [at : {"idle", "waiting", "over"},
                       result : {"none", "ok", "noChange", "failed", "timeout"}]]
    /\ runner \in [CallNames -> [at : {"none", "lock", "next", "body", "mark", "over"},
                       result : {"none", "ok", "noChange", "failed", "stopped"},
                       ran : 0 .. Migrations]]
    /\ stopping \in [CallNames -> BOOLEAN]
    /\ connection \in [CallNames -> {"none", "open", "closed"}]
    /\ database.version \in 0 .. Migrations /\ database.dirty \in BOOLEAN
    /\ database.applied \subseteq 1 .. Migrations
    /\ database.lock \in CallNames \cup {Unlocked}
    /\ forced \in BOOLEAN

MigratorInit ==
    /\ migrating = [c \in CallNames |-> [at |-> "idle", result |-> "none"]]
    /\ runner = [c \in CallNames |-> [at |-> "none", result |-> "none", ran |-> 0]]
    /\ stopping = [c \in CallNames |-> FALSE]
    /\ connection = [c \in CallNames |-> "none"]
    /\ database = [version |-> 0, dirty |-> FALSE, applied |-> {}, lock |-> Unlocked]
    /\ forced = FALSE
-----------------------------------------------------------------------------
(* What the goroutine of a call does next.                                 *)
RunnerAt(c, at) ==
    [runner EXCEPT ![c] = [at |-> at, result |-> runner[c].result, ran |-> runner[c].ran]]

(* run: a context that is done opens nothing; open may fail.               *)
RunMigration(c, opens) ==
    /\ migrating[c].at = "idle"
    /\ IF opens
       THEN /\ migrating' = [migrating EXCEPT ![c] = [at |-> "waiting", result |-> "none"]]
            /\ runner' = RunnerAt(c, "lock")
            /\ connection' = [connection EXCEPT ![c] = "open"]
       ELSE /\ migrating' = [migrating EXCEPT ![c] = [at |-> "over", result |-> "failed"]]
            /\ UNCHANGED <<runner, connection>>
    /\ UNCHANGED <<stopping, database, forced>>

(* golang-migrate: the lock is the session's, so the end of the connection *)
(* frees it.                                                               *)
Ended(c, result) ==
    /\ runner' = [runner EXCEPT ![c] = [at |-> "over", result |-> result, ran |-> runner[c].ran]]
    /\ database' = [database EXCEPT !.lock = IF @ = c THEN Unlocked ELSE @]

Lock(c) ==
    /\ runner[c].at = "lock" /\ database.lock = Unlocked /\ connection[c] = "open"
    /\ IF database.dirty /\ MigratorCalls[c] # "force"
       THEN Ended(c, "failed")
       ELSE /\ runner' = RunnerAt(c, "next")
            /\ database' = [database EXCEPT !.lock = c]
    /\ UNCHANGED <<migrating, stopping, connection, forced>>

(* The lock timeout, a closed connection, or a statement that fails.       *)
RunnerFails(c) ==
    /\ runner[c].at \in {"lock", "next", "body", "mark"}
    /\ Ended(c, "failed")
    /\ UNCHANGED <<migrating, stopping, connection, forced>>

(* Between two migrations it stops when it was asked to, without an error. *)
RunnerStops(c) ==
    /\ runner[c].at = "next" /\ stopping[c]
    /\ stopping' = [stopping EXCEPT ![c] = FALSE]
    /\ Ended(c, "stopped")
    /\ UNCHANGED <<migrating, connection, forced>>

(* Up has all that are left to do, and Down one.                           *)
Remaining(c) ==
    CASE MigratorCalls[c] = "up" -> database.version < Migrations
      [] MigratorCalls[c] = "down" -> runner[c].ran = 0 /\ database.version > 0
      [] OTHER -> FALSE

(* The version is set dirty, the body is run, the version is set clean.    *)
SetDirty(c) ==
    /\ runner[c].at = "next" /\ connection[c] = "open" /\ Remaining(c)
    /\ runner' = [runner EXCEPT ![c] = [at |-> "body", result |-> runner[c].result,
                                        ran |-> runner[c].ran + 1]]
    /\ database' = [database EXCEPT !.dirty = TRUE,
                       !.version = @ + (IF MigratorCalls[c] = "up" THEN 1 ELSE -1)]
    /\ UNCHANGED <<migrating, stopping, connection, forced>>

RunBody(c) ==
    /\ runner[c].at = "body" /\ connection[c] = "open"
    /\ runner' = RunnerAt(c, "mark")
    /\ database' = [database EXCEPT !.applied =
                       IF MigratorCalls[c] = "up" THEN @ \cup {database.version}
                       ELSE @ \ {database.version + 1}]
    /\ UNCHANGED <<migrating, stopping, connection, forced>>

SetClean(c) ==
    /\ runner[c].at = "mark" /\ connection[c] = "open"
    /\ runner' = RunnerAt(c, "next")
    /\ database' = [database EXCEPT !.dirty = FALSE]
    /\ UNCHANGED <<migrating, stopping, connection, forced>>

ForceVersion(c, v) ==
    /\ runner[c].at = "next" /\ connection[c] = "open" /\ MigratorCalls[c] = "force"
    /\ runner' = [runner EXCEPT ![c] = [at |-> "over", result |-> "ok", ran |-> runner[c].ran]]
    /\ database' = [database EXCEPT !.version = v, !.dirty = FALSE, !.lock = Unlocked]
    /\ forced' = TRUE
    /\ UNCHANGED <<migrating, stopping, connection>>

RunnerEnds(c) ==
    /\ runner[c].at = "next" /\ ~Remaining(c) /\ MigratorCalls[c] # "force"
    /\ Ended(c, IF runner[c].ran > 0 THEN "ok"
                ELSE IF MigratorCalls[c] = "up" THEN "noChange" ELSE "failed")
    /\ UNCHANGED <<migrating, stopping, connection, forced>>

(* run, where it waits: the goroutine's result, mapped.                    *)
MapError(result) == IF result = "stopped" THEN "ok" ELSE result

RunReturns(c) ==
    /\ migrating[c].at = "waiting" /\ runner[c].at = "over"
    /\ migrating' = [migrating EXCEPT ![c] = [at |-> "over", result |-> MapError(runner[c].result)]]
    /\ connection' = [connection EXCEPT ![c] = "closed"]
    /\ UNCHANGED <<runner, stopping, database, forced>>

(* Mistake: the goroutine is asked to stop, and waited for.                *)
ContextEndsThenWaits(c) ==
    /\ migrating[c].at = "waiting" /\ ~stopping[c]
    /\ stopping' = [stopping EXCEPT ![c] = TRUE]
    /\ UNCHANGED <<migrating, runner, connection, database, forced>>

(* The context ends: the token if there is room for it, and the error at   *)
(* once.  The goroutine goes on until its connection is closed.            *)
ContextEnds(c) ==
    /\ migrating[c].at = "waiting"
    /\ stopping' = [stopping EXCEPT ![c] = TRUE]
    /\ migrating' = [migrating EXCEPT ![c] = [at |-> "over", result |-> "timeout"]]
    /\ UNCHANGED <<runner, connection, database, forced>>

(* The other goroutine's Close: it waits for the statement that runs, and  *)
(* those that follow fail.                                                 *)
CloseRunner(c) ==
    /\ migrating[c].result = "timeout" /\ connection[c] = "open"
    /\ connection' = [connection EXCEPT ![c] = "closed"]
    /\ database' = [database EXCEPT !.lock = IF @ = c THEN Unlocked ELSE @]
    /\ UNCHANGED <<migrating, runner, stopping, forced>>

CallStep(c) ==
    \/ \E opens \in BOOLEAN : RunMigration(c, opens)
    \/ Lock(c) \/ RunnerFails(c) \/ RunnerStops(c)
    \/ SetDirty(c) \/ RunBody(c) \/ SetClean(c) \/ RunnerEnds(c)
    \/ \E v \in 0 .. Migrations : ForceVersion(c, v)
    \/ RunReturns(c) \/ ContextEnds(c) \/ CloseRunner(c)

MigratorNext == \E c \in CallNames : CallStep(c)

(* Statements return and waits for the lock time out: every call's         *)
(* goroutines run on.                                                      *)
MigratorProgress == \A c \in CallNames : WF_migratorVars(CallStep(c))

MigratorSpec == MigratorInit /\ [][MigratorNext]_migratorVars /\ MigratorProgress
-----------------------------------------------------------------------------
(* An Up that returns success has run all that was left: being stopped     *)
(* half-way, which golang-migrate does not call an error, is never told as *)
(* success.  A clean version is the number of migrations applied, unless   *)
(* it was forced; a dirty one is at most one migration away, and only the  *)
(* goroutine that holds the lock changes it (migrator.go:101-199).         *)
MigrationIsTrue ==
    /\ \A c \in CallNames :
           /\ migrating[c].result \in {"ok", "noChange"} => runner[c].result = migrating[c].result
           /\ runner[c].at \in {"body", "mark"} /\ connection[c] = "open" => database.lock = c
    /\ ~forced =>
           IF database.dirty
           THEN \/ database.applied \in {1 .. database.version - 1, 1 .. database.version}
                \/ database.applied = 1 .. database.version + 1
           ELSE database.applied = 1 .. database.version

(* A call that has not returned, or a goroutine it left behind.            *)
MigrationWaits ==
    \E c \in CallNames : migrating[c].at # "over" \/ runner[c].at \notin {"none", "over"}
=============================================================================
