---------------------------- MODULE ManagerStart ----------------------------
(***************************************************************************)
(* pkg/database/manager: New and NewFromAdapter, from the caller's         *)
(* configuration and the environment to a manager with its pool, with the  *)
(* startup migrations between: env_config.go, registry.go,                 *)
(* startup_migration.go and the drivers' config.go and adapter.go.  What   *)
(* the manager does once it runs is DBManager's subject.                   *)
(***************************************************************************)
EXTENDS FiniteSets

CONSTANT Setups  \* what a caller, its environment and its disk may hold

Drivers == {"postgres", "cockroach", "mysql", "mssql"}
Kinds == Drivers \cup {"custom", "nil", "adapter"}  \* of configuration
Forms == {"none", "url", "words"}                   \* of a DSN
Fields == {"Host", "User", "Database", "Port", "Other"}

ASSUME SetupAssumption ==
    \A s \in Setups :
        /\ s.kind \in Kinds /\ s.envDriver \in Drivers \cup {"unset", "unsupported"}
        /\ s.dsn \in Forms /\ s.envDSN \in Forms
        /\ s.given \subseteq Fields /\ s.env \subseteq Fields
        /\ s.envPort \in {"unset", "number", "junk"}
        /\ s.factory \in BOOLEAN  \* is a factory registered, or the adapter not nil?
        /\ s.blank \in BOOLEAN     \* MSSQLConfig.DefaultSchema is only spaces
        /\ s.migrations \in {"absent", "dir", "file", "fs", "badFS"}
        /\ s.observed \in BOOLEAN /\ s.tuned \in BOOLEAN  \* MaxOpenConns, ConnMaxLife

VARIABLES
    setup,    \* the caller's
    startAt,  \* the step New is at
    config,   \* what the configuration was resolved to
    dbPool,   \* the adapter's pool
    handle,   \* golang-migrate's own connection
    schema,   \* what the migrations have done to the database
    scraping  \* does the scraper of the pool's statistics run?

startVars == <<setup, startAt, config, dbPool, handle, schema, scraping>>

NoConfig == [kind |-> "nil", dsn |-> "none", from |-> "none", fields |-> {}]

StartTypeOK ==
    /\ setup \in Setups
    /\ startAt \in {"resolve", "build", "ping", "migrate", "up", "instrument", "ok", "failed"}
    /\ config \in [kind : Kinds, dsn : Forms, from : {"none", "given", "env"},
                   fields : SUBSET Fields]
    /\ dbPool \in [state : {"none", "open", "closed"},
                   conns : {"none", "given", "project"},
                   lifetime : {"none", "given", "project", "library"}]
    /\ handle \in {"none", "open", "closed"}
    /\ schema \in {"old", "migrated", "partly"}
    /\ scraping \in BOOLEAN

ManagerStarts(s) ==
    /\ setup = s
    /\ startAt = "resolve"
    /\ config = NoConfig
    /\ dbPool = [state |-> "none", conns |-> "none", lifetime |-> "none"]
    /\ handle = "none"
    /\ schema = "old"
    /\ scraping = FALSE

StartInit == \E s \in Setups : ManagerStarts(s)
-----------------------------------------------------------------------------
(* resolveEnvConfig: without a configuration, all of it is the             *)
(* environment's.  envInt is read before the driver is looked at.          *)
FromEnvironment == [kind |-> setup.envDriver, dsn |-> setup.envDSN,
                    from |-> IF setup.envDSN = "none" THEN "none" ELSE "env",
                    fields |-> setup.env]

EnvironmentFails ==
    \/ setup.envDriver \in {"unset", "unsupported"}
    \/ setup.envPort = "junk"

(* mergeConfigWithEnvDefaults: a DSN that is given is all there is; a      *)
(* field that is given keeps DB_DSN out, and the environment fills the     *)
(* fields that are not; DB_PORT is read only where no port is given.       *)
Structured == setup.given # {}
PortFails == setup.kind \in Drivers /\ setup.dsn = "none" /\ "Port" \notin setup.given
             /\ setup.envPort = "junk"

Merged ==
    CASE setup.kind \notin Drivers \/ setup.dsn # "none" ->
             [kind |-> setup.kind, dsn |-> setup.dsn, fields |-> setup.given,
              from |-> IF setup.dsn = "none" THEN "none" ELSE "given"]
      [] OTHER ->
             [kind |-> setup.kind, dsn |-> IF Structured THEN "none" ELSE setup.envDSN,
              fields |-> setup.given \cup setup.env,
              from |-> IF Structured \/ setup.envDSN = "none" THEN "none" ELSE "env"]

BlankSchema(c) == c.kind = "mssql" /\ setup.blank /\ "Other" \in c.fields

(* Validate: a DSN, or a host, a user and a database.                      *)
Valid(c) ==
    /\ c.kind \in Drivers => c.dsn # "none" \/ {"Host", "User", "Database"} \subseteq c.fields
    /\ ~BlankSchema(c)

(* The Validate of a type of the caller's decides for itself.              *)
ResolveConfig(refused) ==
    /\ startAt = "resolve" /\ setup.kind # "adapter"
    /\ refused => setup.kind = "custom"
    /\ LET resolved == IF setup.kind = "nil" THEN FromEnvironment ELSE Merged IN
       IF \/ (setup.kind = "nil" /\ EnvironmentFails)
          \/ PortFails \/ refused \/ ~Valid(resolved)
       THEN startAt' = "failed" /\ UNCHANGED config
       ELSE startAt' = "build" /\ config' = resolved
    /\ UNCHANGED <<setup, dbPool, handle, schema, scraping>>
-----------------------------------------------------------------------------
Opened(conns, lifetime) == [state |-> "open", conns |-> conns, lifetime |-> lifetime]

(* pgxshared.Open: either form of a DSN.  applyDefaults replaces the       *)
(* number of connections, and leaves the lifetimes that ParseConfig set.   *)
PgxPool == IF setup.tuned THEN Opened("given", "given") ELSE Opened("project", "library")

(* sqlshared.Open: MySQL's driver takes no URL.                            *)
SQLPool == IF setup.tuned THEN Opened("given", "given") ELSE Opened("project", "project")
DSNParses == config.kind = "mysql" => config.dsn # "url"

(* buildAdapter: a registered factory comes first; a type that has none    *)
(* and is no driver's is refused.  Nothing is open when it fails here.     *)
BuildAdapter(made) ==
    /\ startAt = "build"
    /\ CASE setup.factory /\ made ->
                startAt' = "migrate" /\ dbPool' = Opened("given", "given")
         [] ~setup.factory /\ made /\ config.kind \in Drivers /\ DSNParses ->
                /\ startAt' = "ping"
                /\ dbPool' = IF config.kind \in {"postgres", "cockroach"} THEN PgxPool ELSE SQLPool
         [] OTHER -> startAt' = "failed" /\ UNCHANGED dbPool
    /\ UNCHANGED <<setup, config, handle, schema, scraping>>

(* Open pings with a timeout, and closes the pool that does not answer.    *)
PingPool(answers) ==
    /\ startAt = "ping"
    /\ IF answers THEN startAt' = "migrate" /\ UNCHANGED dbPool
       ELSE startAt' = "failed" /\ dbPool' = [dbPool EXCEPT !.state = "closed"]
    /\ UNCHANGED <<setup, config, handle, schema, scraping>>

(* New closes the adapter when the migrations fail.                        *)
AbortStart == startAt' = "failed" /\ dbPool' = [dbPool EXCEPT !.state = "closed"]

(* resolveMigrationDSN: only the four drivers' types have a DSN, whatever  *)
(* is registered; golang-migrate takes only a URL, and without a DSN the   *)
(* fields make one for all but MySQL.                                      *)
HasMigrationDSN == config.kind \in Drivers
IsURL == config.dsn = "url" \/ (config.dsn = "none" /\ config.kind # "mysql")

(* runStartupMigrations: a directory that is not there is no error, and is *)
(* looked for after the DSN.                                               *)
FindMigrations(connects) ==
    /\ startAt = "migrate"
    /\ CASE ~HasMigrationDSN -> AbortStart /\ UNCHANGED handle
         [] HasMigrationDSN /\ setup.migrations = "absent" ->
                startAt' = "instrument" /\ UNCHANGED <<dbPool, handle>>
         [] HasMigrationDSN /\ setup.migrations \in {"dir", "fs"} /\ IsURL /\ connects ->
                startAt' = "up" /\ handle' = "open" /\ UNCHANGED dbPool
         [] OTHER -> AbortStart /\ UNCHANGED handle
    /\ UNCHANGED <<setup, config, schema, scraping>>

(* Mistake: New returns the error of the migrations and leaves the pool.   *)
MigrateUpAndLeave(applied) ==
    /\ startAt = "up"
    /\ handle' = "closed"
    /\ schema' = IF applied THEN "migrated" ELSE "partly"
    /\ startAt' = IF applied THEN "instrument" ELSE "failed"
    /\ UNCHANGED <<setup, config, dbPool, scraping>>

(* Up, which has no deadline, and the deferred Close.                      *)
MigrateUp(applied) ==
    /\ startAt = "up"
    /\ handle' = "closed"
    /\ IF applied THEN startAt' = "instrument" /\ schema' = "migrated" /\ UNCHANGED dbPool
       ELSE schema' = "partly" /\ AbortStart
    /\ UNCHANGED <<setup, config, scraping>>

(* NewFromAdapter: the adapter is the caller's, and nothing is migrated.   *)
TakeAdapter ==
    /\ startAt = "resolve" /\ setup.kind = "adapter"
    /\ IF setup.factory THEN startAt' = "instrument" /\ dbPool' = Opened("given", "given")
       ELSE startAt' = "failed" /\ UNCHANGED dbPool
    /\ UNCHANGED <<setup, config, handle, schema, scraping>>

(* The instruments, and a scraper unless observability is the no-op.       *)
InstrumentManager ==
    /\ startAt = "instrument"
    /\ startAt' = "ok"
    /\ scraping' = setup.observed
    /\ UNCHANGED <<setup, config, dbPool, handle, schema>>

StartNext ==
    \/ \E refused \in BOOLEAN : ResolveConfig(refused)
    \/ \E made \in BOOLEAN : BuildAdapter(made)
    \/ \E answers \in BOOLEAN : PingPool(answers)
    \/ \E connects \in BOOLEAN : FindMigrations(connects)
    \/ \E applied \in BOOLEAN : MigrateUp(applied)
    \/ TakeAdapter \/ InstrumentManager

StartSpec == StartInit /\ [][StartNext]_startVars
-----------------------------------------------------------------------------
(* A start that fails leaves no pool, no connection of the migrations and  *)
(* no scraper, and has not migrated the database; one that succeeds has    *)
(* its pool, has migrated whatever there was to migrate before it returned *)
(* and closed that connection.  What the caller gave explicitly is what    *)
(* the pool is opened with: neither DB_DSN nor the library's number of     *)
(* connections replaces it (manager.go:57-92, startup_migration.go:28-91,  *)
(* env_config.go:82-195, adapter.go:47-96).                                *)
FailedStartLeavesNothing ==
    /\ startAt = "failed" =>
           /\ dbPool.state # "open" /\ handle # "open" /\ ~scraping
           /\ schema # "migrated"
    /\ startAt = "ok" =>
           /\ dbPool.state = "open" /\ handle # "open" /\ scraping = setup.observed
           /\ (schema = "migrated") = (setup.kind # "adapter" /\ setup.migrations \in {"dir", "fs"})
           /\ setup.kind \in {"nil"} \cup Drivers /\ ~setup.factory =>
                  dbPool.conns = (IF setup.tuned THEN "given" ELSE "project")
    /\ config.kind # "nil" =>
           /\ setup.given \subseteq config.fields \/ setup.kind = "nil"
           /\ setup.dsn # "none" /\ setup.kind # "nil" => config.from = "given"
           /\ setup.dsn = "none" /\ setup.kind \in Drivers /\ setup.given # {} => config.dsn = "none"
=============================================================================
