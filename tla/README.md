# Verification of devkit-go

TLA+ models of devkit-go, the TLC runs that check them on small instances, and
TLAPS proofs of what matters most for instances of any size.
Paths below are under `src/pkg/` unless they start with `src/`.

- Modules: `*.tla`; configurations of TLC: `*.cfg`; `PROJECT.json` lists the
  components, the hazards, the runs, the theorems, and the source lines behind each
  definition.
- Check a run: `tlc -config Shutdowns.cfg Shutdowns`. Check the proofs of a module:
  `tlapm UnitOfWork_proofs.tla`.
- An operator whose comment starts with "Mistake:" is not part of a model. It is a
  plausible bug of a definition near it; with that definition replaced by
  it, a property must fail, which shows that the property says something. Where a
  property is a conjunction, each conjunct has a mistake of its own that breaks it.

## 1. Inventory

devkit-go is a library of independent packages. What each part keeps, and what makes
it correct:

| Component | State | Operations | Correct when |
|---|---|---|---|
| database manager (`database/manager`, `database/internal/pool`) | `closed`, `activeTx` WaitGroup, the `sync.Once` of Shutdown, the scraper goroutine | BeginTx, Commit, Rollback, Ping, DBTX, Shutdown | Shutdown drains the transactions before it closes the pool, is run once, tells each caller the truth and returns |
| start of the manager, drivers, registry (`env_config.go`, `registry.go`, `postgres`, `cockroach`, `mysql`, `mssql`) | a configuration under construction, a pool, a migration connection | New, NewFromAdapter | a failed start leaves nothing; what the caller gave is what is used |
| migrator (`database/migration`) | a goroutine and a connection per call; the version table and its lock | Up, Down, Force | what a call reports is what became of the schema |
| database telemetry (`instrumentation.go`, `internal/pool`) | a span per statement, gauges | Exec, Query, QueryRow, rows; scrapes | one end per span, told truly; gauges are the pool's numbers |
| unit of work (`database/uow`) | reentrancy guard per instance; a transaction per call | Do | what it reports is what the database did; nested calls are turned away and nothing else |
| RabbitMQ connection (`messaging/rabbitmq/connection.go`) | current connection and pool, three flags, watcher context | connect, watch, reconnect, getChannelPool, close | one reconnect at a time, no stale pool, drops repaired, closed for good |
| RabbitMQ consumer (`consumer.go`) | its subscription, buffered and handled deliveries | Start, Close; ack, retry and DLQ of a delivery | comes back after a reconnect, returns only when idle, loses no delivery |
| RabbitMQ channel pool, publisher, client, topology | a publisher channel with confirms, consumer channels; the broker's queues and bindings | Publish, PublishBatch, Setup*, Declare*, Shutdown | a confirm belongs to its publish; a rejected message finds a queue |
| Kafka consumer (`messaging/kafka/new_consumer.go`, `consumer_dlq.go`) | reader, WaitGroup, error channel, retry state; the group's offset outside | Consume, ConsumeWithWorkerPool, Close, DLQ | at least once: nothing committed unsettled; orderly Close |
| Kafka client (`client.go`) | the connection, two atomic flags, the reconnect worker | Connect, Close, health check | no reconnect after Close, no leaked connection, Close returns |
| Kafka producer, DLQ strategies | a writer, `closed` | Publish, PublishBatch, HandleFailure | bounded attempts; success means stored |
| telemetry of messages (`otel.go`, `otel_propagation.go` of both) | spans of a publish and of a delivery, headers | instrument, inject, extract | one trace from publisher to handler, each outcome told truly |
| configuration (`options.go`, `config.go` of kafka, rabbitmq, http) | a configuration under construction | options, validation | what is accepted is usable, in whatever order it was given |
| job scheduler (`worker/job`) | cron, flag per job, WaitGroup | Register, Start | no overlap where it is excluded; Start drains |
| worker manager (`worker`) | state, WaitGroup, cancel | Start, Stop | Stop leaves nothing running and returns |
| HTTP servers (`http_server`) | per request: a writer shared by goroutines; server lifecycle | timeout middleware, recovery, telemetry, Start, Shutdown | one response per request, told truly; a shutdown that returned is over |
| health checks (`common/health.go`) | a semaphore, results | the health, ready and live endpoints | healthy means that every check ran and passed |
| HTTP client (`httpclient`) | retry state and body of a request | Do, Get, ..., MakeRequest, RoundTrip | bounded attempts, bodies whole and closed, each attempt told |
| event dispatcher (`events`) | handlers by type | Dispatch, Register, Remove, Clear | a dispatch sees one set of handlers |
| OpenTelemetry provider (`observability/otel`) | shutdown steps in order, globals | NewProvider, Shutdown | all or an error; steps run once and in order |
| value objects, slices (`vos`, `linq`) | none | arithmetic | exact, or an error |
| nullable types, encryption, responses, entity, logger, mocks, scripts | none | conversions | left to tests |

Interactions. `uow` calls the manager's BeginTx and the transaction it returns, so
its model extends the manager's. A RabbitMQ consumer and the publisher read the
connection manager and never write it. The worker manager runs the scheduler and the
consumers under one context and one WaitGroup. The HTTP servers shut the
OpenTelemetry provider down. The others share nothing but a program that uses them.
The message brokers, the database drivers, golang-migrate, the cron library, net/http
and the user's functions are outside; they answer when and how they like.

The hard behaviour: a shutdown against everything that is still under way; a
timeout after which the other side goes on; reconnection; commits, confirms and the
work they cover; contexts derived from other contexts; starts that fail half-way.
`PROJECT.json` lists the hazards, each at its line, with the properties that would
catch it.

## 2. Modules

```
DrainThenClose  <--refines--  DBManager  <--extends--  UnitOfWork     <-- UnitOfWork_proofs
      ^
      '------refines--  Scheduler <--extends--  WorkerManager         <-- WorkerManager_proofs

Shutdowns  --extends-->  DBManager  WorkerManager

RabbitLink  <--refines--  RabbitConnection  <--extends--  RabbitConsumer <-- RabbitConsumer_proofs
      ^
      '------extends--  RabbitDelivery                                <-- RabbitDelivery_proofs

KafkaConsumer                                                         <-- KafkaConsumer_proofs

Services  --extends-->  HttpServer  HealthChecks  HttpClient  KafkaClient  KafkaProducer
                        MessageTrace  EventDispatcher  ManagerStart  Migrator
                        DatabaseTelemetry  Values  Settings  ProviderStart
                        ConsumerChannels
Services_proofs         --extends-->  Services  HttpServer_proofs  --extends-->  HttpServer
EventDispatcher_proofs  --extends-->  EventDispatcher
```

A module of proofs extends the outermost model it is about, so that UnitOfWork_proofs
has the manager's theorems (of `DBSpec`) before those of the Do calls (of `UowSpec`), and
RabbitConsumer_proofs the connection manager's before the consumer's.

**DrainThenClose** is the abstract promise of a graceful shutdown: users enter while
a resource is open, a drain lets nobody in, the resource is closed only when nobody
is inside, and a shutdown that gives up leaves it alone. Two components implement it.

**DBManager** (`manager.go`, `pool/metrics.go`). One process per transaction, Ping
and Shutdown call, for the body of `shutdown.Do`, the goroutine in
`activeTx.Wait`, the scraper and the goroutine in `adapter.Close`. `tx[t]` is where
the goroutine of transaction `t` is; `fired[t]` is the `sync.Once` of its
`trackedTx`. `stage` is the program counter of the Once's body. The lock is not a
variable: readers that keep it across a call are the Pings, and a writer waits
exactly at `stage = "lock"`, where it holds new readers off as Go's RWMutex does.
Its critical section is one assignment and part of the step that takes the lock.
A client may end a transaction again after it ended, as deferred rollbacks do.

**UnitOfWork** (`uow.go`) adds the Do calls: each is one of the manager's
transactions, and its steps are the manager's steps with more conjuncts. `stack[g]`
holds the calls of goroutine `g` that have not returned, so nesting happens as it
does in Go: a Do is called by code outside any Do or by the function of the
innermost one. `durable[t]` is what the database did; a failed commit may have
committed. A panic goes on in the caller's function, which fails or recovers.

**RabbitLink** is what the connection manager promises those who take its pool:
generations of connections, one of them current, a pool only while the manager is up,
a replaced connection with its pool closed. **RabbitConnection** (`connection.go`)
implements it. Each successful dial is a generation. The variables of the manager are
its fields; `cancelled` is the set of generations whose watcher context is done,
closed under derivation. `link` is the connection as the broker sees it.

**RabbitConsumer** (`consumer.go`) adds one consumer with one worker or with a pool.
Consumers of different queues share only the connection manager, which they read.
`ready` and `busy` count deliveries, not which they are.

**RabbitDelivery** (`channel_pool.go`, `publisher.go`, `consumer.go:297-598`, `dlq.go`)
builds on RabbitLink. It follows each message from the declaration of its queue and
its publish to its end. `call[p]` is the publish a goroutine is in, the lock of the
publisher channel being held from the send to the confirm; `confirms[n]` is the
channel of confirmations, which say "ok" or "no" and not of which publish; `flight[n]`
is what the broker has not seen yet. A copy of a message is the message with its
`x-retry-count`. A dropped connection puts back what was not acknowledged.

**KafkaConsumer** (`new_consumer.go`, `consumer_dlq.go`). One partition. `job[p]` is
the message goroutine `p` works on: which handler, which attempt, and whether
something has failed (`bad`). kafka-go is external: `position` of the reader,
`stash` of offsets to flush, `committed` for the group. A message's pairs with its
handlers are `settled` when the handler succeeded or the DLQ took it. `givenUp`
holds the messages whose processing ended without a commit. The send on the closed
error channel is `process = "panicked"`.

**Scheduler** (`job/scheduler.go`) and **WorkerManager** (`worker/manager.go`). A tick
is a job with a number; `run` says whether its goroutine is still cron's, in the
job, or gone. Start of the manager holds its mutex throughout and is one step. A
consumer is its goroutine in Start and the call of its Stop.

**Shutdowns** puts the two managers that a process stops on its way out beside each
other. They share nothing, so a behaviour is about one of them, and the other rests.

**Services** puts the remaining components beside each other. They share no state, so
a behaviour is about one of them, its `subject`, and the others rest; the properties
of Services say what all of them together promise: whoever is told what happened is
told what did (`ReportsAreTrue`), a start is whole (`StartsAreWhole`), a shutdown is
final (`ShutdownIsFinal`), attempts are accounted for (`AttemptsAreCounted`), what is
computed is right (`ValuesAreRight`), and nobody waits for ever (`ServicesReturn`).
Each module can be checked on its own with its own specification as well:

- **HttpServer** (`chi_server`, `server_fiber`, `otel/shutdown.go`). A request of chi
  is served by up to three goroutines: net/http's, which waits at the global timeout;
  the one it starts, which waits at the route's; and the handler's. `writer[l]` is the
  writer of a layer, `sent[l]` what its goroutine sent back, `by` who wrote to the
  response. fiber runs a chain in one goroutine. Start, a second caller of Shutdown
  and one that shuts the provider down directly meet at `sync.Once` and at the
  provider's coordinator.
- **HealthChecks**: a goroutine per check, the semaphore, the common deadline.
- **HttpClient**: a call through each kind of client: the body buffered or not, the
  attempts with their policies, what is drained and closed, the hook and the span.
- **KafkaClient**: the connection, written under the mutex by Connect and Close and
  without it by the reconnect worker; Close waits 100 ms and goes on.
- **KafkaProducer**: a publish, a batch or a DLQ strategy against a broker that may
  store any part of what it is sent and fail.
- **MessageTrace**: who has started a span, what a message carries, what each span and
  counter was told, for both brokers: over the causes a publish fails of, RabbitMQ's
  redeliveries, the tries of a handler inside Kafka's consumer, panics and dead letters.
  `facts` is the history the telemetry is held against.
- **ConsumerChannels**: the channels of one pool, kept by queue, with consumers that
  share, lose and release them.
- **EventDispatcher**: dispatches over copies, against changes by anybody.
- **ManagerStart**: from the caller's configuration and the environment to a manager;
  an error at each step of the way.
- **Migrator**: concurrent calls on one database; golang-migrate's goroutine, its
  stop token, its lock, and the statements between "dirty" and "clean".
- **DatabaseTelemetry**: a statement and its result, ended by whoever comes first; the
  scraper, which adds differences to sums.
- **Values**: Money, Percentage, linq and the backoffs as operators, compared with
  reference definitions; the width of an integer and the largest amount are parameters.
- **Settings**: options in any order and number, then the validation.
- **ProviderStart**: three signals, each with an exporter that may fail.

MCUnitOfWork, MCKafkaConsumer, MCRabbitDelivery and MCServices give the instances.

## 3. Runs

| Run | Instance | Shows |
|---|---|---|
| `shutdowns` | 2 transactions, 1 Ping, 2 Shutdown calls; or a job of each policy with 2 pending ticks, 2 consumers, 2 Stop calls; 13 848 and 97 220 states | of the database's: Shutdown drains before it closes, also against transactions that end twice or fail to begin; every caller gets the one true verdict; the WaitGroup is exact and not misused; Shutdown returns if Pings do. Of the worker's: no self-overlap, Stop leaves nothing and returns. Of both: refinement of DrainThenClose |
| `dbmanager_bounded` | the first of these | violation: a hanging Ping keeps Shutdown before its own timeout |
| `unit_of_work` | 3 calls, 2 goroutines, 2 instances, 1 Shutdown; symmetric; about 1.0 million states | outcomes are true, the guard is exact, closing cuts nothing short but a rollback after a failed commit |
| `rabbit_consumer` | 3 generations, both kinds of consumer, prefetch 2; 9 520 states | one reconnect, refinement of RabbitLink (no stale pool), watched drops are repaired, Close ends a reconnect and is final, a single-worker consumer recovers |
| `rabbit_watched` | 3 generations | violation: after a reconnect nobody watches |
| `rabbit_pooled` | 3 generations | violation: a consumer with a pool ends for good, without an error |
| `rabbit_delivery` | 2 messages, 1 worker, 2 generations, 1 retry, 1 publish that times out; with and without confirms, with autoAck; 313 948 states | success means accepted unless an earlier publish timed out; nothing the broker took is lost; everything is settled after bounded retries |
| `rabbit_delayed` | same, `SetupDelayedRetryQueue` | violation: a rejected message is unrouted |
| `kafka_consumer` | 2 messages with 2 and 1 handlers, 2 workers, 2 retries, 2 starts, 1 crash; both modes, with and without DLQ; 346 184 states | commits only what is settled, skips only what was given up, at least once through restarts, orderly Close |
| `kafka_dlq` | same | violation: a message the DLQ refused is passed over by a later commit |
| `services` | one instance per component, see below; 250 940 states | what section 2 says of Services |
| `kafka_closed` | 2 Connect calls, 1 retry, 3 dials | violation: a connection is installed after Close has returned |

Why the bounds are enough. The transactions of the manager meet only in a counter
and a flag; two give every order of one that ends and one that does not, and the
proofs cover the rest. Three Do calls give an outer call, a rejected nested one and
a further one, or two nested on different instances beside a third goroutine's.
Three connections give a replaced one, its replacement, and a drop of that one,
while a reconnect of the first may still be ending. Two messages are one that fails
and a later one that commits past it; two handlers are one that fails before one
that succeeds; two retries are one that is repeated and one that is the last. A crash
beyond the first starts from a state the first one reaches as well. Two ticks of a
job are what overlap takes; two Stop calls are the one that works and one more. One
publish that times out (`MaxTimeouts`) leaves the confirm that the next one takes, and
the message after that finds the channel as it was; two connections are the one that
is lost and its replacement.

Of Services: one request has every order of its three goroutines, and requests meet
only in a counter of leaks; three callers (Start, Stop, the provider's own) are each
pair of them; one provider step is one that fails or not. Three checks with two slots
are one that has to wait. Three attempts (`MaxRetryAttempts`, 10 in the code) are a
first, a middle and a last one. Two Connect calls race each other, and four dials
(`MaxDials`) are theirs, a replacement and one more. Two handlers of a Kafka message and
two tries of each (`KafkaTries`) are a first and a last one of both. Two retries of a producer, two
messages of a batch. Three consumers, two of
one queue, and three channels (`MaxChannels`): one shared, lost, and replaced. Two handlers, four changes (`MaxChanges`) and one dispatch:
removal, and registration again, of either during a call of the other. An Up, a Down
and a Force over two migrations. One row and one scrape (`MaxRows`, `MaxScrapes`) beside
the first scrape at the start. Integers of about 5 bits (`MaxInt64` = 40, `Limit` = 8),
with amounts around each limit. Two options (`MaxOptions`): an order and its reverse.

Runs in which the system may really stop (a unit of work whose calls are used up,
a worker that has stopped, a consumer or a service that has returned) do not check for
deadlock.

Fairness, always of single steps: a goroutine that can run does, a timer fires, a
select does not pass over a ready case for ever (strong fairness of the scraper's
stop, of a single-worker consumer's end). Of the world outside:

- database: nothing. Commit, Rollback, Ping and Close may hang; that is why
  `ShutdownReturnsIfPingsDo` has its premise. A migration's statements return and its
  wait for the lock ends, by golang-migrate's own lock timeout.
- RabbitMQ: a dial answers, and dials do not fail for ever without the reconnect
  giving up, because `MaxElapsedTime` is positive. A handler returns (its context
  expires). The broker answers what it has received.
- Kafka: handlers, the DLQ, the reader, a dial and a write answer (each has a timeout
  of its own in kafka-go's configuration). No flush is assumed.
- worker: runs of jobs end, and a consumer's Start (when its context is done) and
  Stop return. Nothing in the manager bounds them; Stop hangs otherwise, its
  ShutdownTimeout notwithstanding (`manager.go:137,140`).
- HTTP: timers fire and channels are received from; of handlers nothing is assumed, they
  may run for ever. Health checks return: nothing in the code interrupts one.

The type invariants `UowTypeOK`, `ConsumerTypeOK` and `DeliveryTypeOK`, and `PoolIsCurrent`
and `ClosedPoolHasNoLiveTx`, which the refinements imply, are stated in their modules and
proved, and not repeated in the runs.

## 4. What the code does not keep

Six runs end in a violation; each is described in `PROJECT.json` under "findings".

1. `dbmanager_bounded`: the shutdown timeout does not bound Shutdown while a Ping
   hangs, against `shutdown_test.go:61`.
2. `rabbit_watched`: the watcher of every connection after the first has a context
   that is done from the start, against `messaging/rabbitmq/README.md:256`.
3. `rabbit_pooled`: no auto-recovery with a worker pool, against `consumer.go:123`.
4. `kafka_dlq`: no redelivery after a DLQ failure once a later message commits,
   against `consumer_dlq.go:110`.
5. `rabbit_delayed`: a rejected message of `SetupDelayedRetryQueue` reaches neither the
   delay queue nor any other, against `dlq.go:203`.
6. `kafka_closed`: Close of the Kafka client does not close "all resources", against
   `messaging/kafka/client.go:253`: a Connect that waits for the lock or a reconnect
   that is still dialling installs a connection after it.

Properties that carry an exception because the code has it:

- `OutcomeIsTrue` leaves out functions that end their goroutine with Goexit (no rollback
  then), and `CloseSparesDo` the rollback after a failed commit, which the manager has
  already counted as ended.
- `SkipsOnlyGivenUp` and `EventuallySettled` are about the single-goroutine mode: the
  worker pool commits out of order by design.
- `OkMeansAccepted` and `NothingLost` leave out a message whose publish took the late
  confirm of one that had timed out (`misled`); `NothingLost` is about confirms: without
  them, or with autoAck, messages are lost by design.
- `OneResponse` lets a handler that had begun to write before its deadline go on writing
  after the server has returned from the request: the middleware does not wait for it.
- `TelemetryIsTrue`: chi tells a panic after the answer had begun as 500, fiber a wrapped
  `*fiber.Error`.
- `NothingLost`, where no queue is bound for what is rejected: so after
  `SetupDelayedRetryQueue`, and after `DefaultDLQConfig` with `DeclareQueueWithDLQ`, whose
  dead letters keep a key under which the direct exchange has no binding (`dlq.go:41,135`).
- `ChannelsAreReleased`: another consumer of the same queue may close a consumer's channel
  (`channel_pool.go:147-163`).
- `StopIsTrue`: a second caller of an HTTP server's Shutdown gets nil whatever the first
  one got; what nil means is asked of the first.
- `CloseIsFinal` says what a Kafka Close leaves behind instead of nothing: connections of
  dials that were under way, at most one for each Connect and for the worker, and those
  that were overwritten in `c.conn` by a later dial (`client.go:191-192`), which nobody
  closes, before or after Close.
- `TracesAreTrue`, for Kafka. A publish that failed of a deadline or a cancellation is
  told as "publish_failed" and not as `otel.go:387` has it, because `new_producer.go:93`
  prints the cause and wraps another error. Nobody calls `RecordRetryAttempt` and
  `RecordDLQPublish` (`otel.go:356-382`), so that the two counters stay at zero whatever
  the consumer retries and dead-letters. Every consumption that returns is told as
  processed, its failed handlers notwithstanding (`new_consumer.go:376-379`). A handler
  is not traced where the DLQ is enabled (`consumer_dlq.go:35`). Of RabbitMQ: a retry
  and a dead letter are counted when they are decided, before the republish or the nack
  that may fail (`consumer.go:455-508`); and its classifyError has no "publish_failed",
  which its comment lists (`rabbitmq/otel.go:386-395`).
- `ArithmeticIsExact` (`Unserved`): `Money.Multiply` panics for a factor of 0, although
  the exact product is 0 (`money.go:172`), and `Percentage.Multiply` reports an overflow
  for every negative factor (`percentage.go:136`).
- `WaitsAreBounded`, for RabbitMQ: up to a retry count of 36. From 37 on the shift
  overflows, and the wait may be zero or negative (`consumer.go:598`).
- `ProviderIsWhole`: a start that fails on its second or third exporter leaves the first
  providers running and global, with nobody to shut them down.

Noted while modelling, and modelled as the code has it where a model has the part:

- HTTP servers: a Start whose context is cancelled derives the shutdown's from it; after somebody else's
  Shutdown, Start goes on waiting for its context; a listener that fails returns without
  the provider's shutdown. A leaked handler still uses chi's pooled RouteContext. fiber
  counts 4xx as errors and chi does not; a body over fiber's limit is not observed.
  A CORS origin "," is accepted and then denies every origin.
- Kafka: `newProducer` ignores its dialer, and sets the topic both on the writer and on
  each message; "will create on demand" (`consumer_dlq.go:177`) is said of a DLQ publisher
  that is never created; a publish with nil headers, a propagator and telemetry
  panics; `minBytes > maxBytes` makes the reader's constructor panic; a first backoff
  above the largest one is taken; an authentication given after `WithInsecureSkipVerify` resets it; Confluent's ignores
  SCRAM-SHA-256.
- RabbitMQ: `WithURL` sets a field that nothing reads; there is no default strategy
  although the doc has one; `WithConnectionTimeout` does not reach the plain and the TLS
  strategy; `ErrPublishTimeout` is told as "unknown". Two consumers of one queue share
  a channel, which the first to stop closes (`channel_pool.go:121,147`).
- Database: `New` with a registered factory for a type of its own always fails where it
  looks for the migration DSN (`startup_migration.go:108`); MySQL's startup migrations
  cannot run; keyword DSNs fail in migrations; the startup Up has no timeout; the defaults
  of pgx lifetimes never apply; MaxConns replaces the DSN's `pool_max_conns`; a migration
  that times out may leave the version dirty until a Force; a row that is never scanned
  is told as ok; rows that are never closed leak their span; gauges keep their values
  after the scraper stops, and lose waits below a millisecond. `DBTX` hands out the pool
  itself, whose users Shutdown does not wait for.
- Values: Money's JSON goes through a float and is inexact above about
  7e15 cents; `Filter` and `Remove` of linq return nil where the doc says empty.
- Observability: a second caller of the provider's Shutdown waits for the first one and
  not for its own context.

## 5. Proofs

Every safety invariant of the passing runs but `ValuesAreRight`, of which two of the
four parts are proved, is proved for every value of the constants, with the refinements of
both abstract specifications. An invariant is seldom inductive, so each module has one
that is, a conjunction of named parts; every part was first checked by TLC.

### Database

**UnitOfWork_proofs** (any finite set of transactions, any Pings, callers, goroutines and
instances; the one assumption is `TxsAssumption`). First the manager.
`ActiveTxCountsLive` is inductive with the types,
once it is known which transactions' Once has fired (`FiredInv`). That no
transaction is live under a closed pool needs more: the waiter is past
`activeTx.Wait` only with a zero counter and with `closed` set, after which BeginTx
adds nothing, so that the counter stays zero (`DrainInv`), and what each stage
implies of `closed`, waiter, scraper and closer (`StageInv`). The verdicts need
that `shutdownErr` is written once, with the stage (`VerdictInv`). `IInv` is the
conjunction of these; one lemma per conjunct shows that each action keeps it. From
it follow the type invariant, the safety invariants of the run and
`ClosedPoolHasNoLiveTx`, the action property `NoAddAfterWait`, and the refinement
`DrainsThenCloses`, step by step under the mapping of `Pool`.

Then Do. Every step of it is a step of the manager or leaves the manager alone
(`UowImplementsManager`), so the manager's theorems hold of it. `UowInv` adds to
`IInv` what the place of a Do says about its transaction and about what it will
return (`CallInv`), that the guards are exactly those of the calls inside, one for an
instance and a goroutine (`GuardInv`), and that a goroutine's stack holds each of its
calls once, all but the innermost in the user's function (`StackInv`): without the last
one a nested call could return before the one that called it. Proved: `OutcomeIsTrue`,
`GuardIsExact`, `CloseSparesDo` and `DrainsThenCloses`.

### RabbitMQ

**RabbitConsumer_proofs** (any number of generations, any prefetch count, both kinds of
consumer; `RabbitAssumption`, `ConsumerAssumption`). The connection manager: the goroutine that
reconnects is the one the flag speaks of (`ReconInv`), a watcher watches what it was started
for (`WatchInv`), the connections dialled are those up to the current one and the one
that waits to be installed (`LinkInv`), whose pool is open from its dial until it is
replaced (`PoolInv`). Proved of it: `OneReconnect`, `PoolIsCurrent`, and that it
implements RabbitLink. A consumer changes nothing the manager's invariant speaks of but
asks for reconnects, so both hold under a consumer too; `ReturnsIdle` needs in
addition that only a Consume that has not returned has deliveries in hand (`HeldInv`).

**RabbitDelivery_proofs** (any messages in any order, workers, retries, timeouts and
generations; `DeliveryAssumption`, `LinkAssumption`). `OkMeansAccepted` and `NothingLost`
depend on confirms that do not say what they confirm. The argument: two goroutines are never
both between send and confirm (`LockInv`); so as long as no publish has timed out a
channel has at most one message or confirm, of who holds its lock (`OrderInv`), and
nobody takes another's. From the moment of a timeout on, what matters is only who was
misled. `CallInv` ties a worker's republish to its delivery, one retry higher. A message
that is rejected finds a queue because deliveries begin only once the topology is declared
whole (`DeclInv`). What the broker took is at every moment waiting or in hand with the same
retry count or a higher one, or settled (`SafeInv`), and only what was accepted is
acknowledged (`AckInv`). The theorem is about all five ways to set a topology up; the run
has one of them.

### Kafka

**KafkaConsumer_proofs** (any number of messages and of handlers of each, any workers,
retries, starts and crashes; `KafkaAssumption`). What a goroutine's place says of its message
(`GoodJob` for each, `JobsInv`): the handlers before the present one are settled unless
something failed, and a goroutine about to commit has nothing failed. `LoopInv` says where the
reader stands: in the mode with one goroutine everything before it is settled or given up,
but for the message in hand. Proved: the types, `CommitsOnlySettled`, `SkipsOnlyGivenUp`,
`CloseWaits`, `PanicsOnlyAfterTimeout`.

### Workers and events

**WorkerManager_proofs** (any jobs, consumers, callers and tick bound;
`SchedulerAssumption`). `NoSelfOverlap` needs the flag tied to the ticks: up while one
runs, and no two of one job run (`FlagInv`). `StopLeavesNothing` needs what the
scheduler's place says about the ticks (`SchedInv`), that one Stop at most works and
what it has seen stays so (`StopInv`). Proved: type invariant, both safety
invariants, and the refinement `SchedulerDrains`.

**EventDispatcher_proofs** (any handlers and dispatches, any bound on the changes;
`DispatcherAssumption`). `DispatchInOrder` is about what stays registered while a dispatch
runs over its copy, so the invariant relates the copy to the history of registrations:
the handlers stand in the order of theirs (`RegisteredInv`), what was called is the front
of the copy (`CalledInv`), and the copy has every handler that is still registered since
before the dispatch began, in order and once (`CopyInv`). A change can take a handler from
that set and never add one, because a new registration is later than every begun dispatch
(`ChangeKeepsCopies`). Proved: the invariant, with the types, and `DispatchInOrder`, of the
dispatcher's own specification.

### HTTP servers

**HttpServer_proofs** (any finite set of requests, any number of provider steps, any kinds of
server; the three callers are distinct, `HttpAssumption`). `RequestInv` is about one request
and is kept by what the others do: which of its goroutines are at work at all (`RestInv`, and
`FiberInv` for the server that has one), which places of two of them go together
(`PlacesInv`), what the place of a goroutine says of its layer's writer
(`WritersInv`), and that who answers for a timeout has an untouched response before it
(`AnswerInv`, `TimeoutInv`). `OnceInv` is about the callers of Shutdown, one of which is in
the body of `sync.Once`, `ProviderInv` about the coordinator that one of them leads.
`LeaksBounds`: the goroutines left behind are no more than the requests nobody waits for any
more, a set that only grows.

### The other components

**Services_proofs** (every constant of the components; their assumptions `KafkaClientAssumption`,
`ChannelsAssumption`, `ProducerAssumption`, `HttpClientAssumption`, `HealthAssumption`,
`TelemetryAssumption`, `SettingsAssumption`,
`SetupAssumption`, `ProviderStartAssumption`, `MigratorAssumption`,
`MessageTraceAssumption`, `ValuesAssumption`: sorts of the constants, and that a null value
is no real one).
`ServicesInv` has a part for each component, about the steps of that component only:

- Kafka client, `KafkaInv`: who has just dialled has put a connection there (`SeatsInv`); one
  that nothing replaced is the current one or came after Close (`OpenInv`), and who brought
  such a late one does not dial again (`LateInv`).
- RabbitMQ channels, `ChannelsInv`: channels are numbered as they are opened
  (`NumbersInv`), an entry of the pool is the channel of its queue (`KeptInv`), an open one
  has a user that has not let it go (`SharedInv`), and a lost one was closed by somebody
  who may (`LostInv`).
- Kafka producer, `ProducerInv`: what is stored against the attempts made. HTTP client,
  `ClientInv`: the log against the attempt under way (`LogInv`), the one answer that is open
  (`OpenAnswerInv`), what hook and span were told (`ToldInv`).
- Health checks, `HealthInv`; database telemetry, `TelemetryInv`: a statement's span
  (`StatementInv`), and sums that are the pool's numbers (`ScraperInv`).
- Start of the manager, `StartInv`: what each step of the start has behind it, and
  what of the caller's configuration is still there. Start of the provider, `OtelInv`: which
  signals were made at each stage.
- Migrator, `MigratorInv`: a goroutine is asked to stop only when nobody waits for its
  result (`SidesInv`); the lock is held by exactly the goroutine that is connected and past
  it (`LockHeldInv`); what that one knows of the version table is so, because nobody
  else writes it (`HolderInv`, `AppliedInv`).
- Traces of messages, `TraceInv`: which spans are open follows from where the message is
  (`LegInv`), a span's parent is what the message carried (`TreeInv`), and what was counted is
  what happened, as far as each broker keeps it (`CountInv`, `RanInv`). That Kafka's
  consumer tries a handler again inside one consumption changes no span (`TriesKeep`), and
  what a cause is counted under is a lemma of its own (`CauseTold`).
- Value objects: an overflow check made by division before a product is about the
  product itself (`QuotientAbove`, `ProductAbove`), so that `ArithmeticIsExact` holds for
  every limit, the code's 2^53 among them: no value is returned but the exact one, and
  one that is meant is missing for the `Unserved` alone.

Proved from it: `OneResponse`, `ShutdownIsFinal`, `ReportsAreTrue`, `StartsAreWhole`,
`AttemptsAreCounted`, of `ServicesSpec`, and of `ValuesAreRight` the part `ArithmeticIsExact`.

The types do not follow from `ServicesInv`, which says what the properties need and leaves
counters in Nat. `TypesInv` is inductive next to it and has:

- bounds of counters: leaked goroutines (`LeaksBounds`), slots (`HealthBounds`), attempts
  (`ClientBounds`: past its validation a call asks for at most `MaxRetryAttempts`;
  `ProducerBounds`), rows and scrapes (`TelemetryBounds`), the configuration a start has
  resolved (`StartBounds`);
- `TraceBounds`: a message is delivered again, and a handler tried, only while retries are
  left (`DeliveredInv`), and a
  parent is older than its span, which needs that the carried span exists (`ParentsInv`);
- `MigratorBounds`: a goroutine of Up has run at most as many migrations as the version says, while
  it holds the lock; without the lock the version says nothing of what it ran, so the bound on
  that is a part of its own;
- the event dispatcher's `IInv`;
- `SettingsBounds`, and `UsableInv`: each field holds what the last accepted option about it
  gave, or the default, and each option appended to the history either becomes the last of its
  kind or leaves who was (`HasLast`, `LastOf`).

Proved from both: `ServicesTypeOK`, `DispatchInOrder`, and of `ValuesAreRight` the settings
(`SettingsAreUsable`).

### What is only model-checked

- Liveness: the provers have neither fairness nor ENABLED. So `ShutdownReturnsIfPingsDo`,
  `MessagesSettle`, `EventuallySettled`, `StopTerminates`, `ServicesReturn` and those of
  `rabbit_consumer`: `WatchedDropIsRepaired`, `CloseEndsReconnect`, `SingleRecovers`,
  `ClosedStaysQuiet`.
- Of `ValuesAreRight` two parts. `WaitsAreBounded` compares doublings that are written as a
  recursive function with powers of two, `ListsAreKept` folds with comprehensions: both are
  induction over data.

The state constraints are in the guards (`MaxGen`, `MaxStarts`,
`MaxCrashes`, `N`, `MaxRuns`, `Prefetch`, `MaxTimeouts`, `MaxDials`, `MaxChanges`, `MaxChannels`,
`MaxRows`, `MaxScrapes`, `MaxOptions`), never in a configuration.

## 6. Abstractions

- The driver's pool has no size, so a Do that waits for a connection it holds
  itself is not seen. DBTX and the queries on it leave no trace in the manager.
- Errors are classes, messages are offsets or names, time is an event that may come
  at any moment.
- `amqp091-go`: closing a connection or its pool closes the channel of deliveries
  after what is buffered; NotifyClose on a closed connection closes its channel at
  once. With autoAck the broker ignores the prefetch count; the model has it off.
- `kafka-go`: a commit sets the group's offset to its own plus one, whatever was
  committed before. Rebalances are not modelled: one consumer has the partition.
- `robfig/cron`: Stop lets no tick start and waits for the goroutines of started ones.
- `golang-migrate`: takes the lock, marks the version dirty, runs a migration, marks it
  clean; a stop token is looked at between two migrations, and a stopped run is no error.
- net/http: Shutdown waits for the requests that are being served and not for goroutines
  that handlers leave behind; a redirect would be another RoundTrip.
- OpenTelemetry: exporters are made or fail; a span that has ended ignores the rest.

## 7. Not modelled, and why

- Worker consumer adapters and registry: filled before the start, only read afterwards.
- fake, noop and mocks: for tests. logger, tracer and meter of `observability/otel`:
  they pass each call on to OpenTelemetry after converting fields.
- Parsing and formatting of values (floats, JSON, SQL), nullable types, encryption,
  problem documents, headers of security and CORS: one conversion each, without state.
- `src/scripts`: build tooling.

## 8. Plan

In order of weight.

1. Done: DrainThenClose, DBManager, UnitOfWork, RabbitLink, RabbitConnection,
   RabbitConsumer, RabbitDelivery, KafkaConsumer, Scheduler, WorkerManager, Shutdowns, Services with
   its fourteen components; the proofs named in section 5.
2. Left to TLC: liveness, and the recursive part of `ValuesAreRight` (section 5).
