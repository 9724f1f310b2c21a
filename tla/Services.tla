------------------------------ MODULE Services ------------------------------
(***************************************************************************)
(* The components that are used one at a time and share nothing: each is   *)
(* what a program under way is about, the subject, and the others rest in  *)
(* their initial states.  A component's module says how it behaves; here   *)
(* is what all of them together promise the program.                       *)
(***************************************************************************)
EXTENDS HttpServer, HealthChecks, HttpClient, KafkaClient, KafkaProducer, MessageTrace,
        EventDispatcher, ManagerStart, Migrator, DatabaseTelemetry, Values, Settings,
        ProviderStart, ConsumerChannels

CONSTANT Subjects  \* what a program may be about

ASSUME ServicesAssumption ==
    Subjects \subseteq {"http", "health", "client", "kafka", "producer", "trace", "dispatcher",
                        "start", "migrator", "telemetry", "values", "settings", "provider",
                 "channels"}

VARIABLE subject

web == <<httpVars, healthVars, clientVars>>
messaging == <<kafkaVars, producerVars, traceVars, channelVars>>
data == <<startVars, migratorVars, telemetryVars>>
common == <<dispatcherVars, valuesVars, settingsVars, providerVars>>

servicesVars == <<subject, web, messaging, data, common>>

Some(S) == CHOOSE x \in S : TRUE

ServicesInit ==
    /\ subject \in Subjects
    /\ IF subject = "http" THEN HttpInit ELSE HttpStart(Some(ServerKinds))
    /\ IF subject = "health" THEN HealthInit ELSE HealthStart("live")
    /\ IF subject = "client" THEN ClientInit ELSE ClientStart(Some(Calls))
    /\ KafkaInit
    /\ IF subject = "producer" THEN ProducerInit ELSE ProducerStart(Some(Productions))
    /\ IF subject = "trace" THEN JourneyInit ELSE JourneyStart(Some(Journeys))
    /\ ChannelsInit /\ DispatcherInit
    /\ IF subject = "start" THEN StartInit ELSE ManagerStarts(Some(Setups))
    /\ MigratorInit
    /\ IF subject = "telemetry" THEN TelemetryInit ELSE StatementStart("exec")
    /\ IF subject = "values" THEN ValuesInit ELSE CalculationStart(Some(Calculations))
    /\ IF subject = "settings" THEN SettingsInit ELSE SettingsStart(Some(Libraries))
    /\ IF subject = "provider" THEN OtelInit ELSE OtelStart(Some(OtelConfigs))

(* A component that is not the subject rests: it is looked at only when it *)
(* is.                                                                     *)
Of(s, P) == subject = s => P

ServicesTypeOK ==
    /\ subject \in Subjects
    /\ Of("http", HttpTypeOK) /\ Of("health", HealthTypeOK) /\ Of("client", ClientTypeOK)
    /\ Of("kafka", KafkaTypeOK) /\ Of("producer", ProducerTypeOK) /\ Of("trace", TraceTypeOK)
    /\ Of("start", StartTypeOK) /\ Of("migrator", MigratorTypeOK)
    /\ Of("telemetry", DatabaseTelemetryTypeOK) /\ Of("dispatcher", DispatcherTypeOK)
    /\ Of("settings", SettingsTypeOK) /\ Of("provider", OtelTypeOK)
    /\ Of("channels", ChannelsTypeOK)
-----------------------------------------------------------------------------
Web ==
    \/ subject = "http" /\ HttpNext /\ UNCHANGED <<healthVars, clientVars>>
    \/ subject = "health" /\ HealthNext /\ UNCHANGED <<httpVars, clientVars>>
    \/ subject = "client" /\ ClientNext /\ UNCHANGED <<httpVars, healthVars>>

Messaging ==
    \/ subject = "kafka" /\ KafkaNext
       /\ UNCHANGED <<producerVars, traceVars, channelVars>>
    \/ subject = "producer" /\ ProducerNext
       /\ UNCHANGED <<kafkaVars, traceVars, channelVars>>
    \/ subject = "trace" /\ JourneyNext
       /\ UNCHANGED <<kafkaVars, producerVars, channelVars>>
    \/ subject = "channels" /\ ChannelsNext
       /\ UNCHANGED <<kafkaVars, producerVars, traceVars>>

Data ==
    \/ subject = "start" /\ StartNext /\ UNCHANGED <<migratorVars, telemetryVars>>
    \/ subject = "migrator" /\ MigratorNext /\ UNCHANGED <<startVars, telemetryVars>>
    \/ subject = "telemetry" /\ TelemetryNext /\ UNCHANGED <<startVars, migratorVars>>

Common ==
    \/ subject = "dispatcher" /\ DispatcherNext
       /\ UNCHANGED <<valuesVars, settingsVars, providerVars>>
    \/ subject = "values" /\ Calculate
       /\ UNCHANGED <<dispatcherVars, settingsVars, providerVars>>
    \/ subject = "settings" /\ SettingsNext
       /\ UNCHANGED <<dispatcherVars, valuesVars, providerVars>>
    \/ subject = "provider" /\ OtelNext
       /\ UNCHANGED <<dispatcherVars, valuesVars, settingsVars>>

ServicesNext ==
    \/ Web /\ UNCHANGED <<subject, messaging, data, common>>
    \/ Messaging /\ UNCHANGED <<subject, web, data, common>>
    \/ Data /\ UNCHANGED <<subject, web, messaging, common>>
    \/ Common /\ UNCHANGED <<subject, web, messaging, data>>

(* What the components' own specifications require of their schedulers.    *)
ServicesSpec ==
    /\ ServicesInit /\ [][ServicesNext]_servicesVars
    /\ WF_httpVars(subject = "http" /\ HttpProgress)
    /\ WF_healthVars(subject = "health" /\ HealthNext)
    /\ WF_clientVars(subject = "client" /\ ClientNext)
    /\ WF_kafkaVars(subject = "kafka" /\ KafkaProgress)
    /\ WF_producerVars(subject = "producer" /\ ProducerNext)
    /\ \A c \in CallNames : WF_migratorVars(subject = "migrator" /\ CallStep(c))
-----------------------------------------------------------------------------
(* Whoever is told what happened is told what did: the span and the        *)
(* metrics of a request, of a call, of a message and of a statement, and   *)
(* the load balancer that asks whether the process is healthy              *)
(* (chi_server/middleware.go, common/health.go, httpclient/observable.go,  *)
(* kafka/otel.go, rabbitmq/otel.go, manager/instrumentation.go).           *)
ReportsAreTrue ==
    /\ Of("http", TelemetryIsTrue) /\ Of("health", HealthIsTrue) /\ Of("client", CallIsReported)
    /\ Of("trace", TracesAreTrue) /\ Of("telemetry", StatementsAreTold)

(* What a start promises holds of all it made, whether it succeeds or not: *)
(* the database manager's, a migration's, and the provider's               *)
(* (manager.go:57-137, migrator.go:101-199, otel/runtime.go:34-104).       *)
StartsAreWhole ==
    /\ Of("start", FailedStartLeavesNothing) /\ Of("migrator", MigrationIsTrue)
    /\ Of("provider", ProviderIsWhole)

(* A shutdown that returned is over: of an HTTP server with its provider,  *)
(* of a Kafka client with its worker, and of a RabbitMQ pool with the      *)
(* channels of its consumers (lifecycle.go, otel/shutdown.go,              *)
(* kafka/client.go:254-375, rabbitmq/channel_pool.go:109-241).             *)
ShutdownIsFinal ==
    /\ Of("http", StopIsTrue) /\ Of("kafka", CloseIsFinal)
    /\ Of("channels", ChannelsAreReleased)

(* An attempt is never made, nor a body consumed, that the result does not *)
(* account for (httpclient/transport_retry.go, kafka/new_producer.go).     *)
AttemptsAreCounted == Of("client", CallIsAccounted) /\ Of("producer", PublishIsTrue)

(* A computation, of an amount, of a wait or of a configuration, comes out *)
(* as it is meant, but for the inputs that ArithmeticIsExact and           *)
(* WaitsAreBounded except by name (pkg/vos, pkg/linq, the options of the   *)
(* libraries).                                                             *)
ValuesAreRight == Of("values", ResultsAreRight) /\ Of("settings", SettingsAreUsable)

Waiting ==
    \/ subject = "http" /\ HttpWaits
    \/ subject = "health" /\ ProbeWaits
    \/ subject = "client" /\ CallWaits
    \/ subject = "kafka" /\ KafkaWaits
    \/ subject = "producer" /\ PublishWaits
    \/ subject = "migrator" /\ MigrationWaits

(* Nobody waits for ever: a request with a deadline is answered, a probe   *)
(* and a call too, a shutdown, a close, a publish and a migration return.  *)
(* Each of them happens once, so that somebody who waits for ever is one   *)
(* who waits from some moment on (the fairness is that of the components). *)
ServicesReturn == []<>~Waiting
=============================================================================
