---------------------------- MODULE ProviderStart ---------------------------
(***************************************************************************)
(* Starting the OpenTelemetry provider (pkg/observability/otel, config.go  *)
(* and runtime.go): the configuration is checked, then a tracer, a meter   *)
(* and a logger provider are made, each over an exporter of its own, and   *)
(* each is registered for the shutdown as it is made.  How the shutdown    *)
(* runs is modelled in HttpServer, whose servers call it.                  *)
(***************************************************************************)
EXTENDS Naturals, Sequences, FiniteSets, SequencesExt

CONSTANT OtelConfigs  \* what callers pass

(* Rates are in tenths; a TLS version is 0 when there is none, 10 for 1.0. *)
ASSUME ProviderStartAssumption ==
    OtelConfigs \subseteq [given : BOOLEAN, named : BOOLEAN, endpoint : BOOLEAN,
                           rate : 0 .. 11, protocol : {"grpc", "http", "HTTP/protobuf", "", "tcp"},
                           insecure : BOOLEAN, tls : {"none", "unset", "1.0", "1.2"},
                           global : BOOLEAN]

VARIABLES
    otelConfig,  \* the caller's
    providerAt,  \* what is next: "check", "resource", a signal, "started", "failed"
    signals,     \* for each provider made: its exporter
    steps,       \* the coordinator's, in the order they were registered
    globals      \* what was made global

providerVars == <<otelConfig, providerAt, signals, steps, globals>>

Signals == <<"tracer", "meter", "logger">>

Exporters == [http : BOOLEAN, secure : {"insecure", "given", "system"}]

OtelStart(c) ==
    /\ otelConfig = c /\ providerAt = "check"
    /\ signals = [s \in {} |-> {}] /\ steps = << >> /\ globals = {}

OtelInit == \E c \in OtelConfigs : OtelStart(c)

OtelTypeOK ==
    /\ otelConfig \in OtelConfigs
    /\ providerAt \in {"check", "resource", "started", "failed"} \cup Range(Signals)
    /\ DOMAIN signals \subseteq Range(Signals) /\ \A s \in DOMAIN signals : signals[s] \in Exporters
    /\ steps \in Seq(Range(Signals)) /\ globals \subseteq {"tracer", "meter", "propagator"}
-----------------------------------------------------------------------------
(* validateConfig and validateSecurityConfig; a TLS configuration that     *)
(* leaves its minimum to the library is accepted.                          *)
OtelConfigValid ==
    /\ otelConfig.given /\ otelConfig.named /\ otelConfig.endpoint
    /\ otelConfig.rate <= 10 /\ otelConfig.tls # "1.0"

CheckOtelConfig ==
    /\ providerAt = "check"
    /\ providerAt' = IF OtelConfigValid THEN "resource" ELSE "failed"
    /\ UNCHANGED <<otelConfig, signals, steps, globals>>

(* createResource fails on its attributes, or when its context is done.    *)
CreateResource(fails) ==
    /\ providerAt = "resource"
    /\ providerAt' = IF fails THEN "failed" ELSE Signals[1]
    /\ UNCHANGED <<otelConfig, signals, steps, globals>>

(* normalizeProtocol, and createXExporter: WithInsecure comes before TLS.  *)
Exporter ==
    [http |-> otelConfig.protocol \in {"http", "HTTP/protobuf"},
     secure |-> CASE otelConfig.insecure -> "insecure"
                  [] ~otelConfig.insecure /\ otelConfig.tls # "none" -> "given"
                  [] OTHER -> "system"]

(* A provider is made, made global (not the logger's), and the steps of    *)
(* the shutdown are as given.  After the last one the propagator is made   *)
(* global too, and the components are built.                               *)
Provide(s, registered) ==
    /\ providerAt = s
    /\ signals' = [x \in DOMAIN signals \cup {s} |-> IF x = s THEN Exporter ELSE signals[x]]
    /\ steps' = registered
    /\ globals' = IF ~otelConfig.global THEN globals
                  ELSE globals \cup IF s = "logger" THEN {"propagator"} ELSE {s}
    /\ providerAt' = IF s = "logger" THEN "started" ELSE Signals[Cardinality(DOMAIN signals) + 2]
    /\ UNCHANGED otelConfig

(* Mistake: the provider before is registered, not this one.               *)
InitProviderLate(s) == Provide(s, SubSeq(Signals, 1, Cardinality(DOMAIN signals)))

(* initTracerProvider, initMeterProvider, initLoggerProvider.              *)
InitProvider(s) == Provide(s, Append(steps, s))

(* The exporter cannot be made: New returns, and nobody has a provider to  *)
(* shut down what was made before; it stays global if it was made so.      *)
InitProviderFails(s) ==
    /\ providerAt = s
    /\ providerAt' = "failed"
    /\ UNCHANGED <<otelConfig, signals, steps, globals>>

OtelNext ==
    \/ CheckOtelConfig
    \/ \E fails \in BOOLEAN : CreateResource(fails)
    \/ \E s \in Range(Signals) : InitProvider(s) \/ InitProviderFails(s)

OtelSpec == OtelInit /\ [][OtelNext]_providerVars
-----------------------------------------------------------------------------
(* At every moment what was made is what a shutdown would stop, tracer     *)
(* first, so nothing that was started escapes it; a provider that started  *)
(* has all three, over one protocol and one kind of connection, in the     *)
(* clear only when its caller asked; and a start that failed on its        *)
(* configuration or its resource has left nothing behind (config.go:94-208,*)
(* runtime.go:34-104).                                                     *)
ProviderIsWhole ==
    /\ Range(steps) = DOMAIN signals /\ IsPrefix(steps, Signals)
    /\ providerAt = "started" =>
           /\ steps = Signals /\ OtelConfigValid
           /\ \A s, t \in DOMAIN signals : signals[s] = signals[t]
           /\ signals["tracer"].secure = "insecure" => otelConfig.insecure
           /\ globals = IF otelConfig.global THEN {"tracer", "meter", "propagator"} ELSE {}
    /\ globals \ {"propagator"} \subseteq DOMAIN signals
    /\ ~OtelConfigValid => signals = [s \in {} |-> {}]
=============================================================================
