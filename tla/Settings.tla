------------------------------ MODULE Settings ------------------------------
(***************************************************************************)
(* Functional options: how the Kafka client, the RabbitMQ client and the   *)
(* HTTP servers come by their configuration (options.go and config.go of   *)
(* pkg/messaging/kafka, pkg/messaging/rabbitmq and pkg/http_server).       *)
(* Options are applied one by one, in the caller's order, to the defaults; *)
(* some look at their value, some do not, some overwrite what others set.  *)
(* Durations are in seconds (Kafka's consumerMaxWait in halves of one).    *)
(***************************************************************************)
EXTENDS Integers, Sequences, SequencesExt

CONSTANTS Libraries,    \* among "kafka", "rabbitmq" and "http"
          Numbers,      \* the numbers options are given
          MaxOptions    \* bound: how many options are given

ASSUME SettingsAssumption ==
    /\ Libraries \subseteq {"kafka", "rabbitmq", "http"}
    /\ Numbers \subseteq Int /\ MaxOptions \in Nat

VARIABLES
    library,   \* whose client is made
    options,   \* history: the options so far
    settings,  \* the configuration so far
    client     \* "none", "made", or why it was refused

settingsVars == <<library, options, settings, client>>

Defaults ==
    [kafka |-> [dialTimeout |-> 10, connectTimeout |-> 30, maxRetries |-> 3,
                retryBackoff |-> 2, maxRetryBackoff |-> 30, healthCheckTimeout |-> 5,
                reconnectInterval |-> 5, maxReconnectDelay |-> 120,
                producerBatchSize |-> 100, producerBatchTimeout |-> 1,
                producerMaxAttempts |-> 3, producerCompression |-> 0,
                producerRequiredAcks |-> -1, consumerMinBytes |-> 1000,
                consumerMaxBytes |-> 10000000, consumerCommitInterval |-> 1,
                consumerStartOffset |-> -1, consumerMaxWait |-> 1,
                dlqMaxRetries |-> 3, dlqRetryBackoff |-> 2, dlqMaxRetryBackoff |-> 30],
     rabbitmq |-> [Heartbeat |-> 10, ConnectionTimeout |-> 30, PublishTimeout |-> 5,
                   ReconnectTimeout |-> 300, ReconnectInitialInterval |-> 1,
                   ReconnectMaxInterval |-> 30, DefaultPrefetchCount |-> 10, MaxRetries |-> 3],
     http |-> [ReadTimeout |-> 30, WriteTimeout |-> 30, IdleTimeout |-> 120,
               ShutdownTimeout |-> 30, BodyLimit |-> 4194304]]

(* The values a Kafka option takes; one that is out of range is ignored.   *)
NonNegative == {"maxRetries", "consumerCommitInterval", "dlqMaxRetries"}
Unchecked == {"producerRequiredAcks", "consumerStartOffset"}

InRange(field, n) ==
    \/ field \in Unchecked
    \/ field \in NonNegative /\ n >= 0
    \/ field = "producerCompression" /\ n \in 0 .. 4
    \/ field \notin Unchecked \cup NonNegative \cup {"producerCompression"} /\ n > 0

(* RabbitMQ's fields that have an option; MaxRetries has none, and the     *)
(* three of WithReconnectConfig are set at once.                           *)
Reconnects == {"ReconnectTimeout", "ReconnectInitialInterval", "ReconnectMaxInterval"}

StrategiesOf(l) ==
    CASE l = "kafka" -> {"PLAINTEXT", "PLAIN", "SCRAM", "CONFLUENT"}
      [] l = "rabbitmq" -> {"plain", "tls", "cloud", "none"}
      [] OTHER -> {}

(* What a list of CORS origins may be, and what ParseOrigins makes of it.  *)
Origins == [blank |-> {}, comma |-> {}, star |-> {"*"}, one |-> {"a"}, two |-> {"a", "b"},
            starred |-> {"*", "a"}]

Options(l) ==
    LET Numbered(fields) == [option : {"number"}, field : fields, value : Numbers] IN
    CASE l = "kafka" ->
             Numbered(DOMAIN Defaults.kafka)
             \cup [option : {"strategy"}, value : StrategiesOf(l)]
             \cup [option : {"skipVerify", "dlqEnabled", "dlqTopic", "brokers"}, on : BOOLEAN]
      [] l = "rabbitmq" ->
             Numbered(DOMAIN Defaults.rabbitmq \ (Reconnects \cup {"MaxRetries"}))
             \cup [option : {"reconnect"}, values : [Reconnects -> Numbers \cap {0, 1, 5}]]
             \cup [option : {"strategy"}, value : StrategiesOf(l)]
             \cup [option : {"config"}, value : {"zero", "retriesBelowZero"}]
             \cup [option : {"name"}, on : BOOLEAN]
      [] OTHER ->
             Numbered(DOMAIN Defaults.http)
             \cup [option : {"cors"}, value : DOMAIN Origins]
             \cup [option : {"name"}, on : BOOLEAN]

Fresh(l) ==
    [numbers |-> Defaults[l], named |-> TRUE, brokers |-> FALSE, cors |-> "off",
     strategy |-> IF l = "kafka" THEN "CONFLUENT" ELSE "none",
     skipVerify |-> FALSE, dlq |-> FALSE]

SettingsStart(l) ==
    /\ library = l /\ options = << >> /\ settings = Fresh(l) /\ client = "none"

SettingsInit == \E l \in Libraries : SettingsStart(l)

SettingsTypeOK ==
    /\ library \in Libraries /\ options \in Seq(Options(library))
    /\ settings \in [numbers : [DOMAIN Defaults[library] -> Int], named : BOOLEAN,
                     brokers : BOOLEAN, cors : DOMAIN Origins \cup {"off"},
                     strategy : StrategiesOf(library) \cup {"none"},
                     skipVerify : BOOLEAN, dlq : BOOLEAN]
    /\ client \in {"none", "made", "invalid", "noBrokers", "noStrategy"}
-----------------------------------------------------------------------------
(* WithX(n): Kafka's options drop what is out of range, the others take    *)
(* whatever they are given.                                                *)
WithNumber(s, o) ==
    IF library = "kafka" /\ ~InRange(o.field, o.value) THEN s
    ELSE [s EXCEPT !.numbers[o.field] = o.value]

(* Kafka's WithAuthX brings a configuration of its own: what               *)
(* WithInsecureSkipVerify had set in the one before is gone.               *)
WithStrategy(s, o) ==
    IF library = "kafka" THEN [s EXCEPT !.strategy = o.value, !.skipVerify = FALSE]
    ELSE [s EXCEPT !.strategy = o.value]

WithReconnectConfig(s, o) ==
    [s EXCEPT !.numbers =
        [f \in DOMAIN s.numbers |-> IF f \in Reconnects THEN o.values[f] ELSE s.numbers[f]]]

(* RabbitMQ's WithConfig replaces every field, by a zero one if need be.   *)
WithConfig(s, o) ==
    IF o.value = "zero" THEN [s EXCEPT !.numbers = [f \in DOMAIN s.numbers |-> 0], !.named = FALSE]
    ELSE [s EXCEPT !.numbers = [Defaults.rabbitmq EXCEPT !.MaxRetries = -1], !.named = TRUE]

WithDLQ(s, o) ==
    IF o.option = "dlqTopic" THEN [s EXCEPT !.dlq = @ \/ o.on]
    ELSE [s EXCEPT !.dlq = o.on]

Applied(s, o) ==
    CASE o.option = "number" -> WithNumber(s, o)
      [] o.option = "strategy" -> WithStrategy(s, o)
      [] o.option = "reconnect" -> WithReconnectConfig(s, o)
      [] o.option = "config" -> WithConfig(s, o)
      [] o.option \in {"dlqEnabled", "dlqTopic"} -> WithDLQ(s, o)
      [] o.option = "skipVerify" -> [s EXCEPT !.skipVerify = o.on]
      [] o.option = "brokers" -> [s EXCEPT !.brokers = @ \/ o.on]
      [] o.option = "name" -> [s EXCEPT !.named = o.on]
      [] OTHER -> [s EXCEPT !.cors = o.value]

Give(o) ==
    /\ client = "none" /\ Len(options) < MaxOptions
    /\ options' = Append(options, o)
    /\ settings' = Applied(settings, o)
    /\ UNCHANGED <<library, client>>
-----------------------------------------------------------------------------
(* Mistake: the two intervals are not compared.                            *)
RabbitValidLoosely(s) ==
    /\ s.named /\ s.numbers.DefaultPrefetchCount >= 1 /\ s.numbers.MaxRetries >= 0
    /\ \A f \in DOMAIN s.numbers \ {"DefaultPrefetchCount", "MaxRetries"} : s.numbers[f] > 0

(* Config.Validate of RabbitMQ.                                            *)
RabbitValid(s) ==
    /\ s.named /\ s.numbers.DefaultPrefetchCount >= 1 /\ s.numbers.MaxRetries >= 0
    /\ \A f \in DOMAIN s.numbers \ {"DefaultPrefetchCount", "MaxRetries"} : s.numbers[f] > 0
    /\ s.numbers.ReconnectMaxInterval >= s.numbers.ReconnectInitialInterval

(* ... and of the HTTP servers: a star stands alone; a list of nothing but *)
(* commas passes.                                                          *)
HttpValid(s) ==
    /\ s.named /\ \A f \in DOMAIN s.numbers : s.numbers[f] > 0
    /\ s.cors \notin {"blank", "starred"}

(* New, NewClient: the options have all been applied.                      *)
Make ==
    /\ client = "none"
    /\ client' = CASE library = "kafka" -> IF settings.brokers THEN "made" ELSE "noBrokers"
                   [] library = "rabbitmq" -> IF ~RabbitValid(settings) THEN "invalid"
                                              ELSE IF settings.strategy = "none" THEN "noStrategy"
                                              ELSE "made"
                   [] OTHER -> IF HttpValid(settings) THEN "made" ELSE "invalid"
    /\ UNCHANGED <<library, options, settings>>

SettingsNext == Make \/ \E o \in Options(library) : Give(o)

SettingsSpec == SettingsInit /\ [][SettingsNext]_settingsVars
-----------------------------------------------------------------------------
(* How Kafka's and RabbitMQ's clients connect: over TLS or not, and is the *)
(* certificate looked at (auth/*.go, strategy.go)?                         *)
Dialled ==
    [tls |-> settings.strategy \notin {"PLAINTEXT", "plain"}, verified |-> ~settings.skipVerify]

(* IsOriginAllowed: a star allows everybody, an empty list nobody.         *)
Allowed(origin) == Origins[settings.cors] = {"*"} \/ origin \in Origins[settings.cors]

LastGiven(P(_)) ==
    IF \E i \in 1 .. Len(options) : P(options[i]) THEN options[SelectLastInSeq(options, P)]
    ELSE [option |-> "none"]

(* Whatever the options and their order: a Kafka client never has a number *)
(* outside the range its option checks, and each is the one that was       *)
(* accepted last; it connects without TLS, or without looking at the       *)
(* certificate, only when the last option about that said so; a RabbitMQ   *)
(* client has positive waits of which the first is not above the maximum;  *)
(* and a server with CORS lets a stranger in only for a star, and somebody *)
(* unless its list was of commas alone (kafka/options.go,                  *)
(* client.go:377-388, rabbitmq/config.go:93-143, client.go:70-88,          *)
(* common/config.go:66-109, cors.go:10-70).                                *)
SettingsAreUsable ==
    /\ library = "kafka" =>
           /\ \A f \in DOMAIN settings.numbers :
                  LET o == LastGiven(LAMBDA p : /\ p.option = "number" /\ p.field = f
                                           /\ InRange(f, p.value)) IN
                  settings.numbers[f] = IF o.option = "none" THEN Defaults.kafka[f] ELSE o.value
           /\ ~Dialled.tls => LastGiven(LAMBDA p : p.option = "strategy").value = "PLAINTEXT"
           /\ ~Dialled.verified =>
                  LastGiven(LAMBDA p : p.option \in {"skipVerify", "strategy"})
                      = [option |-> "skipVerify", on |-> TRUE]
    /\ client = "made" /\ library = "rabbitmq" =>
           /\ settings.numbers.ReconnectInitialInterval \in 1 .. settings.numbers.ReconnectMaxInterval
           /\ settings.numbers.Heartbeat > 0 /\ settings.numbers.DefaultPrefetchCount > 0
           /\ ~Dialled.tls => LastGiven(LAMBDA p : p.option = "strategy").value = "plain"
    /\ client = "made" /\ library = "http" /\ settings.cors # "off" =>
           /\ Allowed("stranger") = (settings.cors = "star")
           /\ (\E origin \in {"a", "b"} : Allowed(origin)) = (settings.cors # "comma")
           /\ \A f \in DOMAIN settings.numbers : settings.numbers[f] > 0
=============================================================================
