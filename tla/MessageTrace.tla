----------------------------- MODULE MessageTrace -----------------------------
(***************************************************************************)
(* The telemetry of a message from its publisher to its handlers: otel.go  *)
(* and otel_propagation.go of pkg/messaging/kafka and of                   *)
(* pkg/messaging/rabbitmq, with the places that call them.  What a publish *)
(* or a handler does is not decided here: any of them may succeed or fail. *)
(***************************************************************************)
EXTENDS Naturals, Sequences, FiniteSets

CONSTANTS Journeys,       \* who is traced, and how
          KafkaHandlers,  \* handlers registered for the event
          KafkaTries,     \* dlqConfig.MaxRetries of Kafka's consumer
          TraceRetries    \* RabbitMQ's MaxRetries

ASSUME MessageTraceAssumption ==
    /\ KafkaHandlers \in Nat \ {0} /\ KafkaTries \in Nat /\ TraceRetries \in Nat
    /\ Journeys \subseteq
         [broker : {"kafka", "rabbitmq"},
          publisher : BOOLEAN, consumer : BOOLEAN,  \* is it traced?
          propagator : BOOLEAN,  \* is a global propagator configured?
          headers : BOOLEAN,     \* Kafka: did the caller pass a map?
          dlq : BOOLEAN,         \* Kafka: is the DLQ enabled?
          autoAck : BOOLEAN]     \* RabbitMQ

VARIABLES
    journey,  \* the configuration
    leg,      \* where the message is; deliveries, handlers, tries, errors
    carried,  \* the span in the message's headers; 0 is none
    spans,    \* the spans, in the order they were started
    meters,   \* what the counters and histograms have
    facts     \* history: what happened, and the error type a publish was counted under

traceVars == <<journey, leg, carried, spans, meters, facts>>

MeterNames == {"published", "publishErrors", "publishDuration", "consumed",
               "consumeDuration", "handlerDuration", "dlq", "retries"}
Causes == {"none", "writeFailed", "clientClosed", "channelClosed", "confirmTimeout", "nacked",
           "deadline", "canceled"}

TraceTypeOK ==
    /\ journey \in Journeys
    /\ leg.at \in {"publish", "publishing", "wire", "consume", "retry", "handle", "over"}
    /\ leg.delivered \in 0 .. TraceRetries + 1
    /\ leg.run \in 0 .. KafkaHandlers /\ leg.tries \in 0 .. KafkaTries
    /\ carried \in 0 .. Len(spans)
    /\ \A i \in 1 .. Len(spans) :
           /\ spans[i].op \in {"publish", "consume", "handle"}
           /\ spans[i].parent \in 0 .. i - 1
           /\ spans[i].state \in {"open", "ok", "error", "bare"}
    /\ meters \in [MeterNames -> Nat]

JourneyStart(j) ==
    /\ journey = j
    /\ leg = [at |-> "publish", delivered |-> 0, run |-> 0, tries |-> 0,
              failed |-> FALSE, again |-> FALSE]
    /\ carried = 0
    /\ spans = << >>
    /\ meters = [m \in MeterNames |-> 0]
    /\ facts = [sent |-> 0, refused |-> 0, cause |-> "none", errorType |-> "none",
                processed |-> 0, succeeded |-> 0, retried |-> 0, deadLettered |-> 0,
                ran |-> 0]

JourneyInit == \E j \in Journeys : JourneyStart(j)
-----------------------------------------------------------------------------
Kafka == journey.broker = "kafka"

StartSpan(op, parent) == Append(spans, [op |-> op, parent |-> parent, state |-> "open"])
SpanEnded(span, state) == [op |-> span.op, parent |-> span.parent, state |-> state]
EndSpan(i, state) == [spans EXCEPT ![i] = SpanEnded(spans[i], state)]

(* The innermost span that is open.                                        *)
Current == CHOOSE i \in 1 .. Len(spans) :
               /\ spans[i].state = "open"
               /\ \A k \in i + 1 .. Len(spans) : spans[k].state # "open"

Count(names) == [m \in MeterNames |-> meters[m] + (IF m \in names THEN 1 ELSE 0)]

(* Mistake: RabbitMQ's publish does not wrap its cause either.             *)
SeenFlat(cause) == IF cause # "none" THEN "publishFailed" ELSE cause

(* The error that comes out of a publish for its cause: Kafka's wraps its  *)
(* own sentinel and only prints the cause, RabbitMQ's wraps the cause.     *)
Seen(cause) == IF Kafka /\ cause # "none" THEN "publishFailed" ELSE cause

(* classifyError of either broker, on the errors a publish comes out with. *)
ClassifyError(error) ==
    CASE error = "none" -> "none"
      [] error = "deadline" -> "timeout"
      [] error = "canceled" -> "canceled"
      [] error = "publishFailed" -> "publish_failed"
      [] error = "clientClosed" -> "client_closed"
      [] OTHER -> "unknown"

(* Before the broker: InstrumentPublish and InjectTraceContext.  Kafka's   *)
(* carrier is the caller's map, and to store into a nil map is a panic;    *)
(* RabbitMQ's Publish makes a map of its own.                              *)
InjectTraceContext ==
    /\ leg.at = "publish"
    /\ IF ~journey.publisher
       THEN /\ leg' = [leg EXCEPT !.at = "publishing"]
            /\ UNCHANGED <<carried, spans>>
       ELSE IF Kafka /\ journey.propagator /\ ~journey.headers
       THEN /\ leg' = [leg EXCEPT !.at = "over"]
            /\ spans' = Append(spans, [op |-> "publish", parent |-> 0, state |-> "bare"])
            /\ UNCHANGED carried
       ELSE /\ leg' = [leg EXCEPT !.at = "publishing"]
            /\ spans' = StartSpan("publish", 0)
            /\ carried' = IF journey.propagator THEN Len(spans) + 1 ELSE 0
    /\ UNCHANGED <<journey, meters, facts>>

(* The publish returns; the broker may have taken what failed, and lose    *)
(* what was not confirmed.                                                 *)
PublishReturned(cause, arrives) ==
    /\ leg.at = "publishing"
    /\ Kafka => cause \in {"none", "writeFailed", "deadline", "canceled"}
    /\ ~Kafka => cause # "writeFailed"
    /\ leg' = [leg EXCEPT !.at = IF arrives THEN "wire" ELSE "over"]
    /\ facts' = [facts EXCEPT !.sent = @ + (IF cause = "none" THEN 1 ELSE 0),
                              !.refused = @ + (IF cause = "none" THEN 0 ELSE 1),
                              !.cause = cause,
                              !.errorType = IF journey.publisher
                                            THEN ClassifyError(Seen(cause)) ELSE "none"]
    /\ IF journey.publisher
       THEN /\ spans' = EndSpan(Current, IF cause = "none" THEN "ok" ELSE "error")
            /\ meters' = Count({"publishDuration",
                                IF cause = "none" THEN "published" ELSE "publishErrors"})
       ELSE UNCHANGED <<spans, meters>>
    /\ UNCHANGED <<journey, carried>>

(* At the consumer: ExtractTraceContext makes the carried span the parent. *)
ExtractTraceContext ==
    /\ leg.at = "wire"
    /\ leg' = [leg EXCEPT !.at = "consume", !.delivered = @ + 1, !.run = 0, !.tries = 0,
                          !.failed = FALSE, !.again = FALSE]
    /\ spans' = IF journey.consumer
                THEN StartSpan("consume", IF journey.propagator THEN carried ELSE 0)
                ELSE spans
    /\ UNCHANGED <<journey, carried, meters, facts>>

Handlers == IF Kafka THEN KafkaHandlers ELSE 1

(* With its DLQ enabled Kafka's consumer retries a handler in process, and *)
(* traces no call of it.                                                   *)
TriedInProcess == Kafka /\ journey.dlq
HandlersTraced == journey.consumer /\ ~TriedInProcess

CallHandler ==
    /\ leg.at = "consume" /\ ~TriedInProcess /\ leg.run < Handlers
    /\ leg' = [leg EXCEPT !.at = "handle", !.run = @ + 1]
    /\ spans' = IF HandlersTraced THEN StartSpan("handle", Current) ELSE spans
    /\ facts' = [facts EXCEPT !.ran = @ + 1]
    /\ UNCHANGED <<journey, carried, meters>>

(* handleMessageWithRetry: the next handler, and each of its tries.        *)
TakeHandler ==
    /\ leg.at = "consume" /\ TriedInProcess /\ leg.run < Handlers
    /\ leg' = [leg EXCEPT !.at = "retry", !.run = @ + 1, !.tries = 0]
    /\ UNCHANGED <<journey, carried, spans, meters, facts>>

TryHandler ==
    /\ leg.at = "retry" /\ leg.tries < KafkaTries
    /\ leg' = [leg EXCEPT !.at = "handle", !.tries = @ + 1]
    /\ facts' = [facts EXCEPT !.ran = @ + 1,
                              !.retried = @ + (IF leg.tries > 0 THEN 1 ELSE 0)]
    /\ UNCHANGED <<journey, carried, spans, meters>>

(* The context is done: this handler's error, and no handler after it.     *)
RetryCancelled ==
    /\ leg.at = "retry" /\ leg.tries < KafkaTries
    /\ leg' = [leg EXCEPT !.at = "consume", !.run = KafkaHandlers, !.failed = TRUE]
    /\ UNCHANGED <<journey, carried, spans, meters, facts>>

(* sendToDLQ, which is counted nowhere.                                    *)
SendToDLQ(taken) ==
    /\ leg.at = "retry" /\ leg.tries = KafkaTries
    /\ leg' = [leg EXCEPT !.at = "consume", !.failed = TRUE]
    /\ facts' = [facts EXCEPT !.deadLettered = @ + (IF taken THEN 1 ELSE 0)]
    /\ UNCHANGED <<journey, carried, spans, meters>>

(* InstrumentHandler: the handler returns.  RabbitMQ settles the delivery  *)
(* inside the span of the consumption, which a retry or the DLQ counts:    *)
(* the decision, made before the message is published again or rejected.   *)
HandlerReturned(ok) ==
    LET retries == ~Kafka /\ ~ok /\ ~journey.autoAck
        again == retries /\ leg.delivered <= TraceRetries IN
    /\ leg.at = "handle"
    /\ leg' = [leg EXCEPT !.at = IF TriedInProcess /\ ~ok THEN "retry" ELSE "consume",
                          !.failed = @ \/ (~ok /\ ~TriedInProcess), !.again = again]
    /\ spans' = IF HandlersTraced THEN EndSpan(Current, IF ok THEN "ok" ELSE "error") ELSE spans
    /\ meters' = Count((IF HandlersTraced THEN {"handlerDuration"} ELSE {})
                       \cup (IF journey.consumer /\ again THEN {"retries"} ELSE {})
                       \cup (IF journey.consumer /\ retries /\ ~again THEN {"dlq"} ELSE {}))
    /\ facts' = [facts EXCEPT !.retried = @ + (IF again THEN 1 ELSE 0),
                              !.deadLettered = @ + (IF retries /\ ~again THEN 1 ELSE 0)]
    /\ UNCHANGED <<journey, carried>>

(* The deferred End of every span, and nothing is measured; handlePanic of *)
(* Kafka's consumer sends the message to its DLQ where that is enabled.    *)
HandlerPanicked(taken) ==
    /\ leg.at = "handle" /\ (taken => TriedInProcess)
    /\ leg' = [leg EXCEPT !.at = "over"]
    /\ spans' = [i \in DOMAIN spans |->
                    IF spans[i].state = "open" THEN SpanEnded(spans[i], "bare") ELSE spans[i]]
    /\ facts' = [facts EXCEPT !.deadLettered = @ + (IF taken THEN 1 ELSE 0)]
    /\ UNCHANGED <<journey, carried, meters>>

(* Every handler has succeeded.                                            *)
AllSucceeded == leg.run = Handlers /\ ~leg.failed

(* Mistake: the error of the handler is not passed on.                     *)
ConsumeReturnsNil(cancelled) ==
    /\ leg.at = "consume"
    /\ leg.run = Handlers \/ (Kafka /\ cancelled)
    /\ facts' = [facts EXCEPT !.processed = @ + 1,
                              !.succeeded = @ + (IF AllSucceeded THEN 1 ELSE 0)]
    /\ leg' = [leg EXCEPT !.at = IF leg.again THEN "wire" ELSE "over"]
    /\ IF journey.consumer
       THEN spans' = EndSpan(Current, "ok") /\ meters' = Count({"consumeDuration", "consumed"})
       ELSE UNCHANGED <<spans, meters>>
    /\ UNCHANGED <<journey, carried>>

(* InstrumentConsume: Kafka's consumer passes it nil whatever the handlers *)
(* returned, or that the context ended between two of them.  A republished *)
(* message keeps its headers; that it fails to is one more way to be over. *)
ConsumeReturns(cancelled) ==
    LET ok == Kafka \/ ~leg.failed IN
    /\ leg.at = "consume"
    /\ leg.run = Handlers \/ (Kafka /\ cancelled)
    /\ facts' = [facts EXCEPT !.processed = @ + 1,
                              !.succeeded = @ + (IF AllSucceeded THEN 1 ELSE 0)]
    /\ leg' = [leg EXCEPT !.at = IF leg.again /\ ~cancelled THEN "wire" ELSE "over"]
    /\ IF journey.consumer
       THEN /\ spans' = EndSpan(Current, IF ok THEN "ok" ELSE "error")
            /\ meters' = Count({"consumeDuration"} \cup (IF ok THEN {"consumed"} ELSE {}))
       ELSE UNCHANGED <<spans, meters>>
    /\ UNCHANGED <<journey, carried>>

JourneyNext ==
    \/ InjectTraceContext
    \/ \E cause \in Causes, arrives \in BOOLEAN : PublishReturned(cause, arrives)
    \/ ExtractTraceContext \/ CallHandler \/ TakeHandler \/ TryHandler \/ RetryCancelled
    \/ \E taken \in BOOLEAN : SendToDLQ(taken) \/ HandlerPanicked(taken)
    \/ \E ok \in BOOLEAN : HandlerReturned(ok)
    \/ \E cancelled \in BOOLEAN : ConsumeReturns(cancelled)

JourneySpec == JourneyInit /\ [][JourneyNext]_traceVars
-----------------------------------------------------------------------------
OfOp(op) == {i \in 1 .. Len(spans) : spans[i].op = op}

(* A publish is counted by its result, and a failed one under the error    *)
(* type that classifyError documents for its cause.  Kafka's "timeout" and *)
(* "canceled" are never false, but a deadline or a cancellation comes out  *)
(* as "publish_failed" (new_producer.go:93, otel.go:387).                  *)
PublishIsTold ==
    /\ meters["published"] = facts.sent /\ meters["publishErrors"] = facts.refused
    /\ (facts.errorType = "none") = (facts.cause = "none")
    /\ facts.errorType = "timeout" => facts.cause = "deadline"
    /\ facts.errorType = "canceled" => facts.cause = "canceled"
    /\ ~Kafka => /\ facts.cause = "deadline" => facts.errorType = "timeout"
                 /\ facts.cause = "canceled" => facts.errorType = "canceled"
                 /\ facts.cause = "clientClosed" => facts.errorType = "client_closed"

(* A consumption told as processed is one that returned, and none that     *)
(* succeeded is left out; no retry and no dead letter is told that was not *)
(* decided.  RabbitMQ tells exactly those.  Kafka's consumer tells every   *)
(* consumption that returns as processed, failed ones included             *)
(* (new_consumer.go:376-379), and no retry or dead letter at all: nobody   *)
(* calls RecordRetryAttempt or RecordDLQPublish (otel.go:356-382).         *)
ConsumptionIsTold ==
    /\ meters["retries"] <= facts.retried /\ meters["dlq"] <= facts.deadLettered
    /\ facts.succeeded <= meters["consumed"] /\ meters["consumed"] <= facts.processed
    /\ ~Kafka => /\ meters["retries"] = facts.retried
                 /\ meters["dlq"] = facts.deadLettered
                 /\ meters["consumed"] = facts.succeeded

(* A span is ended after those started under it; a consumption is under    *)
(* the publish that sent its message whenever both sides are traced and    *)
(* propagate, at every delivery of it; every traced call of a handler has  *)
(* its span.  What is counted is what happened, as far as PublishIsTold    *)
(* and ConsumptionIsTold say (otel.go:169-354 of Kafka and 170-384 of      *)
(* RabbitMQ, consumer.go:455-508, new_consumer.go:367-384).                *)
TracesAreTrue ==
    /\ \A i \in 1 .. Len(spans) :
           /\ spans[i].state = "open" /\ spans[i].parent # 0 /\ spans[i].op = "handle" =>
                  spans[spans[i].parent].state = "open"
           /\ leg.at = "over" => spans[i].state # "open"
           /\ spans[i].op = "consume" =>
                  (spans[i].parent # 0) = (journey.publisher /\ journey.propagator)
           /\ spans[i].op = "handle" => spans[spans[i].parent].op = "consume"
    /\ journey.publisher => PublishIsTold
    /\ journey.consumer => ConsumptionIsTold
    /\ HandlersTraced => Cardinality(OfOp("handle")) = facts.ran
    /\ meters["published"] + meters["publishErrors"] = meters["publishDuration"]
=============================================================================
