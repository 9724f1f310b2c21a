---------------------------- MODULE KafkaProducer ----------------------------
(***************************************************************************)
(* pkg/messaging/kafka/new_producer.go and dlq.go: one call of Publish, of *)
(* PublishBatch or of a DLQ strategy, against a broker that may store some *)
(* of the messages and fail, while another goroutine closes the producer.  *)
(* What a traced call reports is MessageTrace's subject.                   *)
(***************************************************************************)
EXTENDS Naturals

CONSTANTS Productions,     \* the calls that are made: how, how many messages
          ProducerRetries  \* config.maxRetries

Strategies == {"publish_to_dlq", "log_only", "discard"}

ASSUME ProducerAssumption ==
    /\ ProducerRetries \in Nat
    /\ Productions \subseteq
         [via : {"publish", "batch", "dlq"}, size : Nat, async : BOOLEAN,
          topic : BOOLEAN,                        \* is there a DLQ topic?
          publisher : BOOLEAN,                    \* ... a DLQ publisher?
          strategy : Strategies \cup {"unset"}]   \* ... a strategy of its own?

VARIABLES
    production,  \* the call
    writing,     \* where it is, how often it has tried, what it returned
    stored,      \* for each of its messages: how often the broker has it
    closing,     \* the producer: "open", "flagged" or "closed"
    abandoned    \* is the caller's context done?

producerVars == <<production, writing, stored, closing, abandoned>>

ProducerTypeOK ==
    /\ production \in Productions
    /\ writing \in [at : {"start", "publish", "write", "sleep", "over"},
                    tries : 0 .. ProducerRetries + 1,
                    result : {"none", "ok", "closed", "failed", "invalid"}]
    /\ stored \in [1 .. production.size -> 0 .. ProducerRetries + 1]
    /\ closing \in {"open", "flagged", "closed"}
    /\ abandoned \in BOOLEAN

ProducerStart(c) ==
    /\ production = c
    /\ writing = [at |-> "start", tries |-> 0, result |-> "none"]
    /\ stored = [m \in 1 .. c.size |-> 0]
    /\ closing = "open"
    /\ abandoned = FALSE

ProducerInit == \E c \in Productions : ProducerStart(c)
-----------------------------------------------------------------------------
Returned(result) == writing' = [writing EXCEPT !.at = "over", !.result = result]

(* initializeDLQ: the consumer's own strategy, or one that publishes, or,  *)
(* without a publisher, one that logs.                                     *)
DLQStrategy ==
    IF production.strategy # "unset" THEN production.strategy
    ELSE IF production.publisher THEN "publish_to_dlq"
    ELSE "log_only"

(* The strategies: only one of them publishes, and it needs a publisher.   *)
HandleFailure ==
    IF ~production.topic THEN Returned("invalid")
    ELSE IF DLQStrategy # "publish_to_dlq" THEN Returned("ok")
    ELSE IF ~production.publisher THEN Returned("failed")
    ELSE writing' = [writing EXCEPT !.at = "publish"]

Produce ==
    /\ writing.at = "start"
    /\ IF production.via = "dlq" THEN HandleFailure
       ELSE writing' = [writing EXCEPT !.at = "publish"]
    /\ UNCHANGED <<production, stored, closing, abandoned>>

(* The flag is read before anything else; a batch may be empty.            *)
CheckProducer ==
    /\ writing.at = "publish"
    /\ IF closing # "open" THEN Returned("closed")
       ELSE IF production.size = 0 THEN Returned("ok")
       ELSE writing' = [writing EXCEPT !.at = "write"]
    /\ UNCHANGED <<production, stored, closing, abandoned>>

(* What WriteMessages of the library may do: an asynchronous writer says   *)
(* nothing of what becomes of the messages, a failed write may have stored *)
(* some of them, and a closed writer takes none.                           *)
Written(S, ok) ==
    /\ closing = "closed" => ~ok /\ S = {}
    /\ ok /\ ~production.async => S = DOMAIN stored

(* Mistake: the first attempt is taken for a retry.                        *)
MayWriteOnceMore(tries) == tries <= ProducerRetries + 1

MayWriteAgain(tries) == tries <= ProducerRetries

(* writeWithRetry, writeBatchWithRetry: the whole batch is written again.  *)
WriteMessages(S, ok) ==
    /\ writing.at = "write"
    /\ Written(S, ok)
    /\ stored' = [m \in DOMAIN stored |-> stored[m] + (IF m \in S THEN 1 ELSE 0)]
    /\ writing' =
          LET tried == [writing EXCEPT !.tries = @ + 1] IN
          IF ok THEN [tried EXCEPT !.at = "over", !.result = "ok"]
          ELSE IF MayWriteAgain(tried.tries) THEN [tried EXCEPT !.at = "sleep"]
          ELSE [tried EXCEPT !.at = "over", !.result = "failed"]
    /\ UNCHANGED <<production, closing, abandoned>>

(* sleep: the timer or the context, whichever the select takes.            *)
WriteAgain ==
    /\ writing.at = "sleep"
    /\ writing' = [writing EXCEPT !.at = "write"]
    /\ UNCHANGED <<production, stored, closing, abandoned>>

(* Mistake: the end of the context ends the loop without an error.         *)
AbandonWriteQuietly ==
    /\ writing.at = "sleep" /\ abandoned
    /\ Returned("ok")
    /\ UNCHANGED <<production, stored, closing, abandoned>>

AbandonWrite ==
    /\ writing.at = "sleep" /\ abandoned
    /\ Returned("failed")
    /\ UNCHANGED <<production, stored, closing, abandoned>>

CallerLeaves ==
    /\ ~abandoned
    /\ abandoned' = TRUE
    /\ UNCHANGED <<production, writing, stored, closing>>

(* Close: the flag, then the writer, which a write in progress may outlive *)
(* only by failing.                                                        *)
CloseFlags ==
    /\ closing = "open"
    /\ closing' = "flagged"
    /\ UNCHANGED <<production, writing, stored, abandoned>>

CloseWriter ==
    /\ closing = "flagged"
    /\ closing' = "closed"
    /\ UNCHANGED <<production, writing, stored, abandoned>>

ProducerNext ==
    \/ Produce \/ CheckProducer
    \/ \E S \in SUBSET DOMAIN stored, ok \in BOOLEAN : WriteMessages(S, ok)
    \/ WriteAgain \/ AbandonWrite \/ CallerLeaves \/ CloseFlags \/ CloseWriter

(* The library's writes return (WriteTimeout), and timers fire.            *)
ProducerSpec == ProducerInit /\ [][ProducerNext]_producerVars /\ WF_producerVars(ProducerNext)
-----------------------------------------------------------------------------
(* A publish that reports success over a synchronous writer has stored     *)
(* every message, and a DLQ strategy's too unless it is one that only logs *)
(* or discards; one that reports failure has tried as often as it may, or  *)
(* its context was done; a producer that was closed first stores nothing;  *)
(* no message is stored more often than it was written                     *)
(* (new_producer.go:48-230, dlq.go:126-231).                               *)
PublishIsTrue ==
    /\ writing.at = "over" =>
           CASE writing.result = "ok" ->
                    \/ production.async \/ \A m \in DOMAIN stored : stored[m] >= 1
                    \/ production.via = "dlq" /\ DLQStrategy # "publish_to_dlq"
             [] writing.result = "failed" ->
                    \/ writing.tries = ProducerRetries + 1 \/ abandoned
                    \/ production.via = "dlq" /\ ~production.publisher
             [] OTHER -> \A m \in DOMAIN stored : stored[m] = 0
    /\ \A m \in DOMAIN stored : stored[m] <= writing.tries

(* A publish that has not returned.                                        *)
PublishWaits == writing.at # "over"
=============================================================================
