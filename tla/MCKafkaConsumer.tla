-------------------------- MODULE MCKafkaConsumer --------------------------
(* Small instances of KafkaConsumer for TLC: the first message's event     *)
(* type has two handlers, the second one's has one.                        *)
EXTENDS KafkaConsumer

MCHandlers == <<2, 1>>
=============================================================================
