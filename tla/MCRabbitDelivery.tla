-------------------------- MODULE MCRabbitDelivery --------------------------
(* Two messages, published in this order.                                  *)
EXTENDS RabbitDelivery

MCMsgs == <<"m1", "m2">>
=============================================================================
