----------------------------- MODULE MCDelivery -----------------------------
(* Model values and bounds for Delivery: every adapter, and embedded mode. *)
EXTENDS Delivery, TLC

MCSettings ==
    [embedded_l2 : {FALSE}, broker_kind : {"rabbitmq", "redis", "kafka", "sqs", "memory"}]
    \cup {[embedded_l2 |-> TRUE, broker_kind |-> "rabbitmq"]}
=============================================================================
