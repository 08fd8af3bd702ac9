-------------------------- MODULE MCOutboundDelivery --------------------------
(* OutboundDelivery for TLC: a poll loop and the drain compete for two        *)
(* messages, of which the provider takes two copies, one each or one twice.    *)
EXTENDS OutboundDelivery
================================================================================
