------------------------------ MODULE MCHiMqtt ------------------------------
(* HiMqtt with two subscriptions and an outbox of two or three messages.   *)
EXTENDS HiMqtt
=============================================================================
