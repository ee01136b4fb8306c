---------------------------- MODULE MCHiMqttData ----------------------------
(* HiMqttData with messages of up to one byte more than a buffer takes.     *)
EXTENDS HiMqttData
=============================================================================
