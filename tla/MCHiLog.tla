------------------------------ MODULE MCHiLog ------------------------------
(* HiLog and HiWifi with two tasks that log.                               *)
EXTENDS HiLog
=============================================================================
