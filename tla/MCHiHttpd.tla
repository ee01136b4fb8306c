----------------------------- MODULE MCHiHttpd -----------------------------
(* HiHttpd with fewer entries than logins.                                 *)
EXTENDS HiHttpd
=============================================================================
