---------------------------- MODULE MCHiMigrator ----------------------------
(* HiMigrator in ticks of 500 ms: the 500 ms timer ends within two of them, *)
(* the 2 s delay not before four.                                           *)
EXTENDS HiMigrator
=============================================================================
