---------------------------- MODULE MCHiHelpers ----------------------------
(* The two helpers that call nothing else: the credentials are revealed     *)
(* while the device starts (HiSecret, with texts longer than the key and    *)
(* than the 8 positions whose mixing fits a byte), then a sensor is read    *)
(* (HiDeadband, with four values and a counter of 4 bits).                  *)
EXTENDS HiDeadband, HiSecret, Bitwise

\* The exclusive-or of HiSecret is that of the community modules.
ASSUME XorAgrees == \A a, b \in Byte : ByteXor(a, b) = a ^^ b

MCKey    == <<104, 111, 109, 101>>
MCTexts  == {[i \in 1 .. n |-> b] : n \in {0, 1, 4, 5, 9, 10}, b \in {48, 255}}
MCSizes  == {0, 1, 5, 6, 11}

vars == <<deadbandVars, call>>
Init == DeadbandInit /\ call = NoCall
Next == \/ Init /\ SecretNext /\ UNCHANGED deadbandVars
        \/ DeadbandNext /\ call' = NoCall
Spec == Init /\ [][Next]_vars
=============================================================================
