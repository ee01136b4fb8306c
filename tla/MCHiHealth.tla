----------------------------- MODULE MCHiHealth -----------------------------
(* HiHealth on three images, of which one never reports healthy.           *)
EXTENDS HiHealth
CONSTANTS g1, g2, bad

MCImage == {g1, g2, bad}
MCGood  == {g1, g2}
MCImage2 == {g1, bad}
MCGood2  == {g1}
=============================================================================
