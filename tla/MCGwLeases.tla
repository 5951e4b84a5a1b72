----------------------------- MODULE MCGwLeases -----------------------------
(* GwLeases for TLC.                                                       *)
EXTENDS GwLeases, TLC

CONSTANTS r1, r2, r3

MCSymmetry == Permutations(Ref)
=============================================================================
