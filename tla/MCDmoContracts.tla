--------------------------- MODULE MCDmoContracts ---------------------------
(* DmoContracts for TLC.                                                   *)
EXTENDS DmoContracts, TLC

MCSymmetry == Permutations(Dst)
=============================================================================
