---------------------------- MODULE MCHeaderPair ----------------------------
(* HeaderPair with small sets of guids, for TLC.                           *)
EXTENDS HeaderPair, TLC

GuidSymmetry == Permutations(Guids)
=============================================================================
