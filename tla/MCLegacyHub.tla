------------------------------ MODULE MCLegacyHub ------------------------------
(* Instances of LegacyHub for TLC.                                             *)
EXTENDS LegacyHub, TLC

Symmetry == Permutations(RoomNames) \cup Permutations(Conns)
================================================================================
