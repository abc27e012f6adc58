-------------------------------- MODULE MCRoom ---------------------------------
(* Instances of Room for TLC.                                                  *)
EXTENDS Room, TLC

Symmetry == Permutations(ClientIDs) \cup Permutations(Conns)
================================================================================
