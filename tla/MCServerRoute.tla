---------------------------- MODULE MCServerRoute ----------------------------
(* Instances of ServerRoute for TLC.  The constants are given in the           *)
(* configurations; generations are ordered, so there is no symmetry.           *)
EXTENDS ServerRoute, TLC
===============================================================================
