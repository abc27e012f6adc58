------------------------------ MODULE MCSignaling ------------------------------
(* Instances of Signaling for TLC.                                             *)
EXTENDS Signaling
================================================================================
