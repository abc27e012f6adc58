----------------------------- MODULE MCConnection ------------------------------
(* Instances of Connection for TLC.                                            *)
EXTENDS Connection, TLC

Symmetry ==
    Permutations(Senders) \cup Permutations(Finishers) \cup Permutations(Closers)
================================================================================
