------------------------------ MODULE MCNsList ------------------------------
(* Instances of NsList for TLC: lists and entries are interchangeable. *)
EXTENDS NsList

ListSymmetry == Permutations(List) \cup Permutations(Entry)
=============================================================================
