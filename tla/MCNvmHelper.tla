----------------------------- MODULE MCNvmHelper -----------------------------
(* Instances of NvmHelper for TLC: requests are interchangeable. *)
EXTENDS NvmHelper

RequestSymmetry == Permutations(Request)
=============================================================================
