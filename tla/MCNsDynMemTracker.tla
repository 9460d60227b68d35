-------------------------- MODULE MCNsDynMemTracker --------------------------
(* Instances of NsDynMemTracker for TLC. *)
EXTENDS NsDynMemTracker

TrackerSymmetry == Permutations(Block) \cup Permutations(Caller)
=============================================================================
