--------------------------- MODULE MCMediaPipeline ---------------------------
(* Model-checking instance of MediaPipeline: identifiers are interchangeable. *)
EXTENDS MediaPipeline, TLC

Symmetry == Permutations(Assets) \cup Permutations(Handlers)
=============================================================================
