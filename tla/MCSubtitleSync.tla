--------------------------- MODULE MCSubtitleSync ---------------------------
(* A bounded instance of SubtitleSync. Files and models are interchangeable. *)
EXTENDS SubtitleSync, TLC

Symmetry == Permutations(Files) \cup Permutations(Models)
=============================================================================
