------------------------- MODULE MCCaptureLifecycle -------------------------
(* A bounded instance of CaptureLifecycle. Its streams are interchangeable. *)
EXTENDS CaptureLifecycle, TLC

Symmetry == Permutations(Streams)
=============================================================================
