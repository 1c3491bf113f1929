----------------------------- MODULE MCModelStore -----------------------------
(* Values for the runs of ModelStore. *)
EXTENDS ModelStore, TLC

CONSTANTS a, b, good, text, empty

MCLength == (good :> 2) @@ (text :> 1) @@ (empty :> 0)
MCLimit  == (a :> 2) @@ (b :> 2) @@ (Library :> 1)
Symmetric == Permutations(Models)
=============================================================================
