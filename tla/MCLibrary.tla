------------------------------ MODULE MCLibrary ------------------------------
(* Values for the runs of Library. *)
EXTENDS Library, TLC

CONSTANTS t1, t2, c1, c2, bad

MCDelays == {1}
Symmetric == Permutations({t1, t2}) \union Permutations({c1, c2})
=============================================================================
