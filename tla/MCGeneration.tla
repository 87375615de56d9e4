---------------------------- MODULE MCGeneration ----------------------------
(* Small instances of Generation for TLC. *)
EXTENDS Generation, TLC

CONSTANTS w1, w2, r1, r2, c1, c2

TwoOfEach == Permutations({w1, w2}) \cup Permutations({r1, r2}) \cup Permutations({c1, c2})
=============================================================================
