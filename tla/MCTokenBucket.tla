---------------------------- MODULE MCTokenBucket ----------------------------
(* TokenBucket on small instances. *)
EXTENDS TokenBucket, TLC

\* The calls are interchangeable.
Symmetry == Permutations(Calls)
=============================================================================
