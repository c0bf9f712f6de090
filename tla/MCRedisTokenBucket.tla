-------------------------- MODULE MCRedisTokenBucket --------------------------
(* RedisTokenBucket on a small instance. *)
EXTENDS RedisTokenBucket, TLC

\* The calls are interchangeable.
Symmetry == Permutations(Calls)
=============================================================================
