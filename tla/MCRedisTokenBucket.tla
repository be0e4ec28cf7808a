------------------------- MODULE MCRedisTokenBucket -------------------------
(***************************************************************************)
(* RedisTokenBucket for TLC: callers are interchangeable.                  *)
(***************************************************************************)
EXTENDS RedisTokenBucket, TLC

Symmetry == Permutations(Caller)
=============================================================================
