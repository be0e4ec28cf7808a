--------------------------- MODULE MCRedisWindows ---------------------------
(***************************************************************************)
(* RedisWindows for TLC: callers are interchangeable.                      *)
(***************************************************************************)
EXTENDS RedisWindows, TLC

Symmetry == Permutations(Caller)
=============================================================================
