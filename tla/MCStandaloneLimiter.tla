------------------------- MODULE MCStandaloneLimiter -------------------------
(***************************************************************************)
(* StandaloneLimiter for TLC: threads are interchangeable.  Keys are not,  *)
(* as their order is that of their shards.                                 *)
(***************************************************************************)
EXTENDS StandaloneLimiter, TLC

Symmetry == Permutations(Thread)
=============================================================================
