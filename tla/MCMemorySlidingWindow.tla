----------------------- MODULE MCMemorySlidingWindow -----------------------
(***************************************************************************)
(* MemorySlidingWindow for TLC: keys and threads are interchangeable.      *)
(***************************************************************************)
EXTENDS MemorySlidingWindow, TLC

Symmetry == Permutations(Key) \cup Permutations(Thread)
=============================================================================
