------------------------ MODULE MCMemoryTokenBucket ------------------------
(***************************************************************************)
(* MemoryTokenBucket for TLC: keys and threads are interchangeable.        *)
(***************************************************************************)
EXTENDS MemoryTokenBucket, TLC

Symmetry == Permutations(Key) \cup Permutations(Thread)
=============================================================================
