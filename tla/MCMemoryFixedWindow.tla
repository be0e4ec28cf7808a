------------------------ MODULE MCMemoryFixedWindow ------------------------
(***************************************************************************)
(* MemoryFixedWindow for TLC: keys and threads are interchangeable.        *)
(***************************************************************************)
EXTENDS MemoryFixedWindow, TLC

Symmetry == Permutations(Key) \cup Permutations(Thread)
=============================================================================
