------------------------------ MODULE MCMemory ------------------------------
(***************************************************************************)
(* An instance of Memory: one size of which two blocks are stored and one  *)
(* of which none is.                                                       *)
(***************************************************************************)
EXTENDS Memory

Lengths == {0, 1, 2}
Limits == (1 + Header) :> 2 @@ (2 + Header) :> 0

\* Threads, buffers and blocks are interchangeable.
Symmetry == Permutations(Thread) \cup Permutations(Buffer) \cup Permutations(Block)
=============================================================================
