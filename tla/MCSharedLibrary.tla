-------------------------- MODULE MCSharedLibrary --------------------------
(***************************************************************************)
(* Model values and definitions for the runs of SharedLibrary.             *)
(***************************************************************************)
EXTENDS SharedLibraryInv, TLC

CONSTANTS a, liba

\* "a" is decorated to "liba", "liba" to a name no file has.
MCDecorate == [p \in Paths |-> IF p = a THEN liba ELSE Gone]

Symmetry == Permutations(Handles) \cup Permutations(Threads)
               \cup Permutations(Insts) \cup Permutations(Images)
=============================================================================
