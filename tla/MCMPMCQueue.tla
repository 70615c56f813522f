----------------------------- MODULE MCMPMCQueue -----------------------------
(***************************************************************************)
(* Instances of MPMCQueue for TLC.                                         *)
(***************************************************************************)
EXTENDS MPMCQueue, TLC

\* Threads are interchangeable.
ThreadSymmetry == Permutations(Threads)
=============================================================================
