----------------------------- MODULE MCCoroutines -----------------------------
(***************************************************************************)
(* Instances of Coroutines for TLC.                                        *)
(***************************************************************************)
EXTENDS Coroutines
=============================================================================
