----------------------------- MODULE MCAsyncFile -----------------------------
(***************************************************************************)
(* Instances of AsyncFile for TLC.                                         *)
(***************************************************************************)
EXTENDS AsyncFile
=============================================================================
