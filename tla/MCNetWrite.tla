----------------------------- MODULE MCNetWrite -----------------------------
(***************************************************************************)
(* Model-checking instance of NetWrite.                                     *)
(***************************************************************************)
EXTENDS NetWrite
=============================================================================
