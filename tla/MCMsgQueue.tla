----------------------------- MODULE MCMsgQueue -----------------------------
(***************************************************************************)
(* Model-checking instance of MsgQueue.                                     *)
(***************************************************************************)
EXTENDS MsgQueue
=============================================================================
