---------------------------- MODULE MCRpcModule ----------------------------
(***************************************************************************)
(* Model-checking instance of RpcModule.                                    *)
(***************************************************************************)
EXTENDS RpcModule
=============================================================================
