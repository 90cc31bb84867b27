---------------------------- MODULE MCRpcServer ----------------------------
(* RpcServer with two services beside the thread of run, more requests than  *)
(* threads, and two restarts.                                                *)
EXTENDS RpcServer
=============================================================================
