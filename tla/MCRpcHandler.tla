---------------------------- MODULE MCRpcHandler ----------------------------
(* Every single call, and batches of up to three items: one that succeeds,   *)
(* one whose method does not exist, one that is no call, one that is no      *)
(* object.                                                                   *)
EXTENDS RpcHandler

Call(m, p) == [object |-> TRUE, extra |-> FALSE, jsonrpc |-> "2.0", method |-> m, params |-> p,
               id |-> "1"]
Samples == {Call("ping", "structure"), Call("unlisted", "absent"), Call("ping", "plain"), NoObject}

=============================================================================
