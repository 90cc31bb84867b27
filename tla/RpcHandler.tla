----------------------------- MODULE RpcHandler -----------------------------
(* One thread of the server in rpc_handler::operator() (rpc_base.cpp, lines  *)
(* 103-190): requests come one after another; a batch is served item by      *)
(* item, and the status of the response is put together on the way.          *)
EXTENDS Sequences, Integers

CONSTANTS
    Ids,          \* ids of calls
    BatchItems,   \* items of a batch
    MaxBatch      \* and how many one batch has

ASSUME BatchAssumption == MaxBatch \in Nat

VARIABLES
    request,      \* the request that is handled, or was handled last
    phase,        \* control of operator()
    code,         \* code, the status so far
    replies,      \* json_res, the replies so far
    response      \* the response, or NoResponse while there is none

vars == <<request, phase, code, replies, response>>

-----------------------------------------------------------------------------
(* Requests. *)

\* A JSON value, as far as is_valid_req tells them apart; "absent" is a member
\* that an object does not have, `extra' one that no call has.
Items ==
    [object : {TRUE}, extra : BOOLEAN, jsonrpc : {"absent", "2.0", "other"},
     method : {"absent", "ping", "unlisted", "no_string"},
     params : {"absent", "structure", "plain"}, id : Ids \cup {"absent"}]

NoObject == [object |-> FALSE, extra |-> FALSE, jsonrpc |-> "absent", method |-> "absent",
             params |-> "absent", id |-> "absent"]

ASSUME ItemsAssumption == BatchItems \subseteq Items \cup {NoObject}

\* The body of a POST: no JSON, an object, an array, or another value.
Bodies ==
    [kind : {"garbage", "other"}, items : {<<>>}]
    \cup [kind : {"object"}, items : {<<x>> : x \in Items}]
    \cup [kind : {"array"}, items : UNION {[1 .. n -> BatchItems] : n \in 0 .. MaxBatch}]

NoBody == [kind |-> "none", items |-> <<>>]

Requests ==
    [path : {"/test", "/rpc", "/other"}, method : {"GET", "OPTIONS", "PUT", "POST"},
     body : {NoBody}]
    \cup [path : {"/rpc"}, method : {"POST"}, body : Bodies]

-----------------------------------------------------------------------------
(* Serving one call. *)

PARSE_ERROR == -32700
INVALID_REQUEST == -32600
METHOD_NOT_FOUND == -32601

\* Lines 35-63.
is_valid_req(req) ==
    /\ req.object
    /\ ~req.extra
    /\ req.jsonrpc = "2.0"
    /\ req.method \in {"ping", "unlisted"}
    /\ req.id # "absent"
    /\ req.params \in {"absent", "structure"}

\* A reply: the id, the error code or 0, the result or "none".
ErrorReply(c) == [id |-> "null", error |-> c, result |-> "none"]

\* Lines 74-90: codes of the server's range are an error of 500 like any other.
http_status_from_error_code(c) == IF c = METHOD_NOT_FOUND THEN 404 ELSE 500

\* Lines 92-101, with pca::rpc::serve and rpc_base::serve_method_not_found: ping
\* returns the params it got.
Serve(req) ==
    IF req.method = "ping" THEN [id |-> req.id, error |-> 0, result |-> req.params]
    ELSE [ErrorReply(METHOD_NOT_FOUND) EXCEPT !.id = req.id]

Status(reply) == IF reply.error = 0 THEN 200 ELSE http_status_from_error_code(reply.error)

-----------------------------------------------------------------------------
NoResponse == [status |-> 0]

Response(status, json) == [status |-> status, replies |-> json]

Init ==
    /\ request \in Requests
    /\ phase = "received"
    /\ code = 0
    /\ replies = <<>>
    /\ response = NoResponse

Is(path, method) == phase = "received" /\ request.path = path /\ request.method = method

Reply(status, json) ==
    /\ response' = Response(status, json)
    /\ phase' = "responded"
    /\ UNCHANGED request

\* Line 106.
Test == Is("/test", "GET") /\ Reply(200, <<>>) /\ UNCHANGED <<code, replies>>

\* Line 111.
NotFound ==
    /\ phase = "received"
    /\ request.path # "/rpc"
    /\ ~Is("/test", "GET")
    /\ Reply(404, <<>>)
    /\ UNCHANGED <<code, replies>>

\* Line 116.
Options == Is("/rpc", "OPTIONS") /\ Reply(200, <<>>) /\ UNCHANGED <<code, replies>>

\* Line 187.
BadRequest ==
    /\ phase = "received"
    /\ request.path = "/rpc"
    /\ request.method \notin {"OPTIONS", "POST"}
    /\ Reply(400, <<>>)
    /\ UNCHANGED <<code, replies>>

Post(kinds) == Is("/rpc", "POST") /\ request.body.kind \in kinds

Finish(c, json) == code' = c /\ replies' = json /\ Reply(c, json)

\* Lines 145 and 171: the body is no JSON (or there is none), or no call.
NoCall ==
    \/ Post({"none", "garbage"}) /\ Finish(500, <<ErrorReply(PARSE_ERROR)>>)
    \/ Post({"other"}) /\ Finish(400, <<ErrorReply(INVALID_REQUEST)>>)

\* Lines 148-154.
Single ==
    /\ Post({"object"})
    /\ LET req == request.body.items[1]
       IN  IF is_valid_req(req) THEN Finish(Status(Serve(req)), <<Serve(req)>>)
           ELSE Finish(400, <<ErrorReply(INVALID_REQUEST)>>)

\* Lines 155-157.
BeginBatch ==
    /\ Post({"array"})
    /\ phase' = "batch"
    /\ code' = 200
    /\ replies' = <<>>
    /\ UNCHANGED <<request, response>>

Item == request.body.items[Len(replies) + 1]
MoreItems == phase = "batch" /\ Len(replies) < Len(request.body.items)

\* Fault: an item that succeeds resets the status.
ServeItemLast ==
    /\ MoreItems
    /\ is_valid_req(Item)
    /\ code' = Status(Serve(Item))
    /\ replies' = Append(replies, Serve(Item))
    /\ UNCHANGED <<request, phase, response>>

\* Lines 161-164: the larger status stays.
ServeItem ==
    /\ MoreItems
    /\ is_valid_req(Item)
    /\ code' = IF Status(Serve(Item)) > code THEN Status(Serve(Item)) ELSE code
    /\ replies' = Append(replies, Serve(Item))
    /\ UNCHANGED <<request, phase, response>>

\* Fault: the rest of the batch is dropped with an item that is no call.
RejectItemBreaks ==
    /\ MoreItems
    /\ ~is_valid_req(Item)
    /\ phase' = "responded"
    /\ code' = 400
    /\ replies' = Append(replies, ErrorReply(INVALID_REQUEST))
    /\ response' = Response(code', replies')
    /\ UNCHANGED request

\* Lines 165-168: whatever the status was, it is 400 now.
RejectItem ==
    /\ MoreItems
    /\ ~is_valid_req(Item)
    /\ code' = 400
    /\ replies' = Append(replies, ErrorReply(INVALID_REQUEST))
    /\ UNCHANGED <<request, phase, response>>

\* Lines 176-178.
EndBatch ==
    /\ phase = "batch"
    /\ Len(replies) = Len(request.body.items)
    /\ Reply(code, replies)
    /\ UNCHANGED <<code, replies>>

\* Fault: the response to the last request is still there.
ReceiveStale ==
    /\ phase = "responded"
    /\ request' \in Requests
    /\ phase' = "received"
    /\ UNCHANGED <<code, replies, response>>

\* The next request is handled by the same thread.
Receive ==
    /\ phase = "responded"
    /\ request' \in Requests
    /\ phase' = "received"
    /\ response' = NoResponse
    /\ UNCHANGED <<code, replies>>

Next ==
    \/ Receive \/ Test \/ NotFound \/ Options \/ BadRequest
    \/ NoCall \/ Single \/ BeginBatch \/ ServeItem \/ RejectItem \/ EndBatch

Spec == Init /\ [][Next]_vars


-----------------------------------------------------------------------------
(* Properties. *)

Replies == [id : Ids \cup {"null"}, error : {0, PARSE_ERROR, INVALID_REQUEST, METHOD_NOT_FOUND},
            result : {"none", "absent", "structure"}]

Codes == {200, 400, 404, 500}

HandlerTypeOK ==
    /\ request \in Requests
    /\ phase \in {"received", "batch", "responded"}
    /\ code \in {0} \cup Codes
    /\ replies \in Seq(Replies)
    /\ phase = "responded" => response.status \in Codes /\ response.replies \in Seq(Replies)
    /\ phase # "responded" => response = NoResponse

Succeeded(reply) == reply.error = 0

\* At any time in a batch the status is 200 exactly if no reply so far is an
\* error, and otherwise it is the status of one of them: an item that succeeds
\* never hides one that failed before it, and an item that failed is never
\* reported with a status of no item, although a malformed item lowers it.
CodeTracksReplies ==
    phase = "batch" =>
        /\ code = 200 <=> \A i \in 1 .. Len(replies) : Succeeded(replies[i])
        /\ code # 200 => \E i \in 1 .. Len(replies) :
                            code = IF replies[i].error = INVALID_REQUEST THEN 400
                                   ELSE Status(replies[i])

\* The calls of a request, for the contract.
CallsOf(r) == IF r.body.kind \in {"object", "array"} THEN r.body.items ELSE <<>>

Contract == INSTANCE JsonRpc
              WITH Methods <- {"ping"}, Valid <- is_valid_req, Calls <- CallsOf

\* The handler keeps the contract of JsonRpc: one response per request, one reply
\* per call, in order, with its id, and 200 only if all succeeded.
KeepsContract == Contract!Spec

=============================================================================
