-------------------------- MODULE RpcHandlerProofs --------------------------
(* Theorems about RpcHandler, for every set of ids and items, and batches of *)
(* every length.                                                             *)
EXTENDS RpcHandler, TLAPS

Calls == Items \cup {NoObject}

\* Every variable but the response has its type.
Types ==
    /\ request \in Requests
    /\ phase \in {"received", "batch", "responded"}
    /\ code \in {0} \cup Codes
    /\ replies \in Seq(Replies)
    /\ phase = "responded" => response.status \in Codes /\ response.replies \in Seq(Replies)
    /\ phase # "responded" => response = NoResponse

\* In a batch, the replies so far are those of the first calls.
Answered ==
    phase = "batch" =>
        /\ request.body.kind = "array"
        /\ code \in Codes
        /\ Len(replies) <= Len(request.body.items)
        /\ \A i \in 1 .. Len(replies) : Contract!Answers(request.body.items[i], replies[i])

IInv == Types /\ Answered /\ CodeTracksReplies

-----------------------------------------------------------------------------
(* Calls and replies. *)

\* The calls of a request are a sequence.
LEMMA CallsType ==
    ASSUME NEW r \in Requests, r.body.kind \in {"object", "array"}
    PROVE  r.body.items \in Seq(Calls)
<1>1. r.body \in Bodies
  BY DEF Requests, NoBody
<1>2. CASE r.body \in [kind : {"object"}, items : {<<x>> : x \in Items}]
  <2>1. PICK x \in Items : r.body.items = <<x>>
    BY <1>2
  <2>2. x \in Calls
    BY DEF Calls
  <2> QED
    BY <2>1, <2>2
<1>3. CASE r.body \in [kind : {"array"}, items : UNION {[1 .. n -> BatchItems] : n \in 0 .. MaxBatch}]
  <2>1. PICK n \in 0 .. MaxBatch : r.body.items \in [1 .. n -> BatchItems]
    BY <1>3
  <2>2. n \in Nat
    BY BatchAssumption
  <2>3. r.body.items \in Seq(BatchItems)
    BY <2>1, <2>2
  <2> QED
    BY <2>3, ItemsAssumption DEF Calls
<1> QED
  BY <1>1, <1>2, <1>3 DEF Bodies

\* An object has one call.
LEMMA SingleCall ==
    ASSUME NEW r \in Requests, r.body.kind = "object"
    PROVE  Len(r.body.items) = 1 /\ r.body.items[1] \in Calls
<1>1. r.body \in Bodies
  BY DEF Requests, NoBody
<1>2. r.body \in [kind : {"object"}, items : {<<x>> : x \in Items}]
  BY <1>1 DEF Bodies
<1> QED
  BY <1>2 DEF Calls

\* A call that is valid is answered with its id, and with an error unless its
\* method is ping; 200 is the status of a success only.
LEMMA ServeAnswers ==
    ASSUME NEW x \in Calls, is_valid_req(x)
    PROVE  /\ Serve(x) \in Replies
           /\ Contract!Answers(x, Serve(x))
           /\ Status(Serve(x)) \in Codes
           /\ Status(Serve(x)) = 200 <=> Serve(x).error = 0
           /\ Serve(x).error # INVALID_REQUEST
<1>1. /\ x.method \in {"ping", "unlisted"}
      /\ x.id \in Ids
      /\ x.params \in {"absent", "structure"}
  <2>1. x \in Items
    BY DEF Calls, NoObject, is_valid_req
  <2>2. x.id \in Ids \cup {"absent"} /\ x.params \in {"absent", "structure", "plain"}
    BY <2>1 DEF Items
  <2> QED
    BY <2>2 DEF is_valid_req
<1>2. CASE x.method = "ping"
  <2>1. Serve(x) = [id |-> x.id, error |-> 0, result |-> x.params]
    BY <1>2 DEF Serve
  <2>2. Serve(x) \in Replies
    BY <1>1, <2>1 DEF Replies
  <2>3. Contract!Answers(x, Serve(x))
    BY <1>2, <2>1 DEF Contract!Answers
  <2> QED
    BY <2>1, <2>2, <2>3 DEF Status, Codes, INVALID_REQUEST
<1>3. CASE x.method # "ping"
  <2>1. Serve(x) = [id |-> x.id, error |-> METHOD_NOT_FOUND, result |-> "none"]
    BY <1>3 DEF Serve, ErrorReply
  <2>2. METHOD_NOT_FOUND # 0 /\ METHOD_NOT_FOUND # INVALID_REQUEST
    BY DEF METHOD_NOT_FOUND, INVALID_REQUEST
  <2>3. Serve(x) \in Replies
    BY <1>1, <2>1 DEF Replies
  <2>4. Contract!Answers(x, Serve(x))
    BY <1>3, <2>1, <2>2 DEF Contract!Answers
  <2>5. Status(Serve(x)) = 404
    BY <2>1, <2>2 DEF Status, http_status_from_error_code
  <2> QED
    BY <2>1, <2>2, <2>3, <2>4, <2>5 DEF Codes
<1> QED
  BY <1>2, <1>3

\* A call that is not valid is answered with an error.
LEMMA RejectAnswers ==
    ASSUME NEW x \in Calls, ~is_valid_req(x)
    PROVE  /\ ErrorReply(INVALID_REQUEST) \in Replies
           /\ Contract!Answers(x, ErrorReply(INVALID_REQUEST))
           /\ ErrorReply(INVALID_REQUEST).error = INVALID_REQUEST
           /\ INVALID_REQUEST # 0
BY DEF ErrorReply, INVALID_REQUEST, Replies, Contract!Answers

-----------------------------------------------------------------------------
(* The inductive invariant. *)

\* The response is complete.
LEMMA ReplyInv ==
    ASSUME IInv, NEW s \in Codes, NEW rs \in Seq(Replies), Reply(s, rs),
           code' \in {0} \cup Codes, replies' \in Seq(Replies)
    PROVE  IInv'
BY DEF IInv, Types, Answered, CodeTracksReplies, Reply, Response

\* Requests that are no batch are responded to at once.
LEMMA SimpleInv ==
    ASSUME IInv, Test \/ NotFound \/ Options \/ BadRequest \/ NoCall \/ Single
    PROVE  IInv'
<1> USE DEF Codes
<1>1. CASE Test \/ NotFound \/ Options \/ BadRequest
  <2>1. <<>> \in Seq(Replies)
    OBVIOUS
  <2>2. PICK s \in Codes : Reply(s, <<>>)
    BY <1>1 DEF Test, NotFound, Options, BadRequest
  <2>3. UNCHANGED <<code, replies>>
    BY <1>1 DEF Test, NotFound, Options, BadRequest
  <2>4. code' \in {0} \cup Codes /\ replies' \in Seq(Replies)
    BY <2>3 DEF IInv, Types
  <2> HIDE DEF Codes
  <2> QED
    BY <2>1, <2>2, <2>4, ReplyInv
<1>2. ASSUME NEW s \in Codes, NEW reply \in Replies, Finish(s, <<reply>>)
      PROVE  IInv'
  <2> HIDE DEF Codes
  <2>1. <<reply>> \in Seq(Replies)
    OBVIOUS
  <2>2. code' \in {0} \cup Codes /\ replies' \in Seq(Replies) /\ Reply(s, <<reply>>)
    BY <1>2, <2>1 DEF Finish
  <2> QED
    BY <2>1, <2>2, ReplyInv
<1>3. CASE NoCall
  <2>1. ErrorReply(PARSE_ERROR) \in Replies /\ ErrorReply(INVALID_REQUEST) \in Replies
    BY DEF ErrorReply, Replies
  <2> QED
    BY <1>2, <1>3, <2>1 DEF NoCall
<1>4. CASE Single
  <2> DEFINE x == request.body.items[1]
  <2>1. x \in Calls
    BY <1>4, SingleCall DEF Single, Post, IInv, Types
  <2>2. CASE is_valid_req(x)
    <3>1. Serve(x) \in Replies /\ Status(Serve(x)) \in Codes
      BY <2>1, <2>2, ServeAnswers
    <3> QED
      BY <1>2, <1>4, <2>2, <3>1 DEF Single
  <2>3. CASE ~is_valid_req(x)
    BY <1>2, <1>4, <2>1, <2>3, RejectAnswers DEF Single
  <2> QED
    BY <2>2, <2>3
<1> QED
  BY <1>1, <1>3, <1>4

\* A batch begins.
LEMMA BeginBatchInv ==
    ASSUME IInv, BeginBatch
    PROVE  IInv'
<1>1. request.body.items \in Seq(Calls)
  BY CallsType DEF IInv, Types, BeginBatch, Post
<1> QED
  BY <1>1 DEF IInv, Types, Answered, CodeTracksReplies, Codes, BeginBatch, Post, Is

\* The item that comes next is a call.
LEMMA NextItem ==
    ASSUME IInv, MoreItems
    PROVE  /\ Item \in Calls
           /\ request.body.kind = "array"
           /\ request.body.items \in Seq(Calls)
<1>1. request \in Requests /\ request.body.kind = "array"
  BY DEF IInv, Types, Answered, MoreItems
<1>2. request.body.items \in Seq(Calls)
  BY <1>1, CallsType
<1> QED
  BY <1>1, <1>2 DEF IInv, Types, Item, MoreItems

\* One more reply.
LEMMA AppendInv ==
    ASSUME IInv, MoreItems, NEW reply \in Replies, Contract!Answers(Item, reply),
           replies' = Append(replies, reply), code' \in Codes,
           UNCHANGED <<request, phase, response>>
    PROVE  /\ Types' /\ Answered'
           /\ Len(replies') = Len(replies) + 1
           /\ \A i \in 1 .. Len(replies) : replies'[i] = replies[i]
           /\ replies'[Len(replies) + 1] = reply
<1>1. /\ Len(replies') = Len(replies) + 1
      /\ \A i \in 1 .. Len(replies) : replies'[i] = replies[i]
      /\ replies'[Len(replies) + 1] = reply
      /\ replies' \in Seq(Replies)
  BY DEF IInv, Types
<1>2. Types'
  BY <1>1 DEF IInv, Types
<1>3. request.body.items \in Seq(Calls) /\ request.body.kind = "array"
  BY NextItem
<1>4. Answered'
  <2>1. Len(replies') <= Len(request'.body.items)
    BY <1>1, <1>3 DEF MoreItems, IInv, Types
  <2>2. ASSUME NEW i \in 1 .. Len(replies')
        PROVE  Contract!Answers(request'.body.items[i], replies'[i])
    <3>1. CASE i = Len(replies) + 1
      BY <1>1, <3>1 DEF Item
    <3>2. CASE i \in 1 .. Len(replies)
      BY <1>1, <3>2 DEF IInv, Answered, MoreItems
    <3> QED
      BY <1>1, <3>1, <3>2 DEF IInv, Types
  <2> QED
    BY <1>3, <2>1, <2>2 DEF Answered
<1> QED
  BY <1>1, <1>2, <1>4

\* A call is served.
LEMMA ServeItemInv ==
    ASSUME IInv, ServeItem
    PROVE  IInv'
<1> DEFINE reply == Serve(Item)
<1>1. MoreItems /\ is_valid_req(Item) /\ Item \in Calls
  BY NextItem DEF ServeItem
<1>2. /\ reply \in Replies /\ Contract!Answers(Item, reply)
      /\ Status(reply) \in Codes
      /\ Status(reply) = 200 <=> reply.error = 0
      /\ reply.error # INVALID_REQUEST
  BY <1>1, ServeAnswers
<1>3. code \in Codes /\ phase = "batch"
  BY <1>1 DEF IInv, Answered, MoreItems
<1>4. code' = (IF Status(reply) > code THEN Status(reply) ELSE code) /\ code' \in Codes
  BY <1>2, <1>3 DEF ServeItem
<1>5. /\ Types' /\ Answered'
      /\ Len(replies') = Len(replies) + 1
      /\ \A i \in 1 .. Len(replies) : replies'[i] = replies[i]
      /\ replies'[Len(replies) + 1] = reply
  BY <1>1, <1>2, <1>4, AppendInv DEF ServeItem
<1>6. Len(replies) \in Nat
  BY DEF IInv, Types
<1>7. code' = 200 <=> \A i \in 1 .. Len(replies') : Succeeded(replies'[i])
  <2>1. code' = 200 <=> code = 200 /\ Status(reply) = 200
    BY <1>2, <1>3, <1>4 DEF Codes
  <2>2. code = 200 <=> \A i \in 1 .. Len(replies) : Succeeded(replies[i])
    BY <1>3 DEF IInv, CodeTracksReplies
  <2>3. Status(reply) = 200 <=> Succeeded(replies'[Len(replies) + 1])
    BY <1>2, <1>5 DEF Succeeded
  <2>4. (\A i \in 1 .. Len(replies') : Succeeded(replies'[i])) <=>
           (\A i \in 1 .. Len(replies) : Succeeded(replies[i]))
             /\ Succeeded(replies'[Len(replies) + 1])
    BY <1>5, <1>6
  <2> QED
    BY <2>1, <2>2, <2>3, <2>4
<1>8. code' # 200 => \E i \in 1 .. Len(replies') :
         code' = IF replies'[i].error = INVALID_REQUEST THEN 400 ELSE Status(replies'[i])
  <2>1. CASE code' = Status(reply)
    BY <1>2, <1>5, <1>6, <2>1
  <2>2. CASE code' = code
    <3>1. code # 200 => \E i \in 1 .. Len(replies) :
             code = IF replies[i].error = INVALID_REQUEST THEN 400 ELSE Status(replies[i])
      BY <1>3 DEF IInv, CodeTracksReplies
    <3> QED
      BY <1>5, <1>6, <2>2, <3>1
  <2> QED
    BY <1>4, <2>1, <2>2
<1> QED
  BY <1>5, <1>7, <1>8 DEF IInv, CodeTracksReplies

\* An item that is no call is rejected.
LEMMA RejectItemInv ==
    ASSUME IInv, RejectItem
    PROVE  IInv'
<1> DEFINE reply == ErrorReply(INVALID_REQUEST)
<1>1. MoreItems /\ ~is_valid_req(Item) /\ Item \in Calls
  BY NextItem DEF RejectItem
<1>2. /\ reply \in Replies /\ Contract!Answers(Item, reply)
      /\ reply.error = INVALID_REQUEST /\ INVALID_REQUEST # 0
  BY <1>1, RejectAnswers
<1>3. code' = 400 /\ code' \in Codes
  BY DEF RejectItem, Codes
<1>4. /\ Types' /\ Answered'
      /\ Len(replies') = Len(replies) + 1
      /\ replies'[Len(replies) + 1] = reply
  BY <1>1, <1>2, <1>3, AppendInv DEF RejectItem
<1>5. Len(replies) + 1 \in 1 .. Len(replies')
  BY <1>4 DEF IInv, Types
<1>6. CodeTracksReplies'
  BY <1>2, <1>3, <1>4, <1>5 DEF CodeTracksReplies, Succeeded
<1> QED
  BY <1>4, <1>6 DEF IInv

\* Every step keeps the invariant.
LEMMA StepInv == IInv /\ [Next]_vars => IInv'
<1> SUFFICES ASSUME IInv, [Next]_vars PROVE IInv'
  OBVIOUS
<1>1. CASE Receive
  BY <1>1 DEF Receive, IInv, Types, Answered, CodeTracksReplies
<1>2. CASE Test \/ NotFound \/ Options \/ BadRequest \/ NoCall \/ Single
  BY <1>2, SimpleInv
<1>3. CASE BeginBatch
  BY <1>3, BeginBatchInv
<1>4. CASE ServeItem
  BY <1>4, ServeItemInv
<1>5. CASE RejectItem
  BY <1>5, RejectItemInv
<1>6. CASE EndBatch
  <2>1. code \in Codes /\ replies \in Seq(Replies)
    BY <1>6 DEF EndBatch, IInv, Types, Answered
  <2> QED
    BY <1>6, <2>1, ReplyInv DEF EndBatch
<1>7. CASE UNCHANGED vars
  BY <1>7 DEF vars, IInv, Types, Answered, CodeTracksReplies
<1> QED
  BY <1>1, <1>2, <1>3, <1>4, <1>5, <1>6, <1>7 DEF Next

\* The inductive invariant holds of every behaviour.
LEMMA Invariance == Spec => []IInv
<1>1. Init => IInv
  BY DEF Init, IInv, Types, Answered, CodeTracksReplies
<1> QED
  BY <1>1, StepInv, PTL DEF Spec

-----------------------------------------------------------------------------
(* The contract. *)

\* A step that is a response is one the contract allows.
LEMMA ResponseKept ==
    ASSUME IInv, NEW s \in Codes, NEW rs \in Seq(Replies), phase # "responded", Reply(s, rs),
           Contract!Promise(request, Response(s, rs))
    PROVE  Contract!Respond
<1>1. response = NoResponse /\ response' = Response(s, rs) /\ request' = request
  BY DEF IInv, Types, Reply
<1>2. response' # NoResponse
  BY <1>1 DEF Response, NoResponse, Codes
<1> QED
  BY <1>1, <1>2 DEF Contract!Respond

\* Requests without calls promise nothing.
LEMMA NothingPromised ==
    ASSUME NEW r \in Requests, r.path # "/rpc" \/ r.method # "POST" \/ r.body.kind \in {"none", "garbage", "other"},
           NEW res
    PROVE  Contract!Promise(r, res)
<1>1. CallsOf(r) = <<>>
  BY DEF CallsOf, Requests, NoBody
<1> QED
  BY <1>1 DEF Contract!Promise

\* Each step is a step of the contract, or leaves it alone.
LEMMA ContractStep ==
    ASSUME IInv, [Next]_vars
    PROVE  [Contract!Ask \/ Contract!Respond]_<<request, response>>
<1> USE DEF Codes
<1>1. CASE Receive
  <2>1. response # NoResponse
    BY <1>1 DEF Receive, IInv, Types, NoResponse
  <2> QED
    BY <1>1, <2>1 DEF Receive, Contract!Ask
<1>2. CASE Test \/ NotFound \/ Options \/ BadRequest
  <2>1. PICK s \in Codes : Reply(s, <<>>)
    BY <1>2 DEF Test, NotFound, Options, BadRequest
  <2>2. phase # "responded" /\ (request.path # "/rpc" \/ request.method # "POST")
    BY <1>2 DEF Test, NotFound, Options, BadRequest, Is
  <2>3. <<>> \in Seq(Replies)
    OBVIOUS
  <2>4. Contract!Promise(request, Response(s, <<>>))
    BY <2>2, NothingPromised DEF IInv, Types
  <2> HIDE DEF Codes
  <2> QED
    BY <2>1, <2>2, <2>3, <2>4, ResponseKept
<1>3. ASSUME NEW s \in Codes, NEW reply \in Replies, Finish(s, <<reply>>), phase # "responded",
             Contract!Promise(request, Response(s, <<reply>>))
      PROVE  Contract!Respond
  <2>1. <<reply>> \in Seq(Replies)
    OBVIOUS
  <2> QED
    BY <1>3, <2>1, ResponseKept DEF Finish
<1>4. CASE NoCall
  <2>1. ErrorReply(PARSE_ERROR) \in Replies /\ ErrorReply(INVALID_REQUEST) \in Replies
    BY DEF ErrorReply, Replies
  <2>2. phase # "responded" /\ request.body.kind \in {"none", "garbage", "other"}
    BY <1>4 DEF NoCall, Post, Is
  <2>3. \A res : Contract!Promise(request, res)
    BY <2>2, NothingPromised DEF IInv, Types
  <2> QED
    BY <1>3, <1>4, <2>1, <2>2, <2>3 DEF NoCall
<1>5. CASE Single
  <2> DEFINE x == request.body.items[1]
  <2>1. /\ phase # "responded" /\ request.body.kind = "object"
        /\ Len(request.body.items) = 1 /\ x \in Calls
    BY <1>5, SingleCall DEF Single, Post, Is, IInv, Types
  <2>2. ASSUME NEW s \in Codes, NEW reply \in Replies, Contract!Answers(x, reply),
               s = 200 <=> reply.error = 0
        PROVE  Contract!Promise(request, Response(s, <<reply>>))
    <3> DEFINE res == Response(s, <<reply>>)
    <3>1. res.status = s /\ res.replies = <<reply>>
      BY DEF Response
    <3>2. Len(res.replies) = 1 /\ res.replies[1] = reply
      BY <3>1
    <3>3. CallsOf(request) = request.body.items
      BY <2>1 DEF CallsOf
    <3> HIDE DEF res
    <3>4. Contract!Kept(request.body.items, res)
      BY <2>1, <2>2, <3>1, <3>2 DEF Contract!Kept
    <3> QED
      BY <3>3, <3>4 DEF Contract!Promise, res
  <2>3. CASE is_valid_req(x)
    <3>1. /\ Serve(x) \in Replies /\ Status(Serve(x)) \in Codes /\ Contract!Answers(x, Serve(x))
          /\ Status(Serve(x)) = 200 <=> Serve(x).error = 0
      BY <2>1, <2>3, ServeAnswers
    <3>2. Finish(Status(Serve(x)), <<Serve(x)>>)
      BY <1>5, <2>3 DEF Single
    <3> QED
      BY <1>3, <2>1, <2>2, <3>1, <3>2
  <2>4. CASE ~is_valid_req(x)
    <3>1. Finish(400, <<ErrorReply(INVALID_REQUEST)>>)
      BY <1>5, <2>4 DEF Single
    <3>2. /\ ErrorReply(INVALID_REQUEST) \in Replies
          /\ Contract!Answers(x, ErrorReply(INVALID_REQUEST))
          /\ ErrorReply(INVALID_REQUEST).error # 0
      BY <2>1, <2>4, RejectAnswers
    <3> QED
      BY <1>3, <2>1, <2>2, <3>1, <3>2
  <2> QED
    BY <2>3, <2>4
<1>6. CASE BeginBatch \/ ServeItem \/ RejectItem
  BY <1>6 DEF BeginBatch, ServeItem, RejectItem
<1>7. CASE EndBatch
  <2>1. /\ phase = "batch" /\ code \in Codes /\ replies \in Seq(Replies)
        /\ request.body.kind = "array" /\ Len(replies) = Len(request.body.items)
        /\ \A i \in 1 .. Len(replies) : Contract!Answers(request.body.items[i], replies[i])
        /\ code = 200 <=> \A i \in 1 .. Len(replies) : Succeeded(replies[i])
    BY <1>7 DEF EndBatch, IInv, Types, Answered, CodeTracksReplies
  <2>2. Contract!Promise(request, Response(code, replies))
    BY <2>1 DEF Contract!Promise, Contract!Kept, Response, CallsOf, Succeeded
  <2> QED
    BY <1>7, <2>1, <2>2, ResponseKept DEF EndBatch
<1>8. CASE UNCHANGED vars
  BY <1>8 DEF vars
<1> QED
  BY <1>1, <1>2, <1>4, <1>5, <1>6, <1>7, <1>8 DEF Next

-----------------------------------------------------------------------------
(* Theorems of the specification. *)

\* Every variable keeps its type.
THEOREM TypeCorrect == Spec => []HandlerTypeOK
<1>1. IInv => HandlerTypeOK
  BY DEF IInv, Types, HandlerTypeOK
<1> QED
  BY <1>1, Invariance, PTL

\* The status of a batch says 200 exactly if no item failed so far.
THEOREM StatusHonest == Spec => []CodeTracksReplies
<1>1. IInv => CodeTracksReplies
  BY DEF IInv
<1> QED
  BY <1>1, Invariance, PTL

\* The handler implements the contract of JsonRpc.
THEOREM ContractKept == Spec => KeepsContract
<1>1. Init => Contract!Init
  BY DEF Init, Contract!Init
<1>2. IInv /\ [Next]_vars => [Contract!Ask \/ Contract!Respond]_<<request, response>>
  BY ContractStep
<1> QED
  BY <1>1, <1>2, Invariance, PTL DEF Spec, KeepsContract, Contract!Spec

-----------------------------------------------------------------------------
(* Progress: every request gets its response.                                 *)

\* The guards of the steps: a response leads to the next request, a request to the
\* branch for its path, method and body, a batch to its next item or its end.
HandlerCanStep ==
    \/ phase = "responded"
    \/ phase = "received" /\ request.path # "/rpc"
    \/ /\ phase = "received"
       /\ request.path = "/rpc"
       /\ request.method \notin {"OPTIONS", "POST"}
    \/ Is("/rpc", "OPTIONS")
    \/ \E kinds \in {{"none", "garbage"}, {"other"}, {"object"}, {"array"}} : Post(kinds)
    \/ MoreItems
    \/ phase = "batch" /\ Len(replies) = Len(request.body.items)

StepsToResponse ==
    CASE phase = "received"  -> IF request.body.kind = "array" THEN Len(request.body.items) + 2 ELSE 1
      [] phase = "batch"     -> Len(request.body.items) - Len(replies) + 1
      [] phase = "responded" -> 0

StepsToResponseFall == phase # "responded" => StepsToResponse' < StepsToResponse

\* No request is without a branch: whatever its path, its method and its body
\* (rpc_base.cpp:106-189), and at each item of a batch.
THEOREM HandlerNeverStuck == Spec => []HandlerCanStep
<1>1. IInv => HandlerCanStep
  <2> SUFFICES ASSUME IInv
               PROVE  HandlerCanStep
    OBVIOUS
  <2>1. phase \in {"received", "batch", "responded"} /\ request \in Requests
    BY DEF IInv, Types
  <2>2. CASE phase = "received" /\ request.path = "/rpc" /\ request.method = "POST"
    <3>1. request.body.kind \in {"none", "garbage", "other", "object", "array"}
      BY <2>1 DEF Requests, Bodies, NoBody
    <3> QED
      BY <2>2, <3>1 DEF HandlerCanStep, Post, Is
  <2>3. CASE phase = "batch"
    <3>1. request.body.items \in Seq(Calls) /\ Len(replies) <= Len(request.body.items)
      BY <2>1, <2>3, CallsType DEF IInv, Answered
    <3>2. Len(replies) \in Nat /\ Len(request.body.items) \in Nat
      BY <3>1 DEF IInv, Types
    <3> QED
      BY <2>3, <3>1, <3>2 DEF HandlerCanStep, MoreItems
  <2>4. CASE phase = "received" /\ request.path = "/rpc" /\ request.method # "POST"
    BY <2>4 DEF HandlerCanStep, Is
  <2> QED
    BY <2>1, <2>2, <2>3, <2>4 DEF HandlerCanStep
<1> QED
  BY <1>1, Invariance, PTL

\* What is left of a request is a natural number.
LEMMA StepsToResponseNat == IInv => StepsToResponse \in Nat
<1> SUFFICES ASSUME IInv
             PROVE  StepsToResponse \in Nat
  OBVIOUS
<1>1. request \in Requests /\ phase \in {"received", "batch", "responded"} /\ Len(replies) \in Nat
  BY DEF IInv, Types
<1>2. request.body.kind = "array" => Len(request.body.items) \in Nat
  BY <1>1, CallsType
<1>3. phase = "batch" => request.body.kind = "array" /\ Len(replies) <= Len(request.body.items)
  BY DEF IInv, Answered
<1> QED
  BY <1>1, <1>2, <1>3 DEF StepsToResponse

\* A request is a finite affair: a batch of any length comes to its response, one
\* item at a time (rpc_base.cpp:158-178).
THEOREM ResponseIsFinite ==
    Spec => [](StepsToResponse \in Nat) /\ [][StepsToResponseFall]_vars
<1>1. IInv /\ IInv' /\ [Next]_vars => [StepsToResponseFall]_vars
  <2> SUFFICES ASSUME IInv, Next, phase # "responded"
               PROVE  StepsToResponse' < StepsToResponse
    BY DEF StepsToResponseFall
  <2>1. request \in Requests /\ phase \in {"received", "batch"} /\ replies \in Seq(Replies)
    BY DEF IInv, Types
  <2>2. request.body.kind = "array" => Len(request.body.items) \in Nat
    BY <2>1, CallsType
  <2>3. StepsToResponse \in Nat
    BY StepsToResponseNat
  <2>4. CASE phase' = "responded"
    <3>1. StepsToResponse' = 0
      BY <2>4 DEF StepsToResponse
    <3>2. StepsToResponse > 0
      BY <2>1, <2>2 DEF StepsToResponse, IInv, Answered
    <3> QED
      BY <2>3, <3>1, <3>2
  <2>5. CASE BeginBatch
    BY <2>2, <2>5 DEF BeginBatch, Post, Is, StepsToResponse
  <2>6. CASE ServeItem \/ RejectItem
    <3>1. phase = "batch" /\ phase' = "batch" /\ request' = request
      BY <2>6 DEF ServeItem, RejectItem, MoreItems
    <3>2. Len(replies') = Len(replies) + 1
      <4>1. \E reply : replies' = Append(replies, reply)
        BY <2>6 DEF ServeItem, RejectItem
      <4> QED
        BY <2>1, <4>1
    <3>3. request.body.kind = "array"
      BY <3>1 DEF IInv, Answered
    <3>4. /\ StepsToResponse = Len(request.body.items) - Len(replies) + 1
          /\ StepsToResponse' = Len(request'.body.items) - Len(replies') + 1
      BY <3>1 DEF StepsToResponse
    <3>5. Len(request.body.items) \in Nat /\ Len(replies) \in Nat
      BY <2>1, <2>2, <3>3
    <3>6. Len(request.body.items) - (Len(replies) + 1) + 1 < Len(request.body.items) - Len(replies) + 1
      BY <3>5
    <3> QED
      BY <3>1, <3>2, <3>4, <3>6, Zenon
  <2>7. CASE Test \/ NotFound \/ Options \/ BadRequest \/ NoCall \/ Single \/ EndBatch
    <3>1. phase' = "responded"
      BY <2>7 DEF Test, NotFound, Options, BadRequest, NoCall, Single, EndBatch, Finish, Reply
    <3> QED
      BY <2>4, <3>1
  <2> QED
    BY <2>5, <2>6, <2>7 DEF Next, Receive
<1> QED
  BY <1>1, StepsToResponseNat, Invariance, StepInv, PTL DEF Spec

=============================================================================
