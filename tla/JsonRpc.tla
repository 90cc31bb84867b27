------------------------------ MODULE JsonRpc -------------------------------
(* What the RPC port promises to a client: each request gets one response,   *)
(* and a response to calls has one reply per call, in the order of the calls,*)
(* and a status of 200 exactly if every call succeeded.                      *)
EXTENDS Sequences, Integers

CONSTANTS
    Requests,   \* what clients may send
    NoResponse, \* the client waits
    Methods,    \* the methods of the server
    Valid(_),   \* a call is a well-formed JSON-RPC request
    Calls(_)    \* the calls of a request, <<>> if it has none

VARIABLES request, response

\* A reply answers a call: it bears the call's id if the call can be read, and
\* an error unless the method exists.
Answers(call, reply) ==
    /\ reply.id = IF Valid(call) THEN call.id ELSE "null"
    /\ reply.error = 0 <=> Valid(call) /\ call.method \in Methods

Kept(calls, res) ==
    /\ Len(res.replies) = Len(calls)
    /\ \A i \in 1 .. Len(calls) : Answers(calls[i], res.replies[i])
    /\ res.status = 200 <=> \A i \in 1 .. Len(calls) : res.replies[i].error = 0

Promise(r, res) == Calls(r) # <<>> => Kept(Calls(r), res)

Init == request \in Requests /\ response = NoResponse

Ask == response # NoResponse /\ request' \in Requests /\ response' = NoResponse

Respond ==
    /\ response = NoResponse
    /\ response' # NoResponse
    /\ Promise(request, response')
    /\ UNCHANGED request

Spec == Init /\ [][Ask \/ Respond]_<<request, response>>

=============================================================================
