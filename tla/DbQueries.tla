----------------------------- MODULE DbQueries -----------------------------
(* mariadb::query_helper and mariadb::save_alarm_to_db (common/mariadb.cpp): *)
(* each call connects with connect_db_with_except, works on the session and  *)
(* disconnects; the exceptions thrown on the way are caught at the end, and  *)
(* which handler catches decides whether the handle is closed.               *)
(*                                                                           *)
(* The function given to query_helper is the user's.  It is modelled as any  *)
(* sequence of queries and fetches through the helpers of mariadb.cpp, which *)
(* may free each result or not, and which ends by a return or an exception.  *)
(* It receives the result pointer by value, so the pointer query_helper      *)
(* passes on to disconnect_db is always NULL.                                *)
EXTENDS MySqlClient, DatabaseUri

CONSTANTS
    MaxCalls,   \* calls modelled: what a call leaves behind adds up
    MaxResults  \* result sets the user's functions hold, over all calls

ASSUME BoundsAssumption == MaxCalls \in Nat /\ MaxResults \in Nat

VARIABLES
    pc,
    proc,       \* the function that runs: query_helper or save_alarm_to_db
    thrown,     \* the exception on its way to the handlers
    db,         \* the handle of the call, on its stack
    ret,        \* what the last call returned
    calls,      \* calls begun
    blind       \* calls that ended in a handler that does not close the handle

vars == <<pc, proc, thrown, db, ret, calls, blind>>

Procs == {"query_helper", "save_alarm_to_db"}

\* boost: a boost::exception with a text attached; bare_boost: one without;
\* other: what no handler names, such as the out_of_range of the port of a URI.
Exceptions == {"bad_function_call", "invalid_argument", "boost", "bare_boost", "other"}

Init ==
    /\ pc = "idle"
    /\ proc \in Procs
    /\ thrown = "none"
    /\ db = RawHandle
    /\ ret = "none"
    /\ calls = 0
    /\ blind = 0

Step(from, to) == pc = from /\ pc' = to
SameCall == UNCHANGED <<proc, thrown, ret, calls, blind>>

Throw(e) ==
    /\ thrown' = e
    /\ pc' = "catch"
    /\ UNCHANGED <<proc, ret, calls, blind>>

Return(r) ==
    /\ pc' = "idle"
    /\ ret' = r
    /\ thrown' = "none"
    /\ UNCHANGED <<proc, calls>>

\* A new call has a new handle; what the earlier ones left behind remains.
Call(p) ==
    /\ Step("idle", "init")
    /\ calls < MaxCalls
    /\ proc' = p
    /\ db' = [db EXCEPT !.state = "raw"]
    /\ calls' = calls + 1
    /\ ret' = "none"
    /\ UNCHANGED <<thrown, blind>>

-----------------------------------------------------------------------------
(* connect_db_with_except: three ways to fail, each throws. *)

\* mysql_init; when it fails the error text is read from the raw handle.
InitHandle ==
    /\ pc = "init"
    /\ \/ pc' = "parse" /\ db' = Initialise(db) /\ SameCall
       \/ db' = ReadError(db) /\ Throw("boost")

\* The URI of the call is any.
ParseUri ==
    /\ pc = "parse"
    /\ UNCHANGED db
    /\ \E u \in Uris : \E outcome \in parse_database_uri(u) :
          \/ outcome = "accepted" /\ pc' = "dial" /\ SameCall
          \/ outcome = "refused" /\ Throw("boost")
          \/ outcome = "out_of_range" /\ Throw("other")

Dial ==
    /\ pc = "dial"
    /\ \/ pc' = "work" /\ db' = Open(db) /\ SameCall
       \/ db' = ReadError(db) /\ Throw("boost")

-----------------------------------------------------------------------------
(* The user's function, line 364. *)

FuncQuery ==
    /\ pc = "work" /\ proc = "query_helper"
    /\ \/ db' = Query(db) /\ UNCHANGED pc /\ SameCall
       \/ db' = QueryFails(db) /\ Throw("boost")

FuncFetch ==
    /\ pc = "work" /\ proc = "query_helper"
    /\ \/ db.results < MaxResults /\ db' = StoreResult(db) /\ UNCHANGED pc /\ SameCall
       \/ db' = FetchFails(db) /\ Throw("boost")

FuncFreeIf(held) ==
    /\ pc = "work" /\ proc = "query_helper"
    /\ held
    /\ db' = FreeResult(db)
    /\ UNCHANGED pc
    /\ SameCall

\* Fault: a result is freed whether or not there is one.
FuncFreeAny == FuncFreeIf(TRUE)
FuncFree == FuncFreeIf(db.results > 0)

\* An empty function throws bad_function_call before it does anything.
FuncThrows ==
    /\ pc = "work" /\ proc = "query_helper"
    /\ UNCHANGED db
    /\ \E e \in Exceptions : Throw(e)

\* The function returns: line 366.
FuncReturnsWith(h) ==
    /\ Step("work", "leave") /\ proc = "query_helper"
    /\ db' = h
    /\ SameCall

\* Fault: a function that returns leaves the connection open.
FuncReturnsOpen == FuncReturnsWith(db)
FuncReturns == FuncReturnsWith(Disconnect(db))

-----------------------------------------------------------------------------
(* The body of save_alarm_to_db, lines 399-409. *)

\* Line 403.
InsertOr(e) ==
    /\ pc = "work" /\ proc = "save_alarm_to_db"
    /\ \/ db' = Query(db) /\ pc' = "affected" /\ SameCall
       \/ db' = QueryFails(db) /\ Throw(e)

\* Fault: query_db_with_except throws without a text.
InsertBare == InsertOr("bare_boost")
Insert == InsertOr("boost")

\* Lines 405-409: one row was inserted, or invalid_argument is thrown.
CheckAffected ==
    /\ pc = "affected"
    /\ \/ db' = Disconnect(Query(db)) /\ pc' = "leave" /\ SameCall
       \/ db' = Query(db) /\ Throw("invalid_argument")

-----------------------------------------------------------------------------
(* The handlers. *)

\* Fault: the handler of boost::exception closes the handle too.
ClosingBoost(p) ==
    IF p = "query_helper" THEN {"bad_function_call", "invalid_argument", "boost"} ELSE {}

\* The handlers of proc p that close the handle; the others only log.
Closing(p) ==
    IF p = "query_helper" THEN {"bad_function_call", "invalid_argument"} ELSE {}

Catch ==
    /\ pc = "catch"
    /\ thrown # "bare_boost"
    /\ db' = IF thrown \in Closing(proc) THEN Disconnect(db) ELSE db
    /\ blind' = IF thrown \in Closing(proc) THEN blind ELSE blind + 1
    /\ Return("false")

\* Lines 380 and 413: get_error_info finds no text and gives a null pointer, which
\* the handler dereferences.
CatchBare ==
    /\ Step("catch", "crashed")
    /\ thrown = "bare_boost"
    /\ UNCHANGED db
    /\ SameCall

\* Lines 390 and 411.
Leave ==
    /\ pc = "leave"
    /\ UNCHANGED <<db, blind>>
    /\ Return("true")

Next ==
    \/ \E p \in Procs : Call(p)
    \/ InitHandle \/ ParseUri \/ Dial
    \/ FuncQuery \/ FuncFetch \/ FuncFree \/ FuncThrows \/ FuncReturns
    \/ Insert \/ CheckAffected
    \/ Catch \/ CatchBare \/ Leave

Spec == Init /\ [][Next]_vars

-----------------------------------------------------------------------------
(* Properties. *)

TypeOK ==
    /\ pc \in {"idle", "init", "parse", "dial", "work", "affected", "catch", "leave", "crashed"}
    /\ proc \in Procs
    /\ thrown \in Exceptions \cup {"none"}
    /\ db \in Handles
    /\ ret \in {"none", "true", "false"}
    /\ calls \in Nat
    /\ blind \in Nat

\* A failed query or fetch closes the handle before it throws and some handlers
\* close it as well: no path does both, none works on a closed handle, and none
\* closes raw memory.
ClosedOnce ==
    {"double_close", "close_raw", "query_unopened", "error_after_close"} \cap db.faults = {}

\* What calls leave behind is accounted for: a connection is held only through
\* a handle that was not closed, and between calls there is at most one such
\* handle for each call that ended in a handler that does not close it.
LeaksExplained ==
    /\ db.sessions <= db.live
    /\ pc = "idle" => db.live <= blind

\* A text that is missing ends the process, but the functions of mariadb.cpp attach
\* one to whatever they throw: only a user's function can do this, on its session,
\* and saving an alarm never does.
DiesOnlyByUser ==
    pc = "crashed" => proc = "query_helper" /\ db.state = "open"

\* tests/utest-common.cpp:116-117: after connect_db_with_except has thrown, the
\* handle is given to disconnect_db.
HandleReleased == pc = "idle" => db.live = 0

=============================================================================
