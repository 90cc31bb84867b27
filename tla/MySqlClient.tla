---------------------------- MODULE MySqlClient ----------------------------
(* The MySQL client library as common/mariadb.cpp uses it: what each call    *)
(* does to a MYSQL handle.  The library is external; its rules are those the *)
(* source relies on: mysql_init makes raw memory a handle, mysql_real_connect*)
(* opens a session, mysql_close ends the session and releases the handle,    *)
(* and a released handle may only be initialised again.                      *)
EXTENDS Naturals

HandleStates == {"raw", "init", "open", "closed"}

\* The ways a call may break the rules.
Faults == {"close_raw", "double_close", "error_raw", "error_after_close", "query_unopened"}

\* state: the handle; live: times it was initialised and not yet closed;
\* sessions: connections the server holds for this process, whether or not the
\* handle still leads to them; results: result sets not freed.
Handles == [state : HandleStates, live : Nat, sessions : Nat, results : Nat,
            faults : SUBSET Faults]

\* MYSQL db; on the stack.
RawHandle == [state |-> "raw", live |-> 0, sessions |-> 0, results |-> 0,
              faults |-> {}]

Blame(h, f) == [h EXCEPT !.faults = @ \cup f]

\* mysql_init overwrites the structure: a session it led to is orphaned.
Initialise(h) == [h EXCEPT !.state = "init", !.live = @ + 1]

\* mysql_real_connect succeeds; when it fails the handle is as it was.
Open(h) == [h EXCEPT !.state = "open", !.sessions = @ + 1]

\* mysql_close.
Close(h) ==
    [h EXCEPT
        !.state = "closed",
        !.live = IF h.state \in {"init", "open"} THEN @ - 1 ELSE @,
        !.sessions = IF h.state = "open" THEN @ - 1 ELSE @,
        !.faults = @ \cup (IF h.state = "raw" THEN {"close_raw"} ELSE {})
                     \cup (IF h.state = "closed" THEN {"double_close"} ELSE {})]

\* mysql_error reads the text kept in the handle.
ReadError(h) ==
    Blame(h, (IF h.state = "raw" THEN {"error_raw"} ELSE {})
             \cup (IF h.state = "closed" THEN {"error_after_close"} ELSE {}))

\* mysql_query and mysql_store_result need a session.
Query(h) == Blame(h, IF h.state = "open" THEN {} ELSE {"query_unopened"})

StoreResult(h) == [Query(h) EXCEPT !.results = @ + 1]

FreeResult(h) == [h EXCEPT !.results = @ - 1]

-----------------------------------------------------------------------------
(* The helpers of common/mariadb.cpp that act on a handle in one piece. *)

\* query_db_with_except, lines 338-345: the query failed; the error text is
\* read, the handle is closed and a boost::exception is thrown.
QueryFails(h) == Close(ReadError(Query(h)))

\* fetch_result_db_with_except, lines 198-205: there was no result set.
FetchFails(h) == Close(Query(h))

\* disconnect_db, lines 216-224, with a NULL result.
Disconnect(h) == Close(h)

=============================================================================
