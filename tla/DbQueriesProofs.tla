-------------------------- MODULE DbQueriesProofs --------------------------
(* Theorems about DbQueries, for every number of calls and of result sets.   *)
EXTENDS DbQueries, MySqlClientLemmas

\* The state of the handle at each point of a call.
HandleAt ==
    /\ pc = "init" => db.state = "raw"
    /\ pc \in {"parse", "dial"} => db.state = "init"
    /\ pc \in {"work", "affected"} => db.state = "open"
    /\ pc = "leave" => db.state = "closed"
    /\ pc = "affected" => proc = "save_alarm_to_db"
    /\ pc = "catch" => thrown # "none"
    /\ pc \in {"catch", "crashed"} /\ thrown = "bare_boost" => proc = "query_helper" /\ db.state = "open"
    /\ pc = "crashed" => thrown = "bare_boost"
    /\ pc = "catch" /\ thrown \in Closing(proc) => db.state = "open"

\* During a call its own handle is the only one not accounted for by blind.
Balance ==
    /\ pc = "idle" => db.live <= blind /\ db.sessions <= db.live
    /\ pc # "idle" /\ db.state = "init" =>
          db.live <= blind + 1 /\ db.sessions + 1 <= db.live
    /\ pc # "idle" /\ db.state = "open" =>
          db.live <= blind + 1 /\ db.sessions <= db.live /\ 0 < db.sessions
    /\ pc # "idle" /\ db.state \in {"raw", "closed"} =>
          db.live <= blind /\ db.sessions <= db.live

IInv == TypeOK /\ HandleAt /\ Balance /\ ClosedOnce

-----------------------------------------------------------------------------
(* The inductive invariant. *)

\* The first call has yet to begin.
LEMMA InitInv == Init => IInv
BY RawFields DEF Init, IInv, TypeOK, HandleAt, Balance, ClosedOnce

\* A call begins with a raw handle.
LEMMA CallInv ==
    ASSUME IInv, NEW p \in Procs, Call(p)
    PROVE  IInv'
<1> USE DEF IInv, Call, Step
<1>1. db \in Handles
  BY DEF TypeOK
<1>2. /\ db' \in Handles /\ db'.state = "raw" /\ db'.live = db.live
      /\ db'.sessions = db.sessions /\ db'.results = db.results
      /\ db'.faults = db.faults
  BY <1>1 DEF Handles, HandleStates
<1>3. TypeOK'
  BY <1>2 DEF TypeOK
<1>4. HandleAt' /\ Balance' /\ ClosedOnce'
  BY <1>2 DEF HandleAt, Balance, ClosedOnce
<1> QED
  BY <1>3, <1>4

\* The handle is initialised, or cannot be.
LEMMA InitHandleInv == IInv /\ InitHandle => IInv'
<1> SUFFICES ASSUME IInv, InitHandle PROVE IInv'
  OBVIOUS
<1> USE DEF IInv, InitHandle, SameCall, Throw
<1>0. db \in Handles /\ blind \in Nat
  BY DEF TypeOK
<1>1. /\ db \in Handles /\ db.state \in HandleStates /\ db.live \in Nat
      /\ db.sessions \in Nat /\ db.results \in Nat
  BY <1>0, HandleFields
<1>2. \/ /\ pc' = "parse" /\ thrown' = thrown
         /\ db' \in Handles /\ db'.state = "init"
         /\ db'.live = db.live + 1 /\ db'.sessions = db.sessions
         /\ db'.results = db.results /\ db'.faults = db.faults
      \/ /\ pc' = "catch" /\ thrown' = "boost"
         /\ db' \in Handles /\ db'.state = db.state /\ db'.live = db.live
         /\ db'.sessions = db.sessions /\ db'.results = db.results
         /\ db'.faults \ db.faults \subseteq {"error_raw"}
  BY <1>1, OpeningFields, ReadErrorFields DEF HandleAt
<1>3. TypeOK'
  BY <1>2 DEF TypeOK, Exceptions
<1>4. HandleAt'
  BY <1>1, <1>2 DEF TypeOK, HandleAt, Closing, Exceptions
<1>5. Balance'
  BY <1>0, <1>1, <1>2 DEF HandleAt, Balance, HandleStates
<1>6. ClosedOnce'
  BY <1>1, <1>2 DEF HandleAt, ClosedOnce
<1> QED
  BY <1>3, <1>4, <1>5, <1>6

\* The URI is parsed.
LEMMA ParseUriInv == IInv /\ ParseUri => IInv'
<1> SUFFICES ASSUME IInv, ParseUri PROVE IInv'
  OBVIOUS
<1> USE DEF IInv, ParseUri, SameCall, Throw
<1>0. db \in Handles /\ blind \in Nat
  BY DEF TypeOK
<1>1. /\ db \in Handles /\ db.state \in HandleStates /\ db.live \in Nat
      /\ db.sessions \in Nat /\ db.results \in Nat
  BY <1>0, HandleFields
<1>2. db' = db
  OBVIOUS
<1>3. TypeOK'
  BY <1>2 DEF TypeOK, Exceptions
<1>4. HandleAt'
  BY <1>1, <1>2 DEF TypeOK, HandleAt, Closing, Exceptions
<1>5. Balance'
  BY <1>0, <1>1, <1>2 DEF HandleAt, Balance, HandleStates
<1>6. ClosedOnce'
  BY <1>1, <1>2 DEF HandleAt, ClosedOnce
<1> QED
  BY <1>3, <1>4, <1>5, <1>6

\* The server is connected to.
LEMMA DialInv == IInv /\ Dial => IInv'
<1> SUFFICES ASSUME IInv, Dial PROVE IInv'
  OBVIOUS
<1> USE DEF IInv, Dial, SameCall, Throw
<1>0. db \in Handles /\ blind \in Nat
  BY DEF TypeOK
<1>1. /\ db \in Handles /\ db.state \in HandleStates /\ db.live \in Nat
      /\ db.sessions \in Nat /\ db.results \in Nat
  BY <1>0, HandleFields
<1>2. \/ /\ pc' = "work" /\ thrown' = thrown
         /\ db' \in Handles /\ db'.state = "open"
         /\ db'.live = db.live /\ db'.sessions = db.sessions + 1
         /\ db'.results = db.results /\ db'.faults = db.faults
      \/ /\ pc' = "catch" /\ thrown' = "boost"
         /\ db' \in Handles /\ db'.state = db.state /\ db'.live = db.live
         /\ db'.sessions = db.sessions /\ db'.results = db.results
         /\ db'.faults \ db.faults \subseteq {"error_raw"}
  BY <1>1, OpeningFields, ReadErrorFields DEF HandleAt
<1>3. TypeOK'
  BY <1>2 DEF TypeOK, Exceptions
<1>4. HandleAt'
  BY <1>1, <1>2 DEF TypeOK, HandleAt, Closing, Exceptions
<1>5. Balance'
  BY <1>0, <1>1, <1>2 DEF HandleAt, Balance, HandleStates
<1>6. ClosedOnce'
  BY <1>1, <1>2 DEF HandleAt, ClosedOnce
<1> QED
  BY <1>3, <1>4, <1>5, <1>6

\* The user's function sends a query.
LEMMA FuncQueryInv == IInv /\ FuncQuery => IInv'
<1> SUFFICES ASSUME IInv, FuncQuery PROVE IInv'
  OBVIOUS
<1> USE DEF IInv, FuncQuery, SameCall, Throw
<1>0. db \in Handles /\ blind \in Nat
  BY DEF TypeOK
<1>1. /\ db \in Handles /\ db.state \in HandleStates /\ db.live \in Nat
      /\ db.sessions \in Nat /\ db.results \in Nat
  BY <1>0, HandleFields
<1>a. db.state = "open" /\ db.live > 0 /\ db.sessions > 0
  BY <1>0, <1>1 DEF HandleAt, Balance
<1>b. QueryFails(db) = Close(db) /\ FetchFails(db) = Close(db) /\ Query(db) = db
  BY <1>1, <1>a, QueryOpen, FailureFields
<1>2. \/ pc' = pc /\ thrown' = thrown /\ db' = db
      \/ /\ pc' = "catch" /\ thrown' = "boost"
         /\ db' \in Handles /\ db'.state = "closed"
         /\ db'.live = db.live - 1 /\ db'.sessions = db.sessions - 1
         /\ db'.results = db.results /\ db'.faults = db.faults
  BY <1>1, <1>a, <1>b, CloseFields
<1>3. TypeOK'
  BY <1>2 DEF TypeOK, Exceptions
<1>4. HandleAt'
  BY <1>1, <1>2 DEF TypeOK, HandleAt, Closing, Exceptions
<1>5. Balance'
  BY <1>0, <1>1, <1>2 DEF HandleAt, Balance, HandleStates
<1>6. ClosedOnce'
  BY <1>1, <1>2 DEF HandleAt, ClosedOnce
<1> QED
  BY <1>3, <1>4, <1>5, <1>6

\* The user's function fetches a result.
LEMMA FuncFetchInv == IInv /\ FuncFetch => IInv'
<1> SUFFICES ASSUME IInv, FuncFetch PROVE IInv'
  OBVIOUS
<1> USE DEF IInv, FuncFetch, SameCall, Throw
<1>0. db \in Handles /\ blind \in Nat
  BY DEF TypeOK
<1>1. /\ db \in Handles /\ db.state \in HandleStates /\ db.live \in Nat
      /\ db.sessions \in Nat /\ db.results \in Nat
  BY <1>0, HandleFields
<1>a. db.state = "open" /\ db.live > 0 /\ db.sessions > 0
  BY <1>0, <1>1 DEF HandleAt, Balance
<1>b. QueryFails(db) = Close(db) /\ FetchFails(db) = Close(db) /\ Query(db) = db
  BY <1>1, <1>a, QueryOpen, FailureFields
<1> DEFINE g == [db EXCEPT !.results = db.results + 1]
<1>c. /\ g \in Handles /\ g.state = db.state /\ g.live = db.live
      /\ g.sessions = db.sessions /\ g.results = db.results + 1
      /\ g.faults = db.faults
  BY <1>1, db.results + 1 \in Nat, ResultFields
<1>d. StoreResult(db) = g
  BY <1>1, <1>a, StoreOpen
<1> HIDE DEF g
<1>2. \/ /\ pc' = pc /\ thrown' = thrown
         /\ db' \in Handles /\ db'.state = db.state
         /\ db'.live = db.live /\ db'.sessions = db.sessions
         /\ db'.results = db.results + 1 /\ db'.faults = db.faults
      \/ /\ pc' = "catch" /\ thrown' = "boost"
         /\ db' \in Handles /\ db'.state = "closed"
         /\ db'.live = db.live - 1 /\ db'.sessions = db.sessions - 1
         /\ db'.results = db.results /\ db'.faults = db.faults
  BY <1>1, <1>a, <1>b, <1>c, <1>d, CloseFields
<1>3. TypeOK'
  BY <1>2 DEF TypeOK, Exceptions
<1>4. HandleAt'
  BY <1>1, <1>2 DEF TypeOK, HandleAt, Closing, Exceptions
<1>5. Balance'
  BY <1>0, <1>1, <1>2 DEF HandleAt, Balance, HandleStates
<1>6. ClosedOnce'
  BY <1>1, <1>2 DEF HandleAt, ClosedOnce
<1> QED
  BY <1>3, <1>4, <1>5, <1>6

\* The user's function frees a result.
LEMMA FuncFreeInv == IInv /\ FuncFree => IInv'
<1> SUFFICES ASSUME IInv, FuncFree PROVE IInv'
  OBVIOUS
<1> USE DEF IInv, FuncFree, FuncFreeIf, SameCall
<1>0. db \in Handles /\ blind \in Nat
  BY DEF TypeOK
<1>1. /\ db \in Handles /\ db.state \in HandleStates /\ db.live \in Nat
      /\ db.sessions \in Nat /\ db.results \in Nat
  BY <1>0, HandleFields
<1>a. db.results - 1 \in Nat
  BY <1>1, HandleFields
<1>b. db' = [db EXCEPT !.results = db.results - 1]
  BY <1>1 DEF FreeResult, Handles
<1>2. /\ db' \in Handles /\ db'.state = db.state
      /\ db'.live = db.live /\ db'.sessions = db.sessions
      /\ db'.results = db.results - 1 /\ db'.faults = db.faults
  BY <1>1, <1>a, <1>b, ResultFields
<1>3. TypeOK'
  BY <1>2 DEF TypeOK, Exceptions
<1>4. HandleAt'
  BY <1>1, <1>2 DEF TypeOK, HandleAt, Closing, Exceptions
<1>5. Balance'
  BY <1>0, <1>1, <1>2 DEF HandleAt, Balance, HandleStates
<1>6. ClosedOnce'
  BY <1>1, <1>2 DEF HandleAt, ClosedOnce
<1> QED
  BY <1>3, <1>4, <1>5, <1>6

\* The user's function throws.
LEMMA FuncThrowsInv == IInv /\ FuncThrows => IInv'
<1> SUFFICES ASSUME IInv, FuncThrows PROVE IInv'
  OBVIOUS
<1> USE DEF IInv, FuncThrows, Throw
<1>0. db \in Handles /\ blind \in Nat
  BY DEF TypeOK
<1>1. /\ db \in Handles /\ db.state \in HandleStates /\ db.live \in Nat
      /\ db.sessions \in Nat /\ db.results \in Nat
  BY <1>0, HandleFields
<1>2. db' = db
  OBVIOUS
<1>3. TypeOK'
  BY <1>2 DEF TypeOK, Exceptions
<1>4. HandleAt'
  BY <1>1, <1>2 DEF TypeOK, HandleAt, Closing, Exceptions
<1>5. Balance'
  BY <1>0, <1>1, <1>2 DEF HandleAt, Balance, HandleStates
<1>6. ClosedOnce'
  BY <1>1, <1>2 DEF HandleAt, ClosedOnce
<1> QED
  BY <1>3, <1>4, <1>5, <1>6

\* The user's function returns.
LEMMA FuncReturnsInv == IInv /\ FuncReturns => IInv'
<1> SUFFICES ASSUME IInv, FuncReturns PROVE IInv'
  OBVIOUS
<1> USE DEF IInv, FuncReturns, FuncReturnsWith, SameCall, Step
<1>0. db \in Handles /\ blind \in Nat
  BY DEF TypeOK
<1>1. /\ db \in Handles /\ db.state \in HandleStates /\ db.live \in Nat
      /\ db.sessions \in Nat /\ db.results \in Nat
  BY <1>0, HandleFields
<1>a. db.state = "open" /\ db.live > 0 /\ db.sessions > 0
  BY <1>0, <1>1 DEF HandleAt, Balance
<1>2. /\ db' \in Handles /\ db'.state = "closed"
      /\ db'.live = db.live - 1 /\ db'.sessions = db.sessions - 1
      /\ db'.results = db.results /\ db'.faults = db.faults
  BY <1>1, <1>a, CloseFields DEF Disconnect
<1>3. TypeOK'
  BY <1>2 DEF TypeOK, Exceptions
<1>4. HandleAt'
  BY <1>1, <1>2 DEF TypeOK, HandleAt, Closing, Exceptions
<1>5. Balance'
  BY <1>0, <1>1, <1>2 DEF HandleAt, Balance, HandleStates
<1>6. ClosedOnce'
  BY <1>1, <1>2 DEF HandleAt, ClosedOnce
<1> QED
  BY <1>3, <1>4, <1>5, <1>6

\* The alarm is inserted.
LEMMA InsertInv == IInv /\ Insert => IInv'
<1> SUFFICES ASSUME IInv, Insert PROVE IInv'
  OBVIOUS
<1> USE DEF IInv, Insert, InsertOr, SameCall, Throw
<1>0. db \in Handles /\ blind \in Nat
  BY DEF TypeOK
<1>1. /\ db \in Handles /\ db.state \in HandleStates /\ db.live \in Nat
      /\ db.sessions \in Nat /\ db.results \in Nat
  BY <1>0, HandleFields
<1>a. db.state = "open" /\ db.live > 0 /\ db.sessions > 0
  BY <1>0, <1>1 DEF HandleAt, Balance
<1>b. QueryFails(db) = Close(db) /\ FetchFails(db) = Close(db) /\ Query(db) = db
  BY <1>1, <1>a, QueryOpen, FailureFields
<1>2. \/ pc' = "affected" /\ thrown' = thrown /\ db' = db
      \/ /\ pc' = "catch" /\ thrown' = "boost"
         /\ db' \in Handles /\ db'.state = "closed"
         /\ db'.live = db.live - 1 /\ db'.sessions = db.sessions - 1
         /\ db'.results = db.results /\ db'.faults = db.faults
  BY <1>1, <1>a, <1>b, CloseFields
<1>3. TypeOK'
  BY <1>2 DEF TypeOK, Exceptions
<1>4. HandleAt'
  BY <1>1, <1>2 DEF TypeOK, HandleAt, Closing, Exceptions
<1>5. Balance'
  BY <1>0, <1>1, <1>2 DEF HandleAt, Balance, HandleStates
<1>6. ClosedOnce'
  BY <1>1, <1>2 DEF HandleAt, ClosedOnce
<1> QED
  BY <1>3, <1>4, <1>5, <1>6

\* The rows inserted are counted.
LEMMA CheckAffectedInv == IInv /\ CheckAffected => IInv'
<1> SUFFICES ASSUME IInv, CheckAffected PROVE IInv'
  OBVIOUS
<1> USE DEF IInv, CheckAffected, SameCall, Throw
<1>0. db \in Handles /\ blind \in Nat
  BY DEF TypeOK
<1>1. /\ db \in Handles /\ db.state \in HandleStates /\ db.live \in Nat
      /\ db.sessions \in Nat /\ db.results \in Nat
  BY <1>0, HandleFields
<1>a. db.state = "open" /\ db.live > 0 /\ db.sessions > 0
  BY <1>0, <1>1 DEF HandleAt, Balance
<1>b. QueryFails(db) = Close(db) /\ FetchFails(db) = Close(db) /\ Query(db) = db
  BY <1>1, <1>a, QueryOpen, FailureFields
<1>2. \/ /\ pc' = "leave" /\ thrown' = thrown
         /\ db' \in Handles /\ db'.state = "closed"
         /\ db'.live = db.live - 1 /\ db'.sessions = db.sessions - 1
         /\ db'.results = db.results /\ db'.faults = db.faults
      \/ pc' = "catch" /\ thrown' = "invalid_argument" /\ db' = db
  BY <1>1, <1>a, <1>b, CloseFields DEF Disconnect
<1>3. TypeOK'
  BY <1>2 DEF TypeOK, Exceptions
<1>4. HandleAt'
  BY <1>1, <1>2 DEF TypeOK, HandleAt, Closing, Exceptions
<1>5. Balance'
  BY <1>0, <1>1, <1>2 DEF HandleAt, Balance, HandleStates
<1>6. ClosedOnce'
  BY <1>1, <1>2 DEF HandleAt, ClosedOnce
<1> QED
  BY <1>3, <1>4, <1>5, <1>6

\* A handler ends the call.
LEMMA CatchInv == IInv /\ Catch => IInv'
<1> SUFFICES ASSUME IInv, Catch PROVE IInv'
  OBVIOUS
<1> USE DEF IInv, Catch, Return
<1>0. db \in Handles /\ blind \in Nat
  BY DEF TypeOK
<1>1. /\ db \in Handles /\ db.state \in HandleStates /\ db.live \in Nat
      /\ db.sessions \in Nat /\ db.results \in Nat
  BY <1>0, HandleFields
<1>2. \/ thrown \notin Closing(proc) /\ db' = db /\ blind' = blind + 1
      \/ /\ thrown \in Closing(proc) /\ blind' = blind /\ db.state = "open"
         /\ db' \in Handles /\ db'.state = "closed"
         /\ db'.live = db.live - 1 /\ db'.sessions = db.sessions - 1
         /\ db'.results = db.results /\ db'.faults = db.faults
  <2>1. CASE thrown \in Closing(proc)
    <3>1. db.state = "open" /\ db.live > 0 /\ db.sessions > 0
      BY <2>1, <1>0, <1>1 DEF HandleAt, Balance
    <3> QED
      BY <2>1, <3>1, <1>1, CloseFields DEF Disconnect
  <2>2. CASE thrown \notin Closing(proc)
    BY <2>2
  <2> QED
    BY <2>1, <2>2
<1>3. TypeOK'
  BY <1>2 DEF TypeOK, Exceptions
<1>4. HandleAt'
  BY <1>1, <1>2 DEF TypeOK, HandleAt, Closing, Exceptions
<1>5. Balance'
  BY <1>0, <1>1, <1>2 DEF HandleAt, Balance, HandleStates
<1>6. ClosedOnce'
  BY <1>1, <1>2 DEF HandleAt, ClosedOnce
<1> QED
  BY <1>3, <1>4, <1>5, <1>6

\* The process dies: nothing else changes, and only a user's function leads here.
LEMMA CatchBareInv == IInv /\ CatchBare => IInv'
<1> SUFFICES ASSUME IInv, CatchBare PROVE IInv'
  OBVIOUS
<1> USE DEF IInv, CatchBare, SameCall, Step
<1>1. TypeOK' /\ ClosedOnce'
  BY DEF TypeOK, ClosedOnce
<1>2. HandleAt'
  BY DEF HandleAt
<1>3. Balance'
  BY DEF HandleAt, Balance
<1> QED
  BY <1>1, <1>2, <1>3

\* The call returns TRUE.
LEMMA LeaveInv == IInv /\ Leave => IInv'
<1> SUFFICES ASSUME IInv, Leave PROVE IInv'
  OBVIOUS
<1> USE DEF IInv, Leave, Return
<1>0. db \in Handles /\ blind \in Nat
  BY DEF TypeOK
<1>1. /\ db \in Handles /\ db.state \in HandleStates /\ db.live \in Nat
      /\ db.sessions \in Nat /\ db.results \in Nat
  BY <1>0, HandleFields
<1>2. db' = db
  OBVIOUS
<1>3. TypeOK'
  BY <1>2 DEF TypeOK, Exceptions
<1>4. HandleAt'
  BY <1>1, <1>2 DEF TypeOK, HandleAt, Closing, Exceptions
<1>5. Balance'
  BY <1>0, <1>1, <1>2 DEF HandleAt, Balance, HandleStates
<1>6. ClosedOnce'
  BY <1>1, <1>2 DEF HandleAt, ClosedOnce
<1> QED
  BY <1>3, <1>4, <1>5, <1>6

-----------------------------------------------------------------------------
(* Theorems of the specification. *)

\* The inductive invariant holds of every behaviour.
LEMMA Invariance == Spec => []IInv
<1>1. Init => IInv
  BY InitInv
<1>2. IInv /\ [Next]_vars => IInv'
  <2> SUFFICES ASSUME IInv, [Next]_vars PROVE IInv'
    OBVIOUS
  <2>1. CASE \E p \in Procs : Call(p)
    BY <2>1, CallInv
  <2>2. CASE InitHandle \/ ParseUri \/ Dial
    BY <2>2, InitHandleInv, ParseUriInv, DialInv
  <2>3. CASE FuncQuery \/ FuncFetch \/ FuncFree \/ FuncThrows \/ FuncReturns
    BY <2>3, FuncQueryInv, FuncFetchInv, FuncFreeInv, FuncThrowsInv, FuncReturnsInv
  <2>4. CASE Insert \/ CheckAffected \/ Catch \/ CatchBare \/ Leave
    BY <2>4, InsertInv, CheckAffectedInv, CatchInv, CatchBareInv, LeaveInv
  <2>5. CASE UNCHANGED vars
    BY <2>5 DEF vars, IInv, TypeOK, HandleAt, Balance, ClosedOnce
  <2> QED
    BY <2>1, <2>2, <2>3, <2>4, <2>5 DEF Next
<1> QED
  BY <1>1, <1>2, PTL DEF Spec

\* Every variable keeps its type: no count goes below zero.
THEOREM TypeCorrect == Spec => []TypeOK
<1>1. IInv => TypeOK
  BY DEF IInv
<1> QED
  BY <1>1, Invariance, PTL

\* No path through the helpers and the handlers closes a handle twice.
THEOREM NoPathClosesTwice == Spec => []ClosedOnce
<1>1. IInv => ClosedOnce
  BY DEF IInv
<1> QED
  BY <1>1, Invariance, PTL

\* Handles and connections are left behind only by the handlers that do not
\* close them, one for each call at most.
THEOREM LeakAccount == Spec => []LeaksExplained
<1>1. IInv => LeaksExplained
  <2> SUFFICES ASSUME IInv PROVE LeaksExplained
    OBVIOUS
  <2>1. db \in Handles
    BY DEF IInv, TypeOK
  <2>2. db.state \in HandleStates /\ db.sessions \in Nat /\ db.live \in Nat
    BY <2>1, HandleFields
  <2> QED
    BY <2>2 DEF IInv, Balance, LeaksExplained, HandleStates
<1> QED
  BY <1>1, Invariance, PTL

\* No text is missing from an exception of mariadb.cpp itself: a handler dies on one
\* only when a user's function threw it, with its session still open.
THEOREM DeathCause == Spec => []DiesOnlyByUser
<1>1. IInv => DiesOnlyByUser
  BY DEF IInv, HandleAt, DiesOnlyByUser
<1> QED
  BY <1>1, Invariance, PTL

=============================================================================
