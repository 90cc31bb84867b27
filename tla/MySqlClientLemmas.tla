------------------------- MODULE MySqlClientLemmas -------------------------
(* What the calls of the client library do to a handle, field by field: the  *)
(* facts the proofs about SettingsLoader and DbQueries rest on.              *)
EXTENDS MySqlClient, TLAPS

\* Memory on the stack is a handle nothing was done with.
LEMMA RawFields ==
    /\ RawHandle \in Handles
    /\ RawHandle.state = "raw"
    /\ RawHandle.live = 0
    /\ RawHandle.sessions = 0
    /\ RawHandle.results = 0
    /\ RawHandle.faults = {}
BY DEF RawHandle, Handles, HandleStates, Faults

\* The fields of a handle.
LEMMA HandleFields ==
    ASSUME NEW h \in Handles
    PROVE  /\ h.state \in HandleStates
           /\ h.live \in Nat
           /\ h.sessions \in Nat
           /\ h.results \in Nat
           /\ h.faults \in SUBSET Faults
BY DEF Handles

\* Blaming a handle changes its faults only.
LEMMA BlameFields ==
    ASSUME NEW h \in Handles, NEW f \in SUBSET Faults
    PROVE  /\ Blame(h, f) \in Handles
           /\ Blame(h, f).state = h.state
           /\ Blame(h, f).live = h.live
           /\ Blame(h, f).sessions = h.sessions
           /\ Blame(h, f).results = h.results
           /\ Blame(h, f).faults = h.faults \cup f
<1>1. h.faults \cup f \in SUBSET Faults
  BY DEF Handles
<1> QED
  BY <1>1 DEF Handles, Blame

\* Reading the error text changes no field but the faults.
LEMMA ReadErrorFields ==
    ASSUME NEW h \in Handles
    PROVE  /\ ReadError(h) \in Handles
           /\ ReadError(h).state = h.state
           /\ ReadError(h).live = h.live
           /\ ReadError(h).sessions = h.sessions
           /\ ReadError(h).results = h.results
           /\ ReadError(h).faults \ h.faults \subseteq {"error_raw", "error_after_close"}
           /\ h.state # "closed" => ReadError(h).faults \ h.faults \subseteq {"error_raw"}
           /\ h.faults \subseteq ReadError(h).faults
           /\ h.state = "closed" => "error_after_close" \in ReadError(h).faults
<1> DEFINE f == (IF h.state = "raw" THEN {"error_raw"} ELSE {})
                \cup (IF h.state = "closed" THEN {"error_after_close"} ELSE {})
<1>1. f \in SUBSET Faults /\ f \subseteq {"error_raw", "error_after_close"}
  BY DEF Faults
<1>2. ReadError(h) = Blame(h, f)
  BY DEF ReadError
<1>3. /\ h.state # "closed" => f \subseteq {"error_raw"}
      /\ h.state = "closed" => "error_after_close" \in f
  OBVIOUS
<1> HIDE DEF f
<1>4. /\ ReadError(h) \in Handles
      /\ ReadError(h).state = h.state
      /\ ReadError(h).live = h.live
      /\ ReadError(h).sessions = h.sessions
      /\ ReadError(h).results = h.results
      /\ ReadError(h).faults = h.faults \cup f
  BY <1>1, <1>2, BlameFields
<1>5. ReadError(h).faults \ h.faults \subseteq f
  BY <1>4
<1> QED
  BY <1>1, <1>3, <1>4, <1>5

\* A query on an open handle changes nothing.
LEMMA QueryOpen ==
    ASSUME NEW h \in Handles, h.state = "open"
    PROVE  Query(h) = h
BY DEF Handles, Query, Blame

\* Closing a handle that leads to its session ends it.
LEMMA CloseFields ==
    ASSUME NEW h \in Handles, h.state # "raw",
           h.state \in {"init", "open"} => h.live > 0,
           h.state = "open" => h.sessions > 0
    PROVE  /\ Close(h) \in Handles
           /\ Close(h).state = "closed"
           /\ Close(h).sessions = IF h.state = "open" THEN h.sessions - 1 ELSE h.sessions
           /\ Close(h).live = IF h.state \in {"init", "open"} THEN h.live - 1 ELSE h.live
           /\ Close(h).results = h.results
           /\ Close(h).faults \ h.faults \subseteq {"double_close"}
           /\ h.state # "closed" => Close(h).faults = h.faults
           /\ h.faults \subseteq Close(h).faults
<1> DEFINE n == IF h.state = "open" THEN h.sessions - 1 ELSE h.sessions
<1> DEFINE l == IF h.state \in {"init", "open"} THEN h.live - 1 ELSE h.live
<1> DEFINE f == h.faults \cup (IF h.state = "closed" THEN {"double_close"} ELSE {})
<1>1. n \in Nat /\ l \in Nat
  BY DEF Handles
<1>2. f \in SUBSET Faults /\ f \ h.faults \subseteq {"double_close"} /\ h.faults \subseteq f
  BY DEF Handles, Faults
<1>3. h.state # "closed" => f = h.faults
  OBVIOUS
<1>4. "closed" \in HandleStates
  BY DEF HandleStates
<1>5. Close(h) = [h EXCEPT !.state = "closed", !.live = l, !.sessions = n, !.faults = f]
  BY DEF Handles, Close
<1> HIDE DEF n, l, f
<1>6. /\ Close(h) \in Handles
      /\ Close(h).state = "closed"
      /\ Close(h).live = l
      /\ Close(h).sessions = n
      /\ Close(h).results = h.results
      /\ Close(h).faults = f
  BY <1>1, <1>2, <1>4, <1>5 DEF Handles
<1> QED
  BY <1>2, <1>3, <1>6 DEF n, l

\* A query or a fetch that fails on an open handle leaves it closed.
LEMMA FailureFields ==
    ASSUME NEW h \in Handles, h.state = "open"
    PROVE  /\ QueryFails(h) = Close(h)
           /\ FetchFails(h) = Close(h)
<1>1. Query(h) = h
  BY QueryOpen
<1>2. ReadError(h) = h
  BY DEF ReadError, Blame, Handles
<1> QED
  BY <1>1, <1>2 DEF QueryFails, FetchFails

\* The calls that open: a handle, a session, a result set.
LEMMA OpeningFields ==
    ASSUME NEW h \in Handles
    PROVE  /\ Initialise(h) \in Handles
           /\ Initialise(h).state = "init"
           /\ Initialise(h).live = h.live + 1
           /\ Initialise(h).sessions = h.sessions
           /\ Initialise(h).results = h.results
           /\ Initialise(h).faults = h.faults
           /\ Open(h) \in Handles
           /\ Open(h).state = "open"
           /\ Open(h).live = h.live
           /\ Open(h).sessions = h.sessions + 1
           /\ Open(h).results = h.results
           /\ Open(h).faults = h.faults
<1>1. h.live + 1 \in Nat /\ h.sessions + 1 \in Nat
  BY DEF Handles
<1>2. "init" \in HandleStates /\ "open" \in HandleStates
  BY DEF HandleStates
<1>3. Initialise(h) \in Handles
  BY <1>1, <1>2 DEF Handles, Initialise
<1>4. Open(h) \in Handles
  BY <1>1, <1>2 DEF Handles, Open
<1> QED
  BY <1>3, <1>4 DEF Handles, Initialise, Open

\* The calls that store and free a result set.
LEMMA ResultFields ==
    ASSUME NEW h \in Handles, NEW k \in Nat
    PROVE  LET g == [h EXCEPT !.results = k]
           IN  /\ g \in Handles
               /\ g.state = h.state
               /\ g.live = h.live
               /\ g.sessions = h.sessions
               /\ g.results = k
               /\ g.faults = h.faults
BY DEF Handles

\* A fetch on an open handle adds one result set.
LEMMA StoreOpen ==
    ASSUME NEW h \in Handles, h.state = "open"
    PROVE  StoreResult(h) = [h EXCEPT !.results = h.results + 1]
<1>1. Query(h) = h
  BY QueryOpen
<1> QED
  BY <1>1 DEF StoreResult, Handles

=============================================================================
