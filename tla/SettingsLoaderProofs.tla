----------------------- MODULE SettingsLoaderProofs -----------------------
(* Theorems about SettingsLoader, for every number of attempts and every     *)
(* size of the table of settings.                                            *)
EXTENDS SettingsLoader, MySqlClientLemmas

\* The states of the handle at each point of the loader.
HandleAt ==
    /\ pc \in {"timezone", "settings", "fetch", "parser"} => db.state = "open"
    /\ pc \in {"parse", "dial"} => db.state = "init"
    /\ pc \in {"start", "attempt", "connectFailed", "sleep", "terminated"} => db.state # "open"
    /\ pc = "loadFailed" => db.state \in {"open", "closed"}

\* Sessions and handles are counted in step with the state of the handle.
Counts ==
    /\ db.sessions = IF db.state = "open" THEN 1 ELSE 0
    /\ db.state \in {"init", "open"} => db.live > 0
    /\ pc = "parser" => db.results > 0

\* The loop and its answer.
Loop ==
    /\ pc \notin {"start", "attempt", "done"} => retry < Attempts
    /\ pc = "start" => retry = 0
    /\ pc # "done" => ret = "none"
    /\ pc = "done" /\ ret = "true" => db.state = "open" /\ item = table
    /\ pc = "done" /\ ret = "false" => db.state # "open" /\ (enabled => retry = Attempts)

\* A handle that failed and was closed is one leak less; nothing leaks at first.
Leaks ==
    /\ LeakBound
    /\ pc = "start" => db.live + db.results = 0
    /\ pc = "loadFailed" /\ db.state = "closed" => db.live + db.results <= retry + 1

IInv ==
    TypeOK /\ HandleAt /\ Counts /\ Loop /\ QueriesHaveSession /\ Leaks /\ MisuseExplained

\* Parsing a URI comes to one of three ends.
LEMMA UriOutcome ==
    ASSUME NEW u
    PROVE  parse_database_uri(u) \subseteq {"accepted", "refused", "out_of_range"}
BY DEF parse_database_uri, Port

-----------------------------------------------------------------------------
(* The inductive invariant. *)

\* The loader starts with a raw handle.
LEMMA InitInv == Init => IInv
<1> SUFFICES ASSUME Init PROVE IInv
  OBVIOUS
<1>1. /\ db = RawHandle /\ RawHandle \in Handles
      /\ RawHandle.state = "raw" /\ RawHandle.sessions = 0
      /\ RawHandle.live = 0 /\ RawHandle.results = 0 /\ RawHandle.faults = {}
  BY DEF Init, RawHandle, Handles, HandleStates, Faults
<1> QED
  BY <1>1, AttemptsAssumption, TableAssumption
     DEF Init, IInv, TypeOK, HandleAt, Counts, Loop, QueriesHaveSession,
         Leaks, LeakBound, MisuseExplained

\* The loader is disabled.
LEMMA SkipInv == IInv /\ Skip => IInv'
<1> SUFFICES ASSUME IInv, Skip PROVE IInv'
  OBVIOUS
<1> USE AttemptsAssumption, TableAssumption DEF IInv, Skip, Done, config
<1>1. db \in Handles
  BY DEF TypeOK
<1>3. TypeOK'
  BY <1>1 DEF TypeOK, HandleAt, Counts, Loop
<1>4. HandleAt'
  BY <1>1 DEF TypeOK, HandleAt, Counts, Loop, Handles
<1>5. Counts'
  BY <1>1 DEF TypeOK, HandleAt, Counts, Loop, Handles
<1>6. Loop'
  BY <1>1 DEF TypeOK, HandleAt, Loop, Handles
<1>7. QueriesHaveSession'
  BY <1>1 DEF TypeOK, HandleAt, Counts, QueriesHaveSession, Handles
<1>8. Leaks'
  BY <1>1 DEF TypeOK, HandleAt, Counts, Leaks, LeakBound, Loop, Handles
<1>9. MisuseExplained'
  BY <1>1 DEF TypeOK, HandleAt, Loop, MisuseExplained, Handles
<1> QED
  BY <1>3, <1>4, <1>5, <1>6, <1>7, <1>8, <1>9

\* The loader begins.
LEMMA BeginInv == IInv /\ Begin => IInv'
<1> SUFFICES ASSUME IInv, Begin PROVE IInv'
  OBVIOUS
<1> USE AttemptsAssumption, TableAssumption DEF IInv, Begin, BeginWith, Step, SameLoop, config
<1>1. db \in Handles
  BY DEF TypeOK
<1>3. TypeOK'
  BY <1>1 DEF TypeOK, HandleAt, Counts, Loop
<1>4. HandleAt'
  BY <1>1 DEF TypeOK, HandleAt, Counts, Loop, Handles
<1>5. Counts'
  BY <1>1 DEF TypeOK, HandleAt, Counts, Loop, Handles
<1>6. Loop'
  BY <1>1 DEF TypeOK, HandleAt, Loop, Handles
<1>7. QueriesHaveSession'
  BY <1>1 DEF TypeOK, HandleAt, Counts, QueriesHaveSession, Handles
<1>8. Leaks'
  BY <1>1 DEF TypeOK, HandleAt, Counts, Leaks, LeakBound, Loop, Handles
<1>9. MisuseExplained'
  BY <1>1 DEF TypeOK, HandleAt, Loop, MisuseExplained, Handles
<1> QED
  BY <1>3, <1>4, <1>5, <1>6, <1>7, <1>8, <1>9

\* Every attempt has failed.
LEMMA GiveUpInv == IInv /\ GiveUp => IInv'
<1> SUFFICES ASSUME IInv, GiveUp PROVE IInv'
  OBVIOUS
<1> USE AttemptsAssumption, TableAssumption DEF IInv, GiveUp, Done, config
<1>1. db \in Handles
  BY DEF TypeOK
<1>3. TypeOK'
  BY <1>1 DEF TypeOK, HandleAt, Counts, Loop
<1>4. HandleAt'
  BY <1>1 DEF TypeOK, HandleAt, Counts, Loop, Handles
<1>5. Counts'
  BY <1>1 DEF TypeOK, HandleAt, Counts, Loop, Handles
<1>6. Loop'
  BY <1>1 DEF TypeOK, HandleAt, Loop, Handles
<1>7. QueriesHaveSession'
  BY <1>1 DEF TypeOK, HandleAt, Counts, QueriesHaveSession, Handles
<1>8. Leaks'
  BY <1>1 DEF TypeOK, HandleAt, Counts, Leaks, LeakBound, Loop, Handles
<1>9. MisuseExplained'
  BY <1>1 DEF TypeOK, HandleAt, Loop, MisuseExplained, Handles
<1> QED
  BY <1>3, <1>4, <1>5, <1>6, <1>7, <1>8, <1>9

\* The failure of a connection is logged.
LEMMA ConnectFailedInv == IInv /\ ConnectFailed => IInv'
<1> SUFFICES ASSUME IInv, ConnectFailed PROVE IInv'
  OBVIOUS
<1> USE AttemptsAssumption, TableAssumption DEF IInv, ConnectFailed, ConnectFailedThen, Step, SameLoop, config
<1>1. db \in Handles
  BY DEF TypeOK
<1>2. /\ db' \in Handles /\ db'.state = db.state /\ db'.live = db.live
      /\ db'.sessions = db.sessions /\ db'.results = db.results
      /\ db'.faults \ db.faults \subseteq {"error_raw", "error_after_close"}
      /\ db.faults \subseteq db'.faults
  BY <1>1, ReadErrorFields
<1>3. TypeOK'
  BY <1>2, <1>1 DEF TypeOK, HandleAt, Counts, Loop
<1>4. HandleAt'
  BY <1>2, <1>1 DEF TypeOK, HandleAt, Counts, Loop, Handles
<1>5. Counts'
  BY <1>2, <1>1 DEF TypeOK, HandleAt, Counts, Loop, Handles
<1>6. Loop'
  BY <1>2, <1>1 DEF TypeOK, HandleAt, Loop, Handles
<1>7. QueriesHaveSession'
  BY <1>2, <1>1 DEF TypeOK, HandleAt, Counts, QueriesHaveSession, Handles
<1>8. Leaks'
  BY <1>2, <1>1 DEF TypeOK, HandleAt, Counts, Leaks, LeakBound, Loop, Handles
<1>9. MisuseExplained'
  BY <1>2, <1>1 DEF TypeOK, HandleAt, Loop, MisuseExplained, Handles
<1> QED
  BY <1>3, <1>4, <1>5, <1>6, <1>7, <1>8, <1>9

\* A failed load is disconnected.
LEMMA LoadFailedInv == IInv /\ LoadFailed => IInv'
<1> SUFFICES ASSUME IInv, LoadFailed PROVE IInv'
  OBVIOUS
<1> USE AttemptsAssumption, TableAssumption DEF IInv, LoadFailed, LoadFailedWith, Step, SameLoop, config
<1>1. db \in Handles
  BY DEF TypeOK
<1> DEFINE h == ReadError(db)
<1>a. /\ h \in Handles /\ h.state = db.state /\ h.sessions = db.sessions
      /\ h.live = db.live /\ h.results = db.results
      /\ h.faults \ db.faults \subseteq {"error_raw", "error_after_close"}
      /\ db.faults \subseteq h.faults
      /\ h.state = "closed" => "error_after_close" \in h.faults
  BY <1>1, ReadErrorFields
<1> HIDE DEF h
<1>2. /\ db' = Close(h) /\ db' \in Handles /\ db'.state = "closed" /\ db'.sessions = 0
      /\ db'.results = db.results
      /\ db'.faults \ h.faults \subseteq {"double_close"}
      /\ h.faults \ db.faults \subseteq {"error_raw", "error_after_close"}
      /\ db.faults \subseteq db'.faults
      /\ "double_close" \in db'.faults =>
            "double_close" \in db.faults \/ "error_after_close" \in db'.faults
      /\ db'.live = IF db.state = "open" THEN db.live - 1 ELSE db.live
  BY <1>1, <1>a, CloseFields DEF HandleAt, Counts, Disconnect, h
<1>3. TypeOK'
  BY <1>2, <1>1 DEF TypeOK, HandleAt, Counts, Loop
<1>4. HandleAt'
  BY <1>2, <1>1 DEF TypeOK, HandleAt, Counts, Loop, Handles
<1>5. Counts'
  BY <1>2, <1>1 DEF TypeOK, HandleAt, Counts, Loop, Handles
<1>6. Loop'
  BY <1>2, <1>1 DEF TypeOK, HandleAt, Loop, Handles
<1>7. QueriesHaveSession'
  BY <1>2, <1>1 DEF TypeOK, HandleAt, Counts, QueriesHaveSession, Handles
<1>8. Leaks'
  BY <1>2, <1>1 DEF TypeOK, HandleAt, Counts, Leaks, LeakBound, Loop, Handles
<1>9. MisuseExplained'
  BY <1>2, <1>1 DEF TypeOK, HandleAt, Loop, MisuseExplained, Handles
<1> QED
  BY <1>3, <1>4, <1>5, <1>6, <1>7, <1>8, <1>9

\* The attempt is counted.
LEMMA SleepInv == IInv /\ Sleep => IInv'
<1> SUFFICES ASSUME IInv, Sleep PROVE IInv'
  OBVIOUS
<1> USE AttemptsAssumption, TableAssumption DEF IInv, Sleep, SleepBefore, Step, config
<1>1. db \in Handles
  BY DEF TypeOK
<1>3. TypeOK'
  BY <1>1 DEF TypeOK, HandleAt, Counts, Loop
<1>4. HandleAt'
  BY <1>1 DEF TypeOK, HandleAt, Counts, Loop, Handles
<1>5. Counts'
  BY <1>1 DEF TypeOK, HandleAt, Counts, Loop, Handles
<1>6. Loop'
  BY <1>1 DEF TypeOK, HandleAt, Loop, Handles
<1>7. QueriesHaveSession'
  BY <1>1 DEF TypeOK, HandleAt, Counts, QueriesHaveSession, Handles
<1>8. Leaks'
  BY <1>1 DEF TypeOK, HandleAt, Counts, Leaks, LeakBound, Loop, Handles
<1>9. MisuseExplained'
  BY <1>1 DEF TypeOK, HandleAt, Loop, MisuseExplained, Handles
<1> QED
  BY <1>3, <1>4, <1>5, <1>6, <1>7, <1>8, <1>9

\* The handle is initialised, or cannot be.
LEMMA InitHandleInv == IInv /\ InitHandle => IInv'
<1> SUFFICES ASSUME IInv, InitHandle PROVE IInv'
  OBVIOUS
<1> USE AttemptsAssumption, TableAssumption DEF IInv, InitHandle, InitHandleIf, Step, SameLoop, config
<1>1. db \in Handles
  BY DEF TypeOK
<1>2. \/ pc' = "connectFailed" /\ db' = db
      \/ /\ pc' = "parse"
         /\ db' \in Handles /\ db'.state = "init"
         /\ db'.live = db.live + 1 /\ db'.sessions = db.sessions
         /\ db'.results = db.results /\ db'.faults = db.faults
  BY <1>1, OpeningFields
<1>3. TypeOK'
  BY <1>2, <1>1 DEF TypeOK, HandleAt, Counts, Loop
<1>4. HandleAt'
  BY <1>2, <1>1 DEF TypeOK, HandleAt, Counts, Loop, Handles
<1>5. Counts'
  BY <1>2, <1>1 DEF TypeOK, HandleAt, Counts, Loop, Handles
<1>6. Loop'
  BY <1>2, <1>1 DEF TypeOK, HandleAt, Loop, Handles
<1>7. QueriesHaveSession'
  BY <1>2, <1>1 DEF TypeOK, HandleAt, Counts, QueriesHaveSession, Handles
<1>8. Leaks'
  BY <1>2, <1>1 DEF TypeOK, HandleAt, Counts, Leaks, LeakBound, Loop, Handles
<1>9. MisuseExplained'
  BY <1>2, <1>1 DEF TypeOK, HandleAt, Loop, MisuseExplained, Handles
<1> QED
  BY <1>3, <1>4, <1>5, <1>6, <1>7, <1>8, <1>9

\* The URI is parsed.
LEMMA ParseUriInv == IInv /\ ParseUri => IInv'
<1> SUFFICES ASSUME IInv, ParseUri PROVE IInv'
  OBVIOUS
<1> USE AttemptsAssumption, TableAssumption DEF IInv, SameLoop, config
<1>1. db \in Handles
  BY DEF TypeOK
<1>2. /\ pc = "parse" /\ pc' \in {"dial", "connectFailed", "terminated"}
      /\ UNCHANGED <<config, retry, item, ret, db>>
  BY UriOutcome DEF ParseUri
<1>3. TypeOK'
  BY <1>1, <1>2 DEF TypeOK, HandleAt, Counts, Loop
<1>4. HandleAt'
  BY <1>1, <1>2 DEF TypeOK, HandleAt, Counts, Loop, Handles
<1>5. Counts'
  BY <1>1, <1>2 DEF TypeOK, HandleAt, Counts, Loop, Handles
<1>6. Loop'
  BY <1>1, <1>2 DEF TypeOK, HandleAt, Loop, Handles
<1>7. QueriesHaveSession'
  BY <1>1, <1>2 DEF TypeOK, HandleAt, Counts, QueriesHaveSession, Handles
<1>8. Leaks'
  BY <1>1, <1>2 DEF TypeOK, HandleAt, Counts, Leaks, LeakBound, Loop, Handles
<1>9. MisuseExplained'
  BY <1>1, <1>2 DEF TypeOK, HandleAt, Loop, MisuseExplained, Handles
<1> QED
  BY <1>3, <1>4, <1>5, <1>6, <1>7, <1>8, <1>9

\* The server is connected to.
LEMMA DialInv == IInv /\ Dial => IInv'
<1> SUFFICES ASSUME IInv, Dial PROVE IInv'
  OBVIOUS
<1> USE AttemptsAssumption, TableAssumption DEF IInv, Dial, Step, config
<1>1. db \in Handles
  BY DEF TypeOK
<1>2. \/ pc' = "connectFailed" /\ db' = db
      \/ /\ pc' = "timezone"
         /\ db' \in Handles /\ db'.state = "open"
         /\ db'.live = db.live /\ db'.sessions = db.sessions + 1
         /\ db'.results = db.results /\ db'.faults = db.faults
  BY <1>1, OpeningFields
<1>3. TypeOK'
  BY <1>2, <1>1 DEF TypeOK, HandleAt, Counts, Loop
<1>4. HandleAt'
  BY <1>2, <1>1 DEF TypeOK, HandleAt, Counts, Loop, Handles
<1>5. Counts'
  BY <1>2, <1>1 DEF TypeOK, HandleAt, Counts, Loop, Handles
<1>6. Loop'
  BY <1>2, <1>1 DEF TypeOK, HandleAt, Loop, Handles
<1>7. QueriesHaveSession'
  BY <1>2, <1>1 DEF TypeOK, HandleAt, Counts, QueriesHaveSession, Handles
<1>8. Leaks'
  BY <1>2, <1>1 DEF TypeOK, HandleAt, Counts, Leaks, LeakBound, Loop, Handles
<1>9. MisuseExplained'
  BY <1>2, <1>1 DEF TypeOK, HandleAt, Loop, MisuseExplained, Handles
<1> QED
  BY <1>3, <1>4, <1>5, <1>6, <1>7, <1>8, <1>9

\* The time zone is set.
LEMMA SetTimeZoneInv == IInv /\ SetTimeZone => IInv'
<1> SUFFICES ASSUME IInv, SetTimeZone PROVE IInv'
  OBVIOUS
<1> USE AttemptsAssumption, TableAssumption DEF IInv, SetTimeZone, BoostCaught, SameLoop, config
<1>1. db \in Handles
  BY DEF TypeOK
<1>a. db.state = "open" /\ db.sessions = 1 /\ db.live > 0
  BY DEF HandleAt, Counts
<1> DEFINE h == Close(db)
<1>b. /\ h \in Handles /\ h.state = "closed" /\ h.sessions = 0 /\ h.live = db.live - 1
      /\ h.results = db.results /\ h.faults = db.faults
  BY <1>1, <1>a, CloseFields
<1>c. \/ db' = db /\ pc' = "settings"
      \/ db' = ReadError(h) /\ pc' = "loadFailed"
  BY <1>1, <1>a, FailureFields, QueryOpen
<1> HIDE DEF h
<1>d. /\ ReadError(h) \in Handles /\ ReadError(h).state = "closed"
      /\ ReadError(h).sessions = 0 /\ ReadError(h).results = db.results
      /\ ReadError(h).live = db.live - 1 /\ db.faults \subseteq ReadError(h).faults
      /\ ReadError(h).faults \ db.faults \subseteq {"error_raw", "error_after_close"}
  BY <1>b, ReadErrorFields
<1>2. /\ db.state = "open" /\ db.sessions = 1 /\ db.live > 0
      /\ \/ db' = db /\ pc' = "settings"
         \/ /\ pc' = "loadFailed" /\ db' \in Handles /\ db'.state = "closed"
            /\ db'.sessions = 0 /\ db'.results = db.results
            /\ db'.live = db.live - 1 /\ db.faults \subseteq db'.faults
            /\ db'.faults \ db.faults \subseteq {"error_raw", "error_after_close"}
  BY <1>a, <1>c, <1>d
<1>3. TypeOK'
  BY <1>2, <1>1 DEF TypeOK, HandleAt, Counts, Loop
<1>4. HandleAt'
  BY <1>2, <1>1 DEF TypeOK, HandleAt, Counts, Loop, Handles
<1>5. Counts'
  BY <1>2, <1>1 DEF TypeOK, HandleAt, Counts, Loop, Handles
<1>6. Loop'
  BY <1>2, <1>1 DEF TypeOK, HandleAt, Loop, Handles
<1>7. QueriesHaveSession'
  BY <1>2, <1>1 DEF TypeOK, HandleAt, Counts, QueriesHaveSession, Handles
<1>8. Leaks'
  BY <1>2, <1>1 DEF TypeOK, HandleAt, Counts, Leaks, LeakBound, Loop, Handles
<1>9. MisuseExplained'
  BY <1>2, <1>1 DEF TypeOK, HandleAt, Loop, MisuseExplained, Handles
<1> QED
  BY <1>3, <1>4, <1>5, <1>6, <1>7, <1>8, <1>9

\* The query of an entry is sent.
LEMMA QuerySettingInv == IInv /\ QuerySetting => IInv'
<1> SUFFICES ASSUME IInv, QuerySetting PROVE IInv'
  OBVIOUS
<1> USE AttemptsAssumption, TableAssumption DEF IInv, QuerySetting, BoostCaught, SameLoop, config
<1>1. db \in Handles
  BY DEF TypeOK
<1>a. db.state = "open" /\ db.sessions = 1 /\ db.live > 0
  BY DEF HandleAt, Counts
<1> DEFINE h == Close(db)
<1>b. /\ h \in Handles /\ h.state = "closed" /\ h.sessions = 0 /\ h.live = db.live - 1
      /\ h.results = db.results /\ h.faults = db.faults
  BY <1>1, <1>a, CloseFields
<1>c. \/ db' = db /\ pc' = "fetch"
      \/ db' = ReadError(h) /\ pc' = "loadFailed"
  BY <1>1, <1>a, FailureFields, QueryOpen
<1> HIDE DEF h
<1>d. /\ ReadError(h) \in Handles /\ ReadError(h).state = "closed"
      /\ ReadError(h).sessions = 0 /\ ReadError(h).results = db.results
      /\ ReadError(h).live = db.live - 1 /\ db.faults \subseteq ReadError(h).faults
      /\ ReadError(h).faults \ db.faults \subseteq {"error_raw", "error_after_close"}
  BY <1>b, ReadErrorFields
<1>2. /\ db.state = "open" /\ db.sessions = 1 /\ db.live > 0
      /\ \/ db' = db /\ pc' = "fetch"
         \/ /\ pc' = "loadFailed" /\ db' \in Handles /\ db'.state = "closed"
            /\ db'.sessions = 0 /\ db'.results = db.results
            /\ db'.live = db.live - 1 /\ db.faults \subseteq db'.faults
            /\ db'.faults \ db.faults \subseteq {"error_raw", "error_after_close"}
  BY <1>a, <1>c, <1>d
<1>3. TypeOK'
  BY <1>2, <1>1 DEF TypeOK, HandleAt, Counts, Loop
<1>4. HandleAt'
  BY <1>2, <1>1 DEF TypeOK, HandleAt, Counts, Loop, Handles
<1>5. Counts'
  BY <1>2, <1>1 DEF TypeOK, HandleAt, Counts, Loop, Handles
<1>6. Loop'
  BY <1>2, <1>1 DEF TypeOK, HandleAt, Loop, Handles
<1>7. QueriesHaveSession'
  BY <1>2, <1>1 DEF TypeOK, HandleAt, Counts, QueriesHaveSession, Handles
<1>8. Leaks'
  BY <1>2, <1>1 DEF TypeOK, HandleAt, Counts, Leaks, LeakBound, Loop, Handles
<1>9. MisuseExplained'
  BY <1>2, <1>1 DEF TypeOK, HandleAt, Loop, MisuseExplained, Handles
<1> QED
  BY <1>3, <1>4, <1>5, <1>6, <1>7, <1>8, <1>9

\* The result of an entry is fetched.
LEMMA FetchSettingInv == IInv /\ FetchSetting => IInv'
<1> SUFFICES ASSUME IInv, FetchSetting PROVE IInv'
  OBVIOUS
<1> USE AttemptsAssumption, TableAssumption DEF IInv, FetchSetting, BoostCaught, SameLoop, config
<1>1. db \in Handles
  BY DEF TypeOK
<1>a. db.state = "open" /\ db.sessions = 1 /\ db.live > 0
  BY DEF HandleAt, Counts
<1> DEFINE h == Close(db)
<1>b. /\ h \in Handles /\ h.state = "closed" /\ h.sessions = 0 /\ h.live = db.live - 1
      /\ h.results = db.results /\ h.faults = db.faults
  BY <1>1, <1>a, CloseFields
<1>c. \/ db' = StoreResult(db) /\ pc' = "parser"
      \/ db' = ReadError(h) /\ pc' = "loadFailed"
  BY <1>1, <1>a, FailureFields, QueryOpen
<1> HIDE DEF h
<1>d. /\ ReadError(h) \in Handles /\ ReadError(h).state = "closed"
      /\ ReadError(h).sessions = 0 /\ ReadError(h).results = db.results
      /\ ReadError(h).live = db.live - 1 /\ db.faults \subseteq ReadError(h).faults
      /\ ReadError(h).faults \ db.faults \subseteq {"error_raw", "error_after_close"}
  BY <1>b, ReadErrorFields
<1>2. /\ db.state = "open" /\ db.sessions = 1 /\ db.live > 0
      /\ \/ db' = StoreResult(db) /\ pc' = "parser"
         \/ /\ pc' = "loadFailed" /\ db' \in Handles /\ db'.state = "closed"
            /\ db'.sessions = 0 /\ db'.results = db.results
            /\ db'.live = db.live - 1 /\ db.faults \subseteq db'.faults
            /\ db'.faults \ db.faults \subseteq {"error_raw", "error_after_close"}
  BY <1>a, <1>c, <1>d
<1>e. pc' = "parser" =>
      /\ db' \in Handles /\ db'.state = db.state
      /\ db'.live = db.live /\ db'.sessions = db.sessions
      /\ db'.results = db.results + 1 /\ db'.faults = db.faults
  <2> SUFFICES ASSUME pc' = "parser" PROVE db' = [db EXCEPT !.results = db.results + 1]
    BY <1>1, db.results + 1 \in Nat, ResultFields DEF Handles
  <2> QED
    BY <1>1, <1>2, StoreOpen
<1>3. TypeOK'
  BY <1>2, <1>e, <1>1 DEF TypeOK, HandleAt, Counts, Loop
<1>4. HandleAt'
  BY <1>2, <1>e, <1>1 DEF TypeOK, HandleAt, Counts, Loop, Handles
<1>5. Counts'
  BY <1>2, <1>e, <1>1 DEF TypeOK, HandleAt, Counts, Loop, Handles
<1>6. Loop'
  BY <1>2, <1>e, <1>1 DEF TypeOK, HandleAt, Loop, Handles
<1>7. QueriesHaveSession'
  BY <1>2, <1>e, <1>1 DEF TypeOK, HandleAt, Counts, QueriesHaveSession, Handles
<1>8. Leaks'
  BY <1>2, <1>e, <1>1 DEF TypeOK, HandleAt, Counts, Leaks, LeakBound, Loop, Handles
<1>9. MisuseExplained'
  BY <1>2, <1>e, <1>1 DEF TypeOK, HandleAt, Loop, MisuseExplained, Handles
<1> QED
  BY <1>3, <1>4, <1>5, <1>6, <1>7, <1>8, <1>9

\* An entry is loaded.
LEMMA ParseSettingInv == IInv /\ ParseSetting => IInv'
<1> SUFFICES ASSUME IInv, ParseSetting PROVE IInv'
  OBVIOUS
<1> USE AttemptsAssumption, TableAssumption DEF IInv, ParseSetting, Step, config
<1>1. db \in Handles
  BY DEF TypeOK
<1>a. db.results > 0 /\ db.results - 1 \in Nat
  BY <1>1 DEF Counts, Handles
<1>b. db' = [db EXCEPT !.results = db.results - 1]
  BY <1>1 DEF FreeResult, Handles
<1>2. /\ db' \in Handles /\ db'.state = db.state
      /\ db'.live = db.live /\ db'.sessions = db.sessions
      /\ db'.results = db.results - 1 /\ db'.faults = db.faults
  BY <1>1, <1>a, <1>b, ResultFields
<1>3. TypeOK'
  BY <1>2, <1>1 DEF TypeOK, HandleAt, Counts, Loop
<1>4. HandleAt'
  BY <1>2, <1>1 DEF TypeOK, HandleAt, Counts, Loop, Handles
<1>5. Counts'
  BY <1>2, <1>1 DEF TypeOK, HandleAt, Counts, Loop, Handles
<1>6. Loop'
  BY <1>2, <1>1 DEF TypeOK, HandleAt, Loop, Handles
<1>7. QueriesHaveSession'
  BY <1>2, <1>1 DEF TypeOK, HandleAt, Counts, QueriesHaveSession, Handles
<1>8. Leaks'
  BY <1>2, <1>1 DEF TypeOK, HandleAt, Counts, Leaks, LeakBound, Loop, Handles
<1>9. MisuseExplained'
  BY <1>2, <1>1 DEF TypeOK, HandleAt, Loop, MisuseExplained, Handles
<1> QED
  BY <1>3, <1>4, <1>5, <1>6, <1>7, <1>8, <1>9

\* A parser throws invalid_argument.
LEMMA ParserRejectsInv == IInv /\ ParserRejects => IInv'
<1> SUFFICES ASSUME IInv, ParserRejects PROVE IInv'
  OBVIOUS
<1> USE AttemptsAssumption, TableAssumption DEF IInv, ParserRejects, Step, SameLoop, config
<1>1. db \in Handles
  BY DEF TypeOK
<1>a. db.state = "open" /\ db.live > 0 /\ db.sessions = 1
  BY DEF HandleAt, Counts
<1>2. /\ db' \in Handles /\ db'.state = "closed"
      /\ db'.live = db.live - 1 /\ db'.sessions = 0
      /\ db'.results = db.results /\ db'.faults = db.faults
  BY <1>1, <1>a, CloseFields DEF Disconnect
<1>3. TypeOK'
  BY <1>2, <1>1 DEF TypeOK, HandleAt, Counts, Loop
<1>4. HandleAt'
  BY <1>2, <1>1 DEF TypeOK, HandleAt, Counts, Loop, Handles
<1>5. Counts'
  BY <1>2, <1>1 DEF TypeOK, HandleAt, Counts, Loop, Handles
<1>6. Loop'
  BY <1>2, <1>1 DEF TypeOK, HandleAt, Loop, Handles
<1>7. QueriesHaveSession'
  BY <1>2, <1>1 DEF TypeOK, HandleAt, Counts, QueriesHaveSession, Handles
<1>8. Leaks'
  BY <1>2, <1>1 DEF TypeOK, HandleAt, Counts, Leaks, LeakBound, Loop, Handles
<1>9. MisuseExplained'
  BY <1>2, <1>1 DEF TypeOK, HandleAt, Loop, MisuseExplained, Handles
<1> QED
  BY <1>3, <1>4, <1>5, <1>6, <1>7, <1>8, <1>9

\* A parser throws.
LEMMA ParserThrowsInv == IInv /\ ParserThrows => IInv'
<1> SUFFICES ASSUME IInv, ParserThrows PROVE IInv'
  OBVIOUS
<1> USE AttemptsAssumption, TableAssumption DEF IInv, ParserThrows, ParserThrowsThen, Step, SameLoop, config
<1>1. db \in Handles
  BY DEF TypeOK
<1>3. TypeOK'
  BY <1>1 DEF TypeOK, HandleAt, Counts, Loop
<1>4. HandleAt'
  BY <1>1 DEF TypeOK, HandleAt, Counts, Loop, Handles
<1>5. Counts'
  BY <1>1 DEF TypeOK, HandleAt, Counts, Loop, Handles
<1>6. Loop'
  BY <1>1 DEF TypeOK, HandleAt, Loop, Handles
<1>7. QueriesHaveSession'
  BY <1>1 DEF TypeOK, HandleAt, Counts, QueriesHaveSession, Handles
<1>8. Leaks'
  BY <1>1 DEF TypeOK, HandleAt, Counts, Leaks, LeakBound, Loop, Handles
<1>9. MisuseExplained'
  BY <1>1 DEF TypeOK, HandleAt, Loop, MisuseExplained, Handles
<1> QED
  BY <1>3, <1>4, <1>5, <1>6, <1>7, <1>8, <1>9

\* The table is loaded.
LEMMA LoadedInv == IInv /\ Loaded => IInv'
<1> SUFFICES ASSUME IInv, Loaded PROVE IInv'
  OBVIOUS
<1> USE AttemptsAssumption, TableAssumption DEF IInv, Loaded, LoadedWhen, Done, config
<1>1. db \in Handles
  BY DEF TypeOK
<1>3. TypeOK'
  BY <1>1 DEF TypeOK, HandleAt, Counts, Loop
<1>4. HandleAt'
  BY <1>1 DEF TypeOK, HandleAt, Counts, Loop, Handles
<1>5. Counts'
  BY <1>1 DEF TypeOK, HandleAt, Counts, Loop, Handles
<1>6. Loop'
  BY <1>1 DEF TypeOK, HandleAt, Loop, Handles
<1>7. QueriesHaveSession'
  BY <1>1 DEF TypeOK, HandleAt, Counts, QueriesHaveSession, Handles
<1>8. Leaks'
  BY <1>1 DEF TypeOK, HandleAt, Counts, Leaks, LeakBound, Loop, Handles
<1>9. MisuseExplained'
  BY <1>1 DEF TypeOK, HandleAt, Loop, MisuseExplained, Handles
<1> QED
  BY <1>3, <1>4, <1>5, <1>6, <1>7, <1>8, <1>9

-----------------------------------------------------------------------------
(* Theorems of the specification. *)

\* Every step of the loader keeps the inductive invariant.
LEMMA StepInv == IInv /\ [Next]_vars => IInv'
<1> SUFFICES ASSUME IInv, [Next]_vars PROVE IInv'
  OBVIOUS
<1>1. CASE Skip \/ Begin \/ GiveUp \/ ConnectFailed \/ LoadFailed \/ Sleep
  BY <1>1, SkipInv, BeginInv, GiveUpInv, ConnectFailedInv, LoadFailedInv, SleepInv
<1>2. CASE InitHandle \/ ParseUri \/ Dial
  BY <1>2, InitHandleInv, ParseUriInv, DialInv
<1>3. CASE SetTimeZone \/ QuerySetting \/ FetchSetting
  BY <1>3, SetTimeZoneInv, QuerySettingInv, FetchSettingInv
<1>4. CASE ParseSetting \/ ParserRejects \/ ParserThrows \/ Loaded
  BY <1>4, ParseSettingInv, ParserRejectsInv, ParserThrowsInv, LoadedInv
<1>5. CASE UNCHANGED vars
  BY <1>5
     DEF vars, config, IInv, TypeOK, HandleAt, Counts, Loop, QueriesHaveSession,
         Leaks, LeakBound, MisuseExplained
<1> QED
  BY <1>1, <1>2, <1>3, <1>4, <1>5 DEF Next

\* The inductive invariant holds of every behaviour.
LEMMA Invariance == Spec => []IInv
BY InitInv, StepInv, PTL DEF Spec

\* Every variable keeps its type: no counter of the handle goes below zero.
THEOREM TypeCorrect == Spec => []TypeOK
<1>1. IInv => TypeOK
  BY DEF IInv
<1> QED
  BY <1>1, Invariance, PTL

\* However the attempts fail, at most one connection is open, and none is left
\* when the loader answers FALSE.
THEOREM NoSessionPileUp == Spec => []OneSession
<1>1. IInv => OneSession
  BY DEF IInv, TypeOK, Handles, HandleAt, Counts, Loop, OneSession
<1> QED
  BY <1>1, Invariance, PTL

\* TRUE means the whole table was read through the session still open.
THEOREM CompleteLoad == Spec => []LoadedMeansAll
<1>1. IInv => LoadedMeansAll
  BY DEF IInv, Loop, LoadedMeansAll
<1> QED
  BY <1>1, Invariance, PTL

\* No query goes to a handle without a session.
THEOREM SessionsBeforeQueries == Spec => []QueriesHaveSession
<1>1. IInv => QueriesHaveSession
  BY DEF IInv
<1> QED
  BY <1>1, Invariance, PTL

\* No call breaks the rules before an attempt has failed; each second close of a
\* handle was preceded by a look at the closed one.
THEOREM MisuseCause == Spec => []MisuseExplained
<1>1. IInv => MisuseExplained
  BY DEF IInv
<1> QED
  BY <1>1, Invariance, PTL

\* One handle or one result set at most is leaked for each attempt.
THEOREM BoundedLeak == Spec => []LeakBound
<1>1. IInv => LeakBound
  BY DEF IInv, Leaks
<1> QED
  BY <1>1, Invariance, PTL
-----------------------------------------------------------------------------
(* Progress: the loader always has a step to take, and takes finitely many.  *)

\* The table is never passed.
InTable ==
    /\ pc \in {"timezone", "settings"} => item <= table
    /\ pc \in {"fetch", "parser"} => item < table

\* The guards of the steps, at each point of the loader.
CanStep ==
    \/ pc \in {"start", "connectFailed", "loadFailed", "sleep", "dial", "timezone",
              "fetch", "parser"}
    \/ pc = "attempt" /\ (retry < Attempts \/ retry = Attempts)
    \/ pc = "parse" /\ parse_database_uri(uri) # {}
    \/ pc = "settings" /\ (item < table \/ item = table)

LoaderCanMove == pc \notin {"done", "terminated"} => CanStep

\* A bound on the steps that one attempt takes.
Round == 3 * table + 11

\* What is left of the attempt in hand.
Left ==
    CASE pc = "start" -> 3 * table + 11
      [] pc = "attempt" -> 3 * table + 10
      [] pc = "parse" -> 3 * table + 9
      [] pc = "dial" -> 3 * table + 8
      [] pc = "timezone" -> 3 * table + 7
      [] pc = "settings" -> 3 * (table - item) + 6
      [] pc = "fetch" -> 3 * (table - item) + 5
      [] pc = "parser" -> 3 * (table - item) + 4
      [] pc \in {"connectFailed", "loadFailed"} -> 3
      [] pc = "sleep" -> 2
      [] OTHER -> 0

\* A bound on the steps that are still to come.
StepsLeft == (Attempts - retry) * Round + Left

StepsFall == StepsLeft' < StepsLeft

\* No entry is asked for past the end of the table.
LEMMA InTableStep == TypeOK /\ InTable /\ [Next]_vars => InTable'
<1> SUFFICES ASSUME TypeOK, InTable, [Next]_vars PROVE InTable'
  OBVIOUS
<1>0. table \in Nat /\ item \in Nat
  BY TableAssumption DEF TypeOK
<1> USE <1>0 DEF InTable, Step, SameLoop, Done, config
<1>1. CASE Skip \/ Begin \/ GiveUp \/ ConnectFailed \/ LoadFailed \/ Sleep
  BY <1>1
     DEF Skip, Begin, BeginWith, GiveUp, ConnectFailed, ConnectFailedThen, LoadFailed,
         LoadFailedWith, Sleep, SleepBefore
<1>2. CASE InitHandle \/ Dial
  BY <1>2 DEF InitHandle, InitHandleIf, Dial
<1>3. CASE ParseUri
  <2>1. pc' \in {"dial", "connectFailed", "terminated"}
    BY <1>3, UriOutcome DEF ParseUri
  <2> QED
    BY <2>1
<1>4. CASE SetTimeZone
  <2>1. pc = "timezone" /\ pc' \in {"settings", "loadFailed"} /\ item' = item /\ table' = table
    BY <1>4 DEF SetTimeZone, BoostCaught
  <2> QED
    BY <2>1
<1>5. CASE QuerySetting \/ FetchSetting
  BY <1>5 DEF QuerySetting, FetchSetting, BoostCaught
<1>6. CASE ParseSetting \/ ParserRejects \/ ParserThrows \/ Loaded
  BY <1>6
     DEF ParseSetting, ParserRejects, ParserThrows, ParserThrowsThen, Loaded, LoadedWhen
<1>7. CASE UNCHANGED vars
  BY <1>7 DEF vars
<1> QED
  BY <1>1, <1>2, <1>3, <1>4, <1>5, <1>6, <1>7 DEF Next

\* So every behaviour stays within the table.
LEMMA InTableInv == Spec => []InTable
<1>1. Init => InTable
  BY DEF Init, InTable
<1> QED
  BY <1>1, InTableStep, TypeCorrect, PTL DEF Spec

\* A URI always comes to some end.
LEMMA UriEnds == \A u : parse_database_uri(u) # {}
<1> SUFFICES ASSUME NEW u PROVE parse_database_uri(u) # {}
  OBVIOUS
<1>1. PICK found : found \in validate_ipv4_address(u.host)
  BY DEF validate_ipv4_address
<1>2. (IF u.matches /\ found THEN Port(u) ELSE "refused") \in parse_database_uri(u)
  BY <1>1 DEF parse_database_uri
<1> QED
  BY <1>2

\* The invariant leaves the loader no place without a step.
LEMMA CanMove == IInv /\ InTable => LoaderCanMove
<1> SUFFICES ASSUME IInv, InTable, pc \notin {"done", "terminated"}
             PROVE  CanStep
  BY DEF LoaderCanMove
<1>1. table \in Nat /\ item \in Nat /\ retry \in 0 .. Attempts /\ Attempts \in Nat
  BY TableAssumption, AttemptsAssumption DEF IInv, TypeOK
<1>2. pc = "attempt" => retry < Attempts \/ retry = Attempts
  BY <1>1
<1>3. pc = "settings" => item < table \/ item = table
  BY <1>1 DEF InTable
<1>4. parse_database_uri(uri) # {}
  BY UriEnds
<1> QED
  BY <1>2, <1>3, <1>4 DEF CanStep, IInv, TypeOK

\* Wherever the loader is, until it ends, the guard of one of its steps holds: the
\* loop has no count and the table no position that no branch is for.
THEOREM NeverStuck == Spec => []LoaderCanMove
BY CanMove, Invariance, InTableInv, PTL

\* What is left is a natural number.
LEMMA LeftNat ==
    IInv /\ InTable => /\ table \in Nat /\ item \in Nat /\ Left \in Nat /\ Round \in Nat
                       /\ Attempts - retry \in Nat /\ StepsLeft \in Nat
<1> SUFFICES ASSUME IInv, InTable
             PROVE  /\ table \in Nat /\ item \in Nat /\ Left \in Nat /\ Round \in Nat
                    /\ Attempts - retry \in Nat /\ StepsLeft \in Nat
  OBVIOUS
<1>1. table \in Nat /\ item \in Nat /\ Attempts - retry \in Nat
  BY TableAssumption, AttemptsAssumption DEF IInv, TypeOK
<1>2. Left \in Nat
  BY <1>1 DEF Left, InTable
<1>3. Round \in Nat
  BY <1>1 DEF Round
<1>4. \A a, b, c \in Nat : a * b + c \in Nat
  OBVIOUS
<1>5. StepsLeft \in Nat
  BY ONLY <1>1, <1>2, <1>3, <1>4 DEF StepsLeft
<1> QED
  BY <1>1, <1>2, <1>3, <1>5

\* A step within an attempt leaves less of it, a failed attempt leaves one less.
LEMMA LessLeft ==
    ASSUME NEW n \in Int, NEW m \in Int, NEW k \in Int, NEW a \in Int, NEW b \in Int,
           \/ m = n /\ b < a
           \/ m = n - 1 /\ b < a + k
    PROVE  m * k + b < n * k + a
<1>1. CASE m = n /\ b < a
  <2>1. n * k \in Int
    OBVIOUS
  <2> QED
    BY <1>1, <2>1
<1>2. CASE m = n - 1 /\ b < a + k
  <2>1. n * k \in Int /\ (n - 1) * k = n * k - k
    OBVIOUS
  <2> QED
    BY <1>2, <2>1
<1> QED
  BY <1>1, <1>2

\* Each step of the loader leaves fewer of them.
LEMMA StepsStep ==
    ASSUME IInv, InTable, IInv', InTable', Next
    PROVE  StepsLeft' < StepsLeft
<1>1. /\ table \in Nat /\ item \in Nat /\ Left \in Nat /\ Round \in Nat
      /\ retry \in Nat /\ Attempts \in Nat
  BY LeftNat, AttemptsAssumption DEF IInv, TypeOK
<1>2. Left' \in Nat /\ retry' \in Nat
  <2>1. (IInv /\ InTable => /\ table \in Nat /\ item \in Nat /\ Left \in Nat /\ Round \in Nat
                            /\ Attempts - retry \in Nat /\ StepsLeft \in Nat)'
    BY LeftNat, PTL
  <2> QED
    BY <2>1 DEF IInv, TypeOK
<1>3. table' = table
  BY DEF Next, Step, SameLoop, Done, config, Skip, Begin, BeginWith, GiveUp, ConnectFailed,
         ConnectFailedThen, LoadFailed, LoadFailedWith, Sleep, SleepBefore, InitHandle,
         InitHandleIf, ParseUri, Dial, SetTimeZone, QuerySetting, FetchSetting, BoostCaught,
         ParseSetting, ParserRejects, ParserThrows, ParserThrowsThen, Loaded, LoadedWhen
<1>4. \/ Attempts - retry' = Attempts - retry /\ Left' < Left
      \/ Attempts - retry' = (Attempts - retry) - 1 /\ Left' < Left + Round
  <2> USE <1>1, <1>3 DEF Step, SameLoop, Done, config, Left, InTable
  <2>1. CASE Skip \/ Begin \/ GiveUp \/ ConnectFailed \/ LoadFailed
    BY <2>1
       DEF Skip, Begin, BeginWith, GiveUp, ConnectFailed, ConnectFailedThen, LoadFailed,
           LoadFailedWith
  <2>2. CASE Sleep
    BY <2>2 DEF Sleep, SleepBefore, Round
  <2>3. CASE InitHandle \/ Dial
    BY <2>3 DEF InitHandle, InitHandleIf, Dial
  <2>4. CASE ParseUri
    <3>1. pc = "parse" /\ pc' \in {"dial", "connectFailed", "terminated"} /\ retry' = retry
      BY <2>4, UriOutcome DEF ParseUri
    <3> QED
      BY <3>1
  <2>5. CASE SetTimeZone
    <3>1. /\ pc = "timezone" /\ pc' \in {"settings", "loadFailed"}
          /\ item' = item /\ retry' = retry
      BY <2>5 DEF SetTimeZone, BoostCaught
    <3> QED
      BY <3>1
  <2>6. CASE QuerySetting
    <3>1. /\ pc = "settings" /\ pc' \in {"fetch", "loadFailed"} /\ item < table
          /\ item' = item /\ retry' = retry
      BY <2>6 DEF QuerySetting, BoostCaught
    <3> QED
      BY <3>1
  <2>7. CASE FetchSetting
    <3>1. /\ pc = "fetch" /\ pc' \in {"parser", "loadFailed"}
          /\ item' = item /\ retry' = retry
      BY <2>7 DEF FetchSetting, BoostCaught
    <3> QED
      BY <3>1
  <2>8. CASE ParseSetting \/ ParserRejects \/ ParserThrows \/ Loaded
    BY <2>8
       DEF ParseSetting, ParserRejects, ParserThrows, ParserThrowsThen, Loaded, LoadedWhen
  <2> QED
    BY <2>1, <2>2, <2>3, <2>4, <2>5, <2>6, <2>7, <2>8 DEF Next
<1>5. Round' = Round
  BY <1>3 DEF Round
<1>6. (Attempts - retry') * Round + Left' < (Attempts - retry) * Round + Left
  <2>1. /\ Attempts - retry \in Int /\ Attempts - retry' \in Int /\ Round \in Int
        /\ Left \in Int /\ Left' \in Int
    BY <1>1, <1>2
  <2> QED
    BY ONLY <1>4, <2>1, LessLeft, Zenon
<1> QED
  BY <1>5, <1>6, Zenon DEF StepsLeft

\* The loader ends: no run of it is longer than the steps left at its start, which
\* are a natural number, and every step leaves fewer.
THEOREM LoadIsFinite == Spec => [](StepsLeft \in Nat) /\ [][StepsFall]_vars
<1>1. IInv /\ InTable => StepsLeft \in Nat
  BY LeftNat
<1>2. IInv /\ InTable /\ IInv' /\ InTable' /\ [Next]_vars => [StepsFall]_vars
  BY StepsStep DEF StepsFall
<1> QED
  BY <1>1, <1>2, Invariance, InTableInv, PTL DEF Spec

=============================================================================
