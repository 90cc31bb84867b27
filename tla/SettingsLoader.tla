-------------------------- MODULE SettingsLoader ---------------------------
(* options::load_settings_from_database and load_dbsettings_all              *)
(* (main/options.cpp), with connect_db and the query helpers they call       *)
(* (common/mariadb.cpp): up to Attempts times, connect to the database of    *)
(* the configuration, set the time zone of the session, then run each query  *)
(* of a static table of settings and hand its result to the query's parser.  *)
(* Every call of the client library may fail.                                *)
EXTENDS MySqlClient, DatabaseUri

CONSTANTS
    Attempts,   \* tries before giving up: 5 in the code
    TableSizes  \* sizes of db_settings; the table is empty at this commit

ASSUME AttemptsAssumption == Attempts \in Nat \ {0}
ASSUME TableAssumption == TableSizes \subseteq Nat

VARIABLES
    enabled,    \* settings_enabled
    uri,        \* settings_database_uri
    table,      \* the number of entries of db_settings
    pc,
    retry,      \* retry_count
    db,         \* the handle, on the stack of load_settings_from_database
    item,       \* the entries of db_settings done by the current attempt
    ret         \* what load_settings_from_database returned

config == <<enabled, uri, table>>
vars == <<config, pc, retry, db, item, ret>>

Init ==
    /\ enabled \in BOOLEAN
    /\ uri \in Uris
    /\ table \in TableSizes
    /\ pc = "start"
    /\ retry = 0
    /\ db = RawHandle
    /\ item = 0
    /\ ret = "none"

Step(from, to) == pc = from /\ pc' = to
SameLoop == UNCHANGED <<config, retry, item, ret>>

Done(r) ==
    /\ pc' = "done"
    /\ ret' = r
    /\ UNCHANGED <<config, retry, db, item>>

-----------------------------------------------------------------------------
(* load_settings_from_database. *)

\* Lines 150-153.
Skip == pc = "start" /\ ~enabled /\ Done("false")

BeginWith(h) == enabled /\ Step("start", "attempt") /\ db' = h /\ SameLoop

\* Fault: the handle is disconnected first, to be on the safe side.
BeginClean == BeginWith(Disconnect(db))
Begin == BeginWith(db)

\* Line 174: every attempt failed.
GiveUp == pc = "attempt" /\ retry = Attempts /\ Done("false")

\* Lines 157-160: connect_db returned FALSE.
ConnectFailedThen(next) ==
    /\ Step("connectFailed", next)
    /\ db' = ReadError(db)
    /\ SameLoop

\* Fault: the loop goes on without a connection (no continue).
ConnectFailedIgnored == ConnectFailedThen("timezone")
ConnectFailed == ConnectFailedThen("sleep")

\* Lines 164-166: load_dbsettings_all returned FALSE.
LoadFailedWith(h) ==
    /\ Step("loadFailed", "sleep")
    /\ db' = h
    /\ SameLoop

\* Fault: the handle of a failed load is not closed.
LoadFailedOpen == LoadFailedWith(ReadError(db))
LoadFailed == LoadFailedWith(Disconnect(ReadError(db)))

\* Lines 159 and 167: a second passes, then the next attempt.
SleepBefore(n) ==
    /\ Step("sleep", "attempt")
    /\ retry' = n
    /\ UNCHANGED <<config, db, item, ret>>

\* Fault: the attempt is not counted.
SleepUncounted == SleepBefore(retry)
Sleep == SleepBefore(retry + 1)

-----------------------------------------------------------------------------
(* connect_db. *)

\* mysql_init, which may be out of memory.
InitHandleIf(more) ==
    /\ more
    /\ \/ Step("attempt", "parse") /\ db' = Initialise(db)
       \/ Step("attempt", "connectFailed") /\ UNCHANGED db
    /\ SameLoop

\* Fault: the bound of the loop is off by one.
InitHandleOnceMore == InitHandleIf(retry <= Attempts)
InitHandle == InitHandleIf(retry < Attempts)

\* The URI is parsed anew; an exception of std::stoi is caught nowhere.
ParseUri ==
    /\ pc = "parse"
    /\ \E outcome \in parse_database_uri(uri) :
          pc' = CASE outcome = "accepted" -> "dial"
                  [] outcome = "refused" -> "connectFailed"
                  [] outcome = "out_of_range" -> "terminated"
    /\ UNCHANGED db
    /\ SameLoop

\* mysql_real_connect.
Dial ==
    /\ \/ Step("dial", "timezone") /\ db' = Open(db)
       \/ Step("dial", "connectFailed") /\ UNCHANGED db
    /\ item' = 0
    /\ UNCHANGED <<config, retry, ret>>

-----------------------------------------------------------------------------
(* load_dbsettings_all. *)

\* Lines 242-245: a query or a fetch closed the handle and threw; the error
\* text is read from the handle once more.
BoostCaught(h) == db' = ReadError(h) /\ pc' = "loadFailed"

\* Line 224.
SetTimeZone ==
    /\ pc = "timezone"
    /\ \/ db' = Query(db) /\ pc' = "settings"
       \/ BoostCaught(QueryFails(db))
    /\ SameLoop

\* Line 227: the query of the next entry.
QuerySetting ==
    /\ pc = "settings"
    /\ item < table
    /\ \/ db' = Query(db) /\ pc' = "fetch"
       \/ BoostCaught(QueryFails(db))
    /\ SameLoop

\* Line 229.
FetchSetting ==
    /\ pc = "fetch"
    /\ \/ db' = StoreResult(db) /\ pc' = "parser"
       \/ BoostCaught(FetchFails(db))
    /\ SameLoop

\* Lines 230-232: the parser of the entry is done with the result.
ParseSetting ==
    /\ Step("parser", "settings")
    /\ db' = FreeResult(db)
    /\ item' = item + 1
    /\ UNCHANGED <<config, retry, ret>>

\* Lines 236-241: the parser throws invalid_argument.
ParserRejects ==
    /\ Step("parser", "loadFailed")
    /\ db' = Disconnect(db)
    /\ SameLoop

\* Lines 246-250: the parser throws anything else.
ParserThrowsThen(next, n) ==
    /\ Step("parser", next)
    /\ item' = n
    /\ UNCHANGED <<config, retry, db, ret>>

\* Fault: an entry whose parser throws is skipped, the next one is read.
ParserThrowsSkipped == ParserThrowsThen("settings", item + 1)
ParserThrows == ParserThrowsThen("loadFailed", item)

\* Lines 235 and 171: every entry is loaded; the handle is left open.
LoadedWhen(all) == pc = "settings" /\ all /\ Done("true")

\* Fault: the table is taken as loaded one entry early.
LoadedEarly == LoadedWhen(item + 1 >= table)
Loaded == LoadedWhen(item = table)

-----------------------------------------------------------------------------
Next ==
    \/ Skip \/ Begin \/ GiveUp \/ ConnectFailed \/ LoadFailed \/ Sleep
    \/ InitHandle \/ ParseUri \/ Dial
    \/ SetTimeZone \/ QuerySetting \/ FetchSetting
    \/ ParseSetting \/ ParserRejects \/ ParserThrows \/ Loaded

Spec == Init /\ [][Next]_vars

\* The loader is sequential code: it goes on until it returns.
FairSpec == Spec /\ WF_vars(Next)

-----------------------------------------------------------------------------
(* Properties. *)

TypeOK ==
    /\ enabled \in BOOLEAN
    /\ uri \in Uris
    /\ table \in TableSizes
    /\ pc \in {"start", "attempt", "connectFailed", "loadFailed", "sleep", "parse", "dial",
              "timezone", "settings", "fetch", "parser", "done", "terminated"}
    /\ retry \in 0 .. Attempts
    /\ db \in Handles
    /\ item \in Nat
    /\ ret \in {"none", "true", "false"}

\* The retries never pile up connections: one at most is open, the handle
\* leads to it, and none is left when the settings could not be loaded.
OneSession ==
    /\ db.sessions = IF db.state = "open" THEN 1 ELSE 0
    /\ pc = "terminated" \/ ret = "false" => db.sessions = 0

\* TRUE means that one session, still open, went through the whole table.
LoadedMeansAll ==
    ret = "true" => db.state = "open" /\ item = table

\* No query is sent without a session, and raw memory is never closed.
QueriesHaveSession == {"query_unopened", "close_raw"} \cap db.faults = {}

\* No call breaks the rules of the client library before an attempt has failed, so
\* a load that succeeds at once is clean; a handle is closed twice only after its
\* error was read when it was closed already.
MisuseExplained ==
    /\ db.faults # {} => retry > 0 \/ pc \in {"loadFailed", "sleep"}
    /\ "double_close" \in db.faults => "error_after_close" \in db.faults

\* An attempt leaks one thing at most: its handle, if it could not connect, or a
\* result set, if a parser threw.
LeakBound ==
    db.live + db.results <=
        retry + (IF pc \in {"parser", "loadFailed"} THEN 2
                 ELSE IF pc = "attempt" \/ ret = "false" THEN 0 ELSE 1)

\* Loading ends: it returns, or an exception of the URI's port ends the program.
LoaderEnds == <>(pc \in {"done", "terminated"})

=============================================================================
