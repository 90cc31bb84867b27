# A TLA+ model of my_scons_project

The repository builds `xa-main`, a small daemon: it reads its options and a YAML
file, may load settings from a MariaDB database, serves JSON-RPC over HTTP on a
thread of its own, and sleeps until SIGTERM. This directory holds TLA+ modules of
the parts of it that keep state, the TLC configurations that check them on small
instances, and theorems that TLAPS has checked for every value of the constants.
Paths below are relative to `src/src/` of the repository.

## 1. The system

| component | code | state | operations | modules |
|---|---|---|---|---|
| asynchronous scan | `common/async.cpp` | `_running`, a future, two threads, time | `scan_wait_for` | `ScanWaitFor`, `PollingLoop` |
| database access | `common/mariadb.cpp` | a `MYSQL` handle, a result set | connect, query, fetch, free, disconnect; `parse_database_uri`, `query_helper`, `save_alarm_to_db` | `MySqlClient`, `DatabaseUri`, `DbQueries` |
| settings from the database | `main/options.cpp:148-175, 214-251` | the retry count, the handle | `load_settings_from_database`, `load_dbsettings_all` | `SettingsLoader` |
| RPC server | `common/rpc_base.cpp:198-247` | `thread_`, `server_`, the service threads | `start`, `run`, `stop`, `join`, destructor | `RpcServer`, `ServiceLife` |
| RPC request handler | `common/rpc_base.cpp:35-190`, `main/rpc.cpp` | the response being put together | `operator()`, `serve` | `RpcHandler`, `JsonRpc` |
| daemon | `main/main.cpp` | `is_running`, the threads, pending signals | `capture_init`, `capture_main_loop`, `do_terminate`, `do_stacktrace` | `Daemon` |
| YAML loader | `common/yaml.cpp:62-223` | a tree of nodes, the recursion, the parser | `load_file`, `load_top`, `load_node`, `load_mapping`, `load_sequence` | `YamlLoader` |
| command line and configuration | `main/options.cpp:59-125`, `common/cmdline.hpp`, `common/yaml.cpp:233-330` | the static members of `options` | `parse_cmdline`, `parse_config`, `load_file_with_fmap` | `Config`, `Startup` |
| validation | `common/validation.cpp` | none | three predicates | in `DatabaseUri`, `Config`, `AddressPort` |
| address formatting | `main/options.cpp:177-212` | none of its own | `get_address_port_string` | `AddressPort` |
| string and time helpers, logger | `common/utils.hpp`, `common/logger.cpp` | none of their own | pure functions, logging | not modelled, but for the lock that logging takes (`Daemon`) |

How they interact:

* `main` calls `parse_cmdline`; that loads the file (`Config` drives `YamlLoader`)
  and then the database its settings name (`SettingsLoader`, through `DatabaseUri`).
  A failure of the first ends in `exit(1)`, the result of the second is ignored.
  `Startup` composes all four: what one leaves in the static members of `options`
  is what the next one reads.
* `main` then owns an `rpc` object: it starts it if `control.enabled` is set and
  would stop and join it after its loop. `Daemon` extends `RpcServer` with `main`
  as the owner, so the two are composed by sharing the server's state.
* Each thread of the server runs the handler on one request after another.
  `RpcServer` treats a request as one step, `RpcHandler` opens that step.
* Signals interrupt any thread. The handler logs, clears `is_running` and calls
  `exit(1)` on the thread it interrupted, while the others go on.
* `scan_wait_for`, `query_helper`, `save_alarm_to_db` and `get_address_port_string`
  are a library: nothing in `main` calls them at this commit, and they are modelled
  for any caller.

### What is hard, and what makes each part correct

* **Scan.** Two threads share a frame that dies with the call; a hit may come at
  the same time as the timeout; the checker may throw or be slow. Correct: nobody
  uses the frame after it is gone, TRUE and FALSE mean something definite, the
  call ends in a bounded time, and to its caller it is one loop that polls once a
  second.
* **Database.** Each helper closes the caller's handle when it fails, some
  handlers close it as well, others do not. Correct: a handle is closed exactly
  once on every path, no path uses it unconnected, and the process dies of a
  handler only if the user's own function threw what kills it.
* **Settings.** Up to five attempts on one handle. Correct: attempts do not pile
  up sessions, success is one whole attempt, failure is five failed ones.
* **Server.** Threads start, serve, stop and are joined in an order nobody fixes,
  and the object may be started again. Correct: `run` outlives the services, every
  accepted request is answered before `join` returns, a stop that reaches its
  server is followed by the end of all threads.
* **Handler.** The status of a batch is put together item by item. Correct: one
  reply per call in order, 200 exactly if all succeeded.
* **Daemon.** SIGTERM may come at any moment on any thread. Correct: it ends the
  process and never with status 0.
* **Startup.** Files may break anywhere, settings take force one by one in global
  variables, and one of them makes the daemon contact a database. Correct: a daemon
  that goes on has all of its file in force and nothing else (of the debug level, the
  larger of the file's and the number of `-D`), its file is closed, and
  it talks to a database only on the word of a file that was accepted as a whole.
* **Address text.** A loop over masks with a shift at the width of `int`. Correct:
  the length that is printed is the one of the mask that was given.

`PROJECT.json` lists the hazards one by one, each at its line and with the
properties that would notice it, or a note why none does: the data race on `_running`
and a thread dropped while joinable are modelled as they turn out, and no property
forbids them.

## 2. The modules

Each module is headed by a comment that says what code it stands for, and each
action by the lines it translates; `PROJECT.json` maps all definitions. A
definition whose comment starts with `Fault:` is a mutated form of the one that
follows it: no specification uses it, it is there to show that the property named
for it in `PROJECT.json` notices such a bug. Where the two differ in one place only,
they are two instances of one operator with that place as its parameter.

**`ScanWaitFor`.** `pc` is the caller (lines 39, 51, 53, 60-61), `sc` the scanner
(test, check, sleep). The future is ready when `sc = "done"`. Time is explicit: a
thread that is ready to step has a latest time for it (`callerDue`, `scannerDue`),
and the clock does not tick past it. `MaxLag` is the scheduler's delay and
`MaxCheck` the length of a check. `_running` is a data race in C++; the checker is
an opaque call between any two tests, so every build reloads the word, and it is
modelled as one coherent word. The destructor of the future, which joins, is part
of `Return`. Calls follow one another for ever.

**`PollingLoop`** is what the caller may rely on, told without threads: check, pause
for a second after a miss, stop when the checker ends the scan or the time is up,
then answer. `ScanWaitFor` implements it by `INSTANCE` (`PollsInTurn`).

**`MySqlClient`.** The client library, external: what each call does to a handle,
and `faults`, a record of the calls that break its rules. `live` counts handles
initialised and not closed, `sessions` the connections the server holds, `results`
the result sets not freed. The helpers of `mariadb.cpp` that act on the handle in
one piece (`QueryFails`, `FetchFails`, `Disconnect`) are defined here, because both
modules that extend it use them.

**`DatabaseUri`.** `parse_database_uri` as the set of its outcomes for a URI:
accepted, refused, or an exception of `std::stoi`. A host that is a name is looked up
each time and may have no address, so one URI can have two outcomes. Extended by
`SettingsLoader`, `DbQueries` and `Startup`.

**`SettingsLoader`.** One action per call of the code, each of which may fail. The
table `db_settings` is empty at this commit; the module is about tables of any
size, the empty one included, and their parsers may return, throw
`invalid_argument`, or throw anything else. The loader does close a handle that
the failed query has closed already (`options.cpp:166`, `mariadb.cpp:343`):
`MisuseExplained` says when that can be, and never before an attempt has failed.

**`DbQueries`.** `query_helper` with any function (a sequence of queries, fetches
and frees that returns or throws) and `save_alarm_to_db`. `Closing` says which
handlers disconnect; `CatchBare` is the handler that dereferences a missing text.
The handle is new in each call, what earlier calls left behind adds up.

**`RpcServer`.** The owner and one `worker` per thread: 0 is `thread_`, which
executes `run`. The object may be started again after a `join`, with the `server_` of
the run before still in place, which an early `stop` then reaches. The HTTP server is
cpp-netlib's, external: `run` listens unless it does already, throws if the address is
taken, handles requests, and returns after `stop`. `crash` records a null `server_` in
`stop`, an exception that leaves a thread, and a thread dropped while joinable.

**`ServiceLife`** is what the owner may rely on: off, on with at most so many
requests in progress, off again when none is left, gone in the end, or dead.
`RpcServer` implements it by `INSTANCE` (`IsService`).

**`Daemon`.** Extends `RpcServer`; main is the owner. A thread that is in the
signal handler does nothing else. `heap` is the allocator's lock, which stands for
everything that logging shares with the code it interrupts. `stuck` remembers that
a signal interrupted its holder.

**`RpcHandler` and `JsonRpc`.** A request is a path, a method and a body; a JSON
value is kept as far as `is_valid_req` tells values apart. A batch is one action
per item. `JsonRpc` is the contract with a client: ask, and get a response that
keeps the promise. `RpcHandler` implements it by `INSTANCE`; the items served so
far are hidden steps.

**`YamlLoader`.** libyaml is a source of well-formed events (`Offers`) that may fail
at any point; `frames` is the recursion of `load_mapping` and `load_sequence`.
`load_mapping` takes any event for a key. libyaml clears an event before it fills
it in, so the text read from an event that is no scalar has length zero, and the
key is the empty string. `nest` is what libyaml expects and `frames` is what the
loader expects: they are two variables because they can disagree. The tree is kept
as deep as anything reads it: two levels, no items of sequences. What a file has for
keys and values is a constant for each depth.

**`Config`.** The options, then the loader, then the settings in the order of their
keys. `std::map` keeps these sorted; `KeyOrder` is that order, as a list of the strings
a file may have. The numbers are scaled: `WordSize` stands for 2^32 and `PortSize` for
2^16, and what overflows in the code overflows here.

**`Startup`.** Extends `Config` and `DatabaseUri` and instantiates `SettingsLoader`
with the settings in force: `enabled` is the flag of the file, `uri` what `UriOf`
makes of its text.

**`AddressPort`.** The loop over the masks. A shift by the width of the address is
undefined in C++; `pastEnd` is what the build makes of it, 1 or 0. `1 << n` below the
width is a recursive function, `PowerOfTwo`.

## 3. The runs

| run | module | what is asked | bounds |
|---|---|---|---|
| `scan` | `MCScanWaitFor` | no use after return, meaning of both answers, duration, one polling loop, end | timeouts -1, 0, 1, 2 s; a second is 2 ticks, delays of 0-1, checks of 0-3 |
| `settings` | `MCSettingsLoader` | sessions, leaks, misuse, meaning of TRUE, end | 5 attempts as in the code; tables of 0 and 2 entries; 60 kinds of URI |
| `queries` | `MCDbQueries` | misuse of handles, cause of each leak, cause of a crash | 3 calls, 2 result sets, 60 kinds of URI |
| `rpc_server` | `MCRpcServer` | life of the frame, early stops, end after stop, one service | 3 threads, 4 requests, 3 starts |
| `daemon` | `MCDaemon` | how the process ends | 2 threads, 2 requests, 2 signals |
| `startup` | `MCStartup` | what is loaded, that nothing read is overwritten, what is in force, when a database is contacted | files of up to 9 events, 2 options, 2 attempts, a table of 1 entry |
| `address` | `AddressPort` | the length of the prefix | all masks of 6 bits, both outcomes of the shift |
| `rpc_handler` | `MCRpcHandler` | status, replies, contract | all single calls; batches of up to 3 of four kinds of item |

Why these bounds are enough for the cases that matter: in `scan` a second is more
than one tick, so steps of both threads fall inside it, a check outlasts a sleep
and a timeout, and the third check falls on the deadline. In `settings` the second
entry of a table can fail after the first was loaded. The URIs have every kind of host
and ports of none, 0, 65535, 65536 and one that is no `int`. In `queries` a leak is
followed by a clean call and by another leak. In `rpc_server` one service may be
listening while another is still to be spawned and a third request waits, and the
second restart has a server of a restarted run before it. In `daemon` the
second signal hits a thread while the first is inside `exit`. Nine events are
enough for the two settings a database needs, in one section, and for a
collection as a key, or a second section, cut anywhere; the second attempt of
`startup` may succeed after the first failed. Six bits leave masks at both ends, next
to them and in the middle, and masks with holes. Three items are enough for a failure
between two successes, in each order.

Four runs end in a violation on purpose: they state what a comment or a test of
the repository says of the code, and TLC shows the behaviour that differs.

| run | what is said | what happens |
|---|---|---|
| `scan_throw` | `async.cpp:35`: "true if success" | a checker that throws makes the call return true |
| `scan_race` | `utest-async.cpp:27-28`: false after two calls | the third check and the deadline fall on one instant; the test is a race |
| `queries_release` | `utest-common.cpp:116-117`: a failed connect is followed by a disconnect | four handlers leave the handle as it is |
| `config_port` | `validation.cpp:61`: "range: 1 ~ 65535" | the port is cut to 16 bits first; 0 passes |

Other flaws are part of a property that says how far they reach, and hold as such:
the second close of a handle (`MisuseExplained`), the handles and result sets that
are leaked (`LeakBound`, `LeaksExplained`), the null pointer of a missing text
(`DiesOnlyByUser`), the early stop that crashes or is lost (`EarlyStop`), the mask of
a host that comes out as /0 or as an empty text although `validate_netmask` accepts
its length (`LengthExact`).

One comment is contradicted by a property that holds. `yaml.hpp:38` says that `-D`
precedes `debug.level` of the file; the code below it takes the larger of the two,
and so does `LevelIsLarger`, in the run and as a theorem. With level 16 in the file and
one `-D` the file has the last word. Put as an invariant of `MCStartup`,
`stage = "ready" /\ debugFlags > 0 => debug_level = debugFlags` fails with that file.
It is not a run of its own, but among the findings of `PROJECT.json`.
In the same way `ReadyMeansApplied` says which port is listened on: the number of the
file cut to 16 bits, so that 70000 goes on as 4464. It says what is in force, not that
such a number should be taken; `config_port` shows the numbers whose cut port is 0.

`CHECK_DEADLOCK FALSE` stands where the system stops: the loader and the process end,
a destroyed server is over, a text is returned, the calls are bounded. `scan` and
`rpc_handler` never stop, and their deadlock check is on.

### Fairness

* `ScanWaitFor`: weak fairness of the caller, the scanner and the clock. Both
  threads are runnable OS threads, and a checker answers within `MaxCheck`; without
  that last assumption the call may hang in the destructor of the future.
* `SettingsLoader`: weak fairness of the next step; it is sequential code.
* `RpcServer`: weak fairness of `run`, of each thread, and of `join`; accepted
  requests are answered since the handler does not wait for anything. Nobody is
  obliged to call `start`, `stop` or the destructor, and no request need come.
* `Daemon`: weak fairness of each thread. Strong fairness of the signal handler's
  way through the allocator's lock only: others take and release that lock over
  and over, and a thread that waits for it gets it in the end. Signals need not come.

## 4. The theorems

All are of the form `Spec => []Property` unless noted, for every value of the constants
that satisfies the module's assumptions; the last step of each is temporal logic on
an inductive invariant, which TLAPS shows to hold initially and to be kept by
every action, one lemma per action. The safety and action properties of all runs that
are expected to pass, and the three refinements, are proved.

| module | theorems | the invariant, and why it is needed |
|---|---|---|
| `ScanWaitForProofs` | `TypeCorrect`, `FrameSafety`, `TrueVerdict`, `FalseVerdict`, `Punctuality`, `OneLoop` (`Spec => PollsInTurn`) | `Control` ties `pc` to `sc`, to the flag and to the outcome; `Verdict` ties what `wait_for` answered to how the scanner ended, and when; `CallerOnTime`, `ScannerOnTime` and `LastRound` bound the latest time of each step from the start of the call, since the end of the call is bounded by all of them; `Pace` keeps a check from starting before its time. With it each step of the two threads is a step of `PollingLoop` or a stutter |
| `SettingsLoaderProofs` | `TypeCorrect`, `NoSessionPileUp`, `CompleteLoad`, `SessionsBeforeQueries`, `MisuseCause`, `BoundedLeak` | the state of the handle at each point of the loop (`HandleAt`) makes the counts of sessions, leaks and faults inductive |
| `DbQueriesProofs` | `TypeCorrect`, `NoPathClosesTwice`, `LeakAccount`, `DeathCause` | the state of the handle at each point of a call, and a balance: during a call its own handle is the only one that `blind` does not account for |
| `DaemonProofs`, the server | `TypeCorrect`, `FrameSafety`, `EarlyStopFate`, `ServiceRefined` (`Spec => IsService`) | `Progress` orders the lives of `run`, the services and the owner; `ServerAge` says which run `server_` belongs to; `Account` says accepted = answered + busy threads, a cardinality, which is why `answered <= accepted` is not inductive alone, and why the service never has more requests than threads, and none when `join` returns |
| `DaemonProofs`, the daemon | `DaemonTypeCorrect`, `SignalNeverSuccess`, `MainNeverReturns`, `NullServerCause`, `DaemonKeepsServerRules` (`DaemonSpec => Spec`), `DaemonIsService` (`DaemonSpec => IsService`) | `FlagMeansExit`: a cleared flag means a thread is inside `exit` for good. Every step of the daemon is a step of `RpcServer` or leaves it alone, so that the server's invariant carries over, and what it refines |
| `RpcHandlerProofs` | `TypeCorrect`, `StatusHonest`, `ContractKept` (`Spec => KeepsContract`) | `Answered`: the replies so far are those of the first items; with it each step of the handler is a step of `JsonRpc` or a stutter |
| `StartupProofs` | `StartupTypes`, `LoaderInStep`, `LoaderCompletes`, `ReadOnce` (`StartupSpec => NeverOverwritten`), `NeverPastTheEnd`, `ConfigurationApplied`, `DebugLevelWins`, `FileRules`, `WholeStart` | see below |
| `AddressPortProofs` | `LengthIsExact`, `PrefixComesOut` | `Missed`: no mask that was tried is the netmask. What it needs of the powers of two, that they are positive and grow, is proved from their recursion |

`StartupInv` has three parts, one for each actor of the startup.

* `YamlInv`: the loader of the file. `StackInv` relates the recursion of the loader
  to the collections open in the file (`Aligned`). In step, the two stacks are equal.
  After a collection was taken for a key they are not: libyaml is one level or more
  ahead, and what has to be shown is that the loader can then only throw. The
  invariant names the mapping `d` where it first happened: it has the empty key from
  then on, and whatever it takes for a key next (an end, or another collection)
  makes the same empty key again. `TreeInv` says which node of the tree is still
  empty, the one that is being read, so that a loaded tree has none. Both are about
  files of every depth and length.
* The settings: `AppliedInv` says of each flag, each text, the port and the level that
  it is what the file makes it if it was visited (`Put`, the settings given less those still
  to apply) and its default if not; `VisitedInv` that nothing visited had to be
  rejected; `ControlInv` how far each stage has come.
* `LoadingInv`: the loader of the database is at rest until the configuration is
  complete, and from then on is in the invariant of `SettingsLoaderProofs`, taken over
  through an instance of that module: the configuration no longer changes. `Dialled`
  adds that a session comes only from an accepted URI.

`ReadOnce` is an action property: a step of the loader changes no node that has a
value. `SectionKeys` makes it inductive: what the tree has at either level is among
the keys its mapping has seen, which a later key, the empty one that stands for a
collection included, is compared with (`yaml.cpp:171-174`). `NeverPastTheEnd` says
that the loader never meets an event that has no branch: inside of its first
collection the end of the document, outside of it the end of a collection.

### Progress

Liveness under fairness is out of the prover's reach, and so is ENABLED. What is proved
of it is its safety content, in two halves. One is an invariant: as long as the end is
not reached, the guard of a step towards it holds. The other is a budget, a state
function that is a natural number and that every such step makes smaller. The guards
are written out in the proof modules, next to the theorems. What is missing is the step
from guards to ENABLED, and fairness, by which a step that stays enabled is taken; the
liveness properties themselves are checked by TLC only.

| of | there is always a step | each step uses up some of |
|---|---|---|
| a call of `scan_wait_for` | `NoTimelock`: of the caller, the scanner or the clock | `CallIsFinite`: the time to the end of the call, and the steps of each thread that are due in it |
| the loader of settings | `NeverStuck` | `LoadIsFinite`: the attempts left, each worth as many steps as a table may take |
| a stop of the server | `StopNeverWaits`: a thread, or the owner | `StopIsFinite`: how many threads have not yet come to each of their stages, a sum of cardinalities |
| a signal | `SignalNeverWaits`, unless the signal interrupted the holder of the allocator's lock | `SignalIsFinite`: the stages that each thread's handler has before it. Other steps give none back, but they are not bounded: threads take the lock over and over |
| the startup | `StartupNeverStuck`; of the settings left, one is first in the order of the keys | `StartupIsFinite`: options, events, nodes of the tree, settings, attempts; an event counts twice, for it may add a node |
| a request | `HandlerNeverStuck`: a branch for every path, method and body | `ResponseIsFinite`: the items left |
| the text of an address | `AddressIsFinite` | the masks left |

A theorem of the library that would give induction takes an operator as its parameter,
which no installed prover can instantiate. Where induction is needed, it is done on a
set: a set of numbers that is not empty has a least member (`LeastNumber`, from
`NatLessThanWellFounded` and `WFMin`). This gives the powers of two (`Induction` and
`TableExtended` in `AddressPortProofs`), the setting that comes next, and the service
that spawns next.

`MySqlClientLemmas` states once what each call of the client library does to the
fields of a handle. The assumptions are those of the modules: natural numbers for
bounds, a positive number of threads, attempts, and ticks in a second, a port that is
narrower than a word, a `MaxOptions` that an `unsigned` can count, a `KeyOrder` that has
every string of the file, a default text that is no URI, and that the items of batches
are JSON values; TLC evaluates each of them in a run.

Only model-checked: the liveness properties `CallReturns`, `LoaderEnds`,
`StopCompletes` and `TerminatesOnSignal`, as said above.

## 5. What is not modelled

* The vendored libraries. Catch2 (`catch2/`), cpplinq (`cpplinq/`) and fmt (`fmt/`)
  are more than 30 000 of the 35 500 lines below `src/`; they are third-party code, used
  by the tests or to format messages. The program itself has some 2 600 lines, of
  which a third are comments and declarations, and the map covers all functions of
  it that keep state; nothing more of them is left to model.
* Text: formatting of messages, headers, SQL, regular expressions. A URI, a host
  and a port are kept by the outcome of their validation.
* Libraries: the MySQL client, libyaml, cpp-netlib, Boost.Log and the allocator
  are as the code relies on them, and marked external in `PROJECT.json`.
* The logger's sinks and filters: `logger::init` is one call of Boost.Log, the other
  functions hand a message on. The level of `-D` and of the file is stored, but no
  logger reads it at this commit.
* What other threads do while `exit` runs static destructors; a torn write of
  `server_`; any reordering of `_running` beyond that of one coherent word.
* `utils.hpp`: pure functions on text and time. `load_string`, `serve_unimplemented`
  and the macros that nothing uses; the getters of a result set.
* Tests, samples, the build. What the tests assert is a reference for properties.

## 6. The plan

Done: every component of the inventory that keeps state, each with its abstract
specification where it promises more than an invariant says (`PollingLoop`,
`ServiceLife`, `JsonRpc`), the compositions `Daemon` and `Startup`, proofs of all
safety properties, and the two halves of progress.

Left:

1. Progress of `DbQueries`: `save_alarm_to_db` has finitely many steps; a function given
   to `query_helper` need not.
2. The startup inside the daemon: `Daemon` has one step for the whole of
   `parse_cmdline`; a signal between two steps of `Startup` is covered by it only as
   far as the process ends.
