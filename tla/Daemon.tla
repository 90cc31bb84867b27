------------------------------- MODULE Daemon -------------------------------
(* The daemon (main/main.cpp): main boots, starts the RPC server if control  *)
(* is enabled, and sleeps in a loop until is_running is cleared.  SIGTERM is *)
(* delivered to any thread that does not handle it already; do_terminate     *)
(* logs, clears is_running and calls exit(1) on the thread it interrupted,   *)
(* which never goes back to what it was doing, while the others go on.       *)
(*                                                                           *)
(* The threads of the server are those of RpcServer, with main as the owner. *)
(* Logging allocates: `heap' is the allocator's lock, held for a moment by a *)
(* thread that allocates.  It is not reentrant, so a signal that interrupts  *)
(* its holder waits for it forever.                                          *)
EXTENDS RpcServer

CONSTANT MaxSignals     \* SIGTERMs sent

ASSUME SignalsAssumption == MaxSignals \in Nat

\* Threads are numbered: the workers, then main, then a number that is none.
Main == NThreads
NoThread == NThreads + 1

VARIABLES
    enabled,    \* options::control_enabled
    main,       \* control of main
    isRunning,  \* is_running
    handler,    \* per thread: where it is in do_terminate
    heap,       \* the thread that holds the allocator's lock
    sent,       \* SIGTERMs sent
    stuck,      \* a SIGTERM interrupted the holder of the allocator's lock
    status      \* how the process ended

serverVars == vars
mainVars == <<enabled, main, isRunning>>
signalVars == <<handler, heap, sent, stuck, status>>
daemonVars == <<serverVars, mainVars, signalVars>>

MainStates == {"boot", "parse", "allocating", "parsed", "loop", "sleeping", "stopping",
               "joining", "returning"}

\* The values of status: an exit code, or the way the process was killed.
Statuses == {"alive", "exit_0", "exit_1", "killed", "aborted"}

Running == status = "alive"

\* A thread runs its own code until a signal is delivered to it.
Free(t) == Running /\ handler[t] = "none"

Boot ==
    /\ Init
    /\ enabled \in BOOLEAN
    /\ main = "boot"
    /\ isRunning = TRUE
    /\ handler = [t \in Workers \cup {Main} |-> "none"]
    /\ heap = NoThread
    /\ sent = 0
    /\ stuck = FALSE
    /\ status = "alive"

MoveMain(from, to) == Alive /\ Free(Main) /\ main = from /\ main' = to
Exit(s) == Running /\ status' = s

-----------------------------------------------------------------------------
(* capture_init, lines 65-80. *)

\* Line 71: from here on SIGTERM is handled.
InstallHandlers ==
    /\ MoveMain("boot", "parse")
    /\ UNCHANGED <<serverVars, enabled, isRunning, signalVars>>

\* Parsing and logging allocate, over and over.
MainAllocates ==
    /\ heap = NoThread
    /\ MoveMain("parse", "allocating")
    /\ heap' = Main
    /\ UNCHANGED <<serverVars, enabled, isRunning, handler, sent, stuck, status>>

MainReleases ==
    /\ \E to \in {"parse", "parsed"} : MoveMain("allocating", to)
    /\ heap' = NoThread
    /\ UNCHANGED <<serverVars, enabled, isRunning, handler, sent, stuck, status>>

-----------------------------------------------------------------------------
(* capture_main_loop, lines 82-102. *)

\* Lines 84-88.
Serve ==
    /\ MoveMain("parsed", "loop")
    /\ IF enabled THEN Start ELSE UNCHANGED serverVars
    /\ UNCHANGED <<enabled, isRunning, signalVars>>

\* Line 92.
TestRunning ==
    /\ \/ isRunning /\ MoveMain("loop", "sleeping")
       \/ ~isRunning /\ enabled /\ MoveMain("loop", "stopping")
       \/ ~isRunning /\ ~enabled /\ MoveMain("loop", "returning")
    /\ UNCHANGED <<serverVars, enabled, isRunning, signalVars>>

\* Line 93.
Sleep ==
    /\ MoveMain("sleeping", "loop")
    /\ UNCHANGED <<serverVars, enabled, isRunning, signalVars>>

\* Line 99.
StopServer ==
    /\ MoveMain("stopping", "joining")
    /\ Stop
    /\ UNCHANGED <<enabled, isRunning, signalVars>>

\* Line 100.
JoinServer ==
    /\ \/ MoveMain("joining", "joining") /\ BeginJoin
       \/ MoveMain("joining", "returning") /\ EndJoin
    /\ UNCHANGED <<enabled, isRunning, signalVars>>

\* main leaves: --help exits with 0, a bad command line or configuration with
\* 1 (cmdline.hpp, capture_init), a database port out of range aborts
\* (SettingsLoader); line 113 returns 0.
MainExits ==
    /\ Alive
    /\ Free(Main)
    /\ \/ main = "parse" /\ \E s \in {"exit_0", "exit_1", "aborted"} : Exit(s)
       \/ main = "returning" /\ Exit("exit_0")
    /\ UNCHANGED <<serverVars, mainVars, handler, heap, sent, stuck>>

-----------------------------------------------------------------------------
(* The threads of the server. *)

\* A worker that handles a request allocates.
WorkerAllocates(w) ==
    /\ Free(w)
    /\ worker[w] = "handling"
    /\ heap = NoThread
    /\ heap' = w
    /\ UNCHANGED <<serverVars, mainVars, handler, sent, stuck, status>>

WorkerReleases(w) ==
    /\ Free(w)
    /\ heap = w
    /\ heap' = NoThread
    /\ UNCHANGED <<serverVars, mainVars, handler, sent, stuck, status>>

\* Fault: a worker may end its request with the lock held.
WorkerMovesLocked(w) ==
    /\ Free(w)
    /\ WorkerStep(w) \/ (w = 0 /\ Run) \/ (w \in Services /\ Free(0) /\ SpawnService(w))
    /\ UNCHANGED <<mainVars, signalVars>>

\* A worker moves as RpcServer says, and holds no lock when a request is over.
WorkerMoves(w) ==
    /\ Free(w)
    /\ heap # w
    /\ WorkerStep(w) \/ (w = 0 /\ Run) \/ (w \in Services /\ Free(0) /\ SpawnService(w))
    /\ UNCHANGED <<mainVars, signalVars>>

Request(w) ==
    /\ Free(w)
    /\ Accept(w)
    /\ UNCHANGED <<mainVars, signalVars>>

-----------------------------------------------------------------------------
(* Signals. *)

\* The threads that exist.
Threads == {Main} \cup {w \in Workers : worker[w] \notin {"none", "ended"}}

\* The default action of SIGTERM, before line 71.
KillEarly ==
    /\ main = "boot"
    /\ sent < MaxSignals
    /\ sent' = sent + 1
    /\ Exit("killed")
    /\ UNCHANGED <<serverVars, mainVars, handler, heap, stuck>>

\* The kernel picks a thread; do_terminate begins on it.
Deliver(t) ==
    /\ Alive
    /\ main # "boot"
    /\ sent < MaxSignals
    /\ t \in Threads
    /\ Free(t)
    /\ sent' = sent + 1
    /\ handler' = [handler EXCEPT ![t] = "logging"]
    /\ stuck' = (stuck \/ heap = t)
    /\ UNCHANGED <<serverVars, mainVars, heap, status>>

\* Line 31: the message is formatted and logged, which takes the heap's lock.
LogSignal(t) ==
    /\ Running
    /\ handler[t] = "logging"
    /\ heap = NoThread
    /\ handler' = [handler EXCEPT ![t] = "logged"]
    /\ UNCHANGED <<serverVars, mainVars, heap, sent, stuck, status>>

\* Line 33.
ClearRunning(t) ==
    /\ Running
    /\ handler[t] = "logged"
    /\ handler' = [handler EXCEPT ![t] = "exiting"]
    /\ isRunning' = FALSE
    /\ UNCHANGED <<serverVars, enabled, main, heap, sent, stuck, status>>

\* Fault: the handler reports success.
HandlerExitsZero(t) ==
    /\ handler[t] = "exiting"
    /\ Exit("exit_0")
    /\ UNCHANGED <<serverVars, mainVars, handler, heap, sent, stuck>>

\* Fault: the handler returns to the code it interrupted.
HandlerReturns(t) ==
    /\ Running
    /\ handler[t] = "exiting"
    /\ handler' = [handler EXCEPT ![t] = "none"]
    /\ UNCHANGED <<serverVars, mainVars, heap, sent, stuck, status>>

\* Fault: the handler waits for the server to be joined before it exits.
HandlerWaits(t) ==
    /\ handler[t] = "exiting"
    /\ owner \in {"new", "joined"}
    /\ Exit("exit_1")
    /\ UNCHANGED <<serverVars, mainVars, handler, heap, sent, stuck>>

\* Line 35: exit does not return; the other threads run until it is over.
HandlerExits(t) ==
    /\ handler[t] = "exiting"
    /\ Exit("exit_1")
    /\ UNCHANGED <<serverVars, mainVars, handler, heap, sent, stuck>>

\* std::terminate in a worker aborts the process; a null server_ is a SIGSEGV
\* of main, for which do_stacktrace (lines 38-52) logs and calls exit(1).
Crash ==
    /\ ~Alive
    /\ \/ crash = "terminate" /\ Exit("aborted")
       \/ crash = "null_server" /\ heap = NoThread /\ Exit("exit_1")
    /\ UNCHANGED <<serverVars, mainVars, handler, heap, sent, stuck>>

-----------------------------------------------------------------------------
MainBoots == InstallHandlers \/ MainAllocates \/ MainReleases
MainServes == Serve \/ TestRunning \/ Sleep \/ StopServer \/ JoinServer \/ MainExits
Handle(t) == LogSignal(t) \/ ClearRunning(t) \/ HandlerExits(t)

DaemonNext ==
    \/ MainBoots \/ MainServes
    \/ \E w \in Workers :
          WorkerAllocates(w) \/ WorkerReleases(w) \/ WorkerMoves(w) \/ Request(w)
    \/ KillEarly
    \/ \E t \in Workers \cup {Main} : Deliver(t) \/ Handle(t)
    \/ Crash

DaemonSpec == Boot /\ [][DaemonNext]_daemonVars

\* Threads are scheduled; a thread that waits for the allocator's lock gets it
\* in the end, if it is released again and again.  Signals need not come.
FairDaemonSpec ==
    /\ DaemonSpec
    /\ WF_daemonVars(MainReleases) /\ WF_daemonVars(MainServes) /\ WF_daemonVars(Crash)
    /\ \A w \in Workers : WF_daemonVars(WorkerReleases(w)) /\ WF_daemonVars(WorkerMoves(w))
    /\ \A t \in Workers \cup {Main} :
          /\ SF_daemonVars(LogSignal(t))
          /\ WF_daemonVars(ClearRunning(t))
          /\ WF_daemonVars(HandlerExits(t))

-----------------------------------------------------------------------------
(* Properties. *)

HandlerStates == {"none", "logging", "logged", "exiting"}

DaemonTypeOK ==
    /\ TypeOK
    /\ enabled \in BOOLEAN
    /\ main \in MainStates
    /\ isRunning \in BOOLEAN
    /\ handler \in [Workers \cup {Main} -> HandlerStates]
    /\ heap \in Workers \cup {Main, NoThread}
    /\ heap \in Workers => worker[heap] = "handling"
    /\ heap = Main => main = "allocating"
    /\ sent \in 0 .. MaxSignals
    /\ stuck \in BOOLEAN
    /\ status \in Statuses

\* Exit status 0 means --help and no signal: a daemon that was told to end, or
\* that failed, never reports success.
ZeroOnlyForHelp == status = "exit_0" => main = "parse" /\ sent = 0

\* The code after the loop of main runs only while another thread is inside
\* exit(1), and its join is never over: main does not return.
ShutdownInVain ==
    /\ main \in {"stopping", "joining", "returning"} =>
          enabled /\ \E w \in Workers : handler[w] = "exiting"
    /\ main # "returning"

\* server_ is null in stop only if the signal hit the thread of run before it
\* assigned server_.
NullOnlyIfInterrupted ==
    crash = "null_server" => worker[0] = "begin" /\ handler[0] = "exiting"

\* SIGTERM ends the process, unless it hits a thread inside the allocator.
TerminatesOnSignal == sent > 0 ~> ~Running \/ stuck

=============================================================================
