----------------------------- MODULE RpcServer -----------------------------
(* xa::rpc_base::start, run, stop and join (common/rpc_base.cpp): an object  *)
(* that serves HTTP from a thread of its own and from nthreads_ - 1 service  *)
(* threads which that thread spawns and joins.  Its owner calls start, then  *)
(* possibly stop, then join, after which it may start the object again, with *)
(* the server_ of the run before still there, or destroy it.                 *)
(*                                                                           *)
(* The HTTP server of cpp-netlib is external.  The source relies on this:    *)
(* run listens unless another thread does already, throws when the address   *)
(* cannot be bound, then handles requests, each on one thread; stop makes    *)
(* every run, present or future, return once the request it handles is       *)
(* answered.                                                                 *)
EXTENDS Naturals

CONSTANTS
    NThreads,   \* nthreads_
    MaxRequests,\* requests modelled
    MaxStarts   \* calls of start modelled

ASSUME ThreadsAssumption == NThreads \in Nat \ {0}
ASSUME RequestsAssumption == MaxRequests \in Nat
ASSUME StartsAssumption == MaxStarts \in Nat \ {0}

\* Worker 0 is thread_, which executes rpc_base::run; the others are services.
Workers == 0 .. NThreads - 1
Services == 1 .. NThreads - 1

VARIABLES
    owner,      \* control of the owner
    starts,     \* calls of start: the number of the current run
    worker,     \* control of each worker
    server,     \* the run that assigned server_, 0 while it is null
    listening,  \* the acceptor of the current run is bound
    halted,     \* the server of the current run was told to stop
    accepted,   \* requests accepted
    answered,   \* requests answered
    crash       \* how the process died, "none" while it lives

vars == <<owner, starts, worker, server, listening, halted, accepted, answered, crash>>

OwnerStates == {"new", "started", "stopped", "joining", "joined", "destroyed"}

\* spawning: lines 235-240; serving: in run, between requests; handling: in the
\* handler; joining: lines 242-246; ended: the function of the thread is over.
WorkerStates == {"none", "begin", "spawning", "entering", "serving", "handling",
                 "joining", "ended"}

Init ==
    /\ owner = "new"
    /\ starts = 0
    /\ worker = [w \in Workers |-> "none"]
    /\ server = 0
    /\ listening = FALSE
    /\ halted = FALSE
    /\ accepted = 0
    /\ answered = 0
    /\ crash = "none"

Alive == crash = "none"

Move(w, from, to) == worker[w] = from /\ worker' = [worker EXCEPT ![w] = to]

-----------------------------------------------------------------------------
(* The owner. *)

\* Lines 209-215, for a new object or one that was joined.
StartWith(ref) ==
    /\ Alive
    /\ owner \in {"new", "joined"}
    /\ starts < MaxStarts
    /\ owner' = "started"
    /\ starts' = starts + 1
    /\ worker' = [w \in Workers |-> IF w = 0 THEN "begin" ELSE "none"]
    /\ server' = ref
    /\ listening' = FALSE
    /\ halted' = FALSE
    /\ UNCHANGED <<accepted, answered, crash>>

\* Fault: start drops the server of the last run.
StartReset == StartWith(0)
Start == StartWith(server)

\* Lines 217-220: server_ is dereferenced, whatever it is: null in a first run
\* that has not come to line 233, or else the server of the run before, which
\* has been stopped already.
Stop ==
    /\ Alive
    /\ owner = "started"
    /\ owner' = "stopped"
    /\ halted' = (server = starts)
    /\ crash' = IF server = 0 THEN "null_server" ELSE crash
    /\ UNCHANGED <<starts, worker, server, listening, accepted, answered>>

\* Lines 222-225.
BeginJoin ==
    /\ Alive
    /\ owner \in {"started", "stopped"}
    /\ owner' = "joining"
    /\ UNCHANGED <<starts, worker, server, listening, halted, accepted, answered, crash>>

EndJoin ==
    /\ Alive
    /\ owner = "joining"
    /\ worker[0] = "ended"
    /\ owner' = "joined"
    /\ UNCHANGED <<starts, worker, server, listening, halted, accepted, answered, crash>>

\* Line 205.
Destroy ==
    /\ Alive
    /\ owner \in {"new", "joined"}
    /\ owner' = "destroyed"
    /\ UNCHANGED <<starts, worker, server, listening, halted, accepted, answered, crash>>

\* start or the destructor while thread_ is not joined: std::thread ends the
\* process, in its assignment or in its destructor.
DropThread ==
    /\ Alive
    /\ owner \in {"started", "stopped"}
    /\ crash' = "terminate"
    /\ UNCHANGED <<owner, starts, worker, server, listening, halted, accepted, answered>>

-----------------------------------------------------------------------------
(* rpc_base::run. *)

\* Lines 229-233: the handler is a local; the server keeps a reference to it.
\* The server of the last run, if any, is deleted.
AssignServer ==
    /\ Alive
    /\ Move(0, "begin", "spawning")
    /\ server' = starts
    /\ UNCHANGED <<owner, starts, listening, halted, accepted, answered, crash>>

\* Lines 236-239: the services are spawned in order.
SpawnService(w) ==
    /\ Alive
    /\ worker[0] = "spawning"
    /\ \A v \in Services : worker[v] = "none" => w <= v
    /\ Move(w, "none", "entering")
    /\ UNCHANGED <<owner, starts, server, listening, halted, accepted, answered, crash>>

\* Line 241.
EnterRun ==
    /\ Alive
    /\ \A v \in Services : worker[v] # "none"
    /\ Move(0, "spawning", "entering")
    /\ UNCHANGED <<owner, starts, server, listening, halted, accepted, answered, crash>>

\* run listens unless the server listens already.
Listen(w) ==
    /\ Alive
    /\ Move(w, "entering", "serving")
    /\ listening' = TRUE
    /\ UNCHANGED <<owner, starts, server, halted, accepted, answered, crash>>

\* The address cannot be bound: the exception leaves the function of a thread,
\* and std::terminate ends the process.
BindFails(w) ==
    /\ Alive
    /\ worker[w] = "entering"
    /\ ~listening
    /\ crash' = "terminate"
    /\ UNCHANGED <<owner, starts, worker, server, listening, halted, accepted, answered>>

Accept(w) ==
    /\ Alive
    /\ ~halted
    /\ accepted < MaxRequests
    /\ Move(w, "serving", "handling")
    /\ accepted' = accepted + 1
    /\ UNCHANGED <<owner, starts, server, listening, halted, answered, crash>>

\* Lines 103-190: the handler of run's frame computes the response.
AnswerAnd(w, next) ==
    /\ Alive
    /\ Move(w, "handling", next)
    /\ answered' = answered + 1
    /\ UNCHANGED <<owner, starts, server, listening, halted, accepted, crash>>

\* Fault: a request is answered and kept, to be answered again.
AnswerKept(w) == AnswerAnd(w, "handling")
Answer(w) == AnswerAnd(w, "serving")

\* run returns; worker 0 goes on to join the services.
LeaveRun(w) ==
    /\ Alive
    /\ halted
    /\ Move(w, "serving", IF w = 0 THEN "joining" ELSE "ended")
    /\ UNCHANGED <<owner, starts, server, listening, halted, accepted, answered, crash>>

\* Lines 242-247: services are joined, run returns, its frame is gone.
RunReturnsAfter(joined) ==
    /\ Alive
    /\ \A v \in joined : worker[v] = "ended"
    /\ Move(0, "joining", "ended")
    /\ UNCHANGED <<owner, starts, server, listening, halted, accepted, answered, crash>>

\* Faults: run joins no service, or one thread too many, its own.
RunReturnsEarly == RunReturnsAfter({})
RunReturnsNever == RunReturnsAfter(Workers)
RunReturns == RunReturnsAfter(Services)

Owner == Start \/ Stop \/ BeginJoin \/ EndJoin \/ Destroy \/ DropThread
Run == AssignServer \/ EnterRun \/ RunReturns
\* What a worker does of itself; requests come from outside.
WorkerStep(w) == Listen(w) \/ BindFails(w) \/ Answer(w) \/ LeaveRun(w)

Next ==
    \/ Owner
    \/ Run
    \/ \E w \in Services : SpawnService(w)
    \/ \E w \in Workers : WorkerStep(w) \/ Accept(w)

Spec == Init /\ [][Next]_vars

\* Threads are scheduled, and a request once accepted is answered: the handlers
\* neither wait nor loop on anything but the request.  Nothing obliges an owner
\* to call start, stop or the destructor.
FairSpec ==
    /\ Spec
    /\ WF_vars(BeginJoin) /\ WF_vars(EndJoin) /\ WF_vars(Run)
    /\ \A w \in Services : WF_vars(SpawnService(w))
    /\ \A w \in Workers : WF_vars(WorkerStep(w))

-----------------------------------------------------------------------------
(* Properties. *)

TypeOK ==
    /\ owner \in OwnerStates
    /\ starts \in 0 .. MaxStarts
    /\ worker \in [Workers -> WorkerStates]
    /\ server \in 0 .. starts
    /\ listening \in BOOLEAN
    /\ halted \in BOOLEAN
    /\ accepted \in Nat
    /\ answered \in 0 .. accepted
    /\ crash \in {"none", "null_server", "terminate"}

\* The handler and the options are locals of run, and services is an array of
\* its frame: the frame outlives every thread that uses them (line 244).
FrameOutlivesServices ==
    worker[0] = "ended" => \A w \in Services : worker[w] = "ended"

\* A stop that comes before run has made its server ends the process in the first
\* run, and is lost in a later one, where it finds the server of the run before:
\* a run that goes on although it was told to stop is a restarted one.
EarlyStop ==
    /\ crash = "null_server" => starts = 1 /\ worker[0] = "begin"
    /\ owner = "stopped" /\ Alive /\ ~halted => starts > 1

\* A stop that finds the server of its run is followed by the end of all threads,
\* however far run has come, unless the address cannot be bound.
StopCompletes == owner = "stopped" /\ halted /\ Alive ~> owner = "joined" \/ ~Alive

Life == INSTANCE ServiceLife
          WITH Capacity <- NThreads,
               life <- IF ~Alive THEN "dead"
                       ELSE IF owner \in {"new", "joined"} THEN "off"
                       ELSE IF owner = "destroyed" THEN "gone" ELSE "on",
               pending <- accepted - answered

\* To its owner the object is a service: it takes requests only between start and
\* join, one per thread at a time, and join returns when all are answered,
\* whichever threads accepted them and however often the object was restarted.
IsService == Life!Spec

=============================================================================
