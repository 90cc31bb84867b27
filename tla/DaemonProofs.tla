---------------------------- MODULE DaemonProofs ----------------------------
(* Theorems about RpcServer, for every number of threads, requests and        *)
(* restarts, and about Daemon, which extends it, for every number of signals. *)
EXTENDS Daemon, FiniteSets, FiniteSetTheorems, WellFoundedInduction, TLAPS

(* The server: RpcServer.                                                      *)

\* The workers inside the handler.
Busy == {w \in Workers : worker[w] = "handling"}

\* The variables have their types, counters apart.
Types ==
    /\ owner \in OwnerStates
    /\ starts \in 0 .. MaxStarts
    /\ worker \in [Workers -> WorkerStates]
    /\ server \in 0 .. starts
    /\ listening \in BOOLEAN
    /\ halted \in BOOLEAN
    /\ accepted \in Nat
    /\ answered \in Nat
    /\ crash \in {"none", "null_server", "terminate"}

\* How far run has come tells how far the services and the owner have.
Progress ==
    /\ worker[0] \notin {"none", "begin", "spawning"} =>
          \A v \in Services : worker[v] # "none"
    /\ worker[0] = "ended" => \A v \in Services : worker[v] = "ended"
    /\ owner = "joined" => worker[0] = "ended"
    /\ owner = "destroyed" => worker[0] \in {"none", "ended"}
    /\ owner = "new" => worker[0] = "none"
    /\ worker[0] = "none" <=> starts = 0
    /\ starts = 0 => owner \in {"new", "destroyed"}
    /\ worker[0] \in {"none", "begin"} => \A v \in Services : worker[v] = "none"

\* server_ is that of the run, once it has come so far, or of the run before.
ServerAge ==
    /\ server = starts <=> worker[0] # "begin"
    /\ starts <= server + 1

\* Every request accepted is answered or in the hands of a worker.
Account == accepted = answered + Cardinality(Busy)

IInv == Types /\ Progress /\ ServerAge /\ Account /\ EarlyStop

-----------------------------------------------------------------------------
(* Counting the busy workers. *)

\* The thread of run is a worker and no service.
LEMMA WorkerSets == 0 \in Workers /\ Services \subseteq Workers /\ 0 \notin Services
                    /\ Workers \ {0} \subseteq Services
BY ThreadsAssumption DEF Workers, Services

\* There are finitely many busy workers, in this state and in the next.
LEMMA BusyFinite ==
    /\ IsFiniteSet(Busy) /\ Cardinality(Busy) \in Nat
    /\ IsFiniteSet(Busy') /\ Cardinality(Busy') \in Nat
<1>1. IsFiniteSet(Workers)
  BY ThreadsAssumption, FS_Interval DEF Workers
<1>2. Busy \subseteq Workers /\ Busy' \subseteq Workers
  BY DEF Busy
<1>3. IsFiniteSet(Busy) /\ IsFiniteSet(Busy')
  BY <1>1, <1>2, FS_Subset
<1> QED
  BY <1>3, FS_CardinalityType

\* A move from and to other states than handling changes no count.
LEMMA MoveIdle ==
    ASSUME Types, Account, NEW w \in Workers, NEW from, NEW to,
           Move(w, from, to), from # "handling", to # "handling",
           accepted' = accepted, answered' = answered
    PROVE  Account'
<1>1. Busy' = Busy
  BY DEF Types, Busy, Move
<1> QED
  BY <1>1 DEF Account

\* A worker that accepts a request is one more.
LEMMA MoveIn ==
    ASSUME Types, Account, NEW w \in Workers, Move(w, "serving", "handling"),
           accepted' = accepted + 1, answered' = answered
    PROVE  Account'
<1>1. Busy' = Busy \cup {w} /\ w \notin Busy
  BY DEF Types, Busy, Move
<1>2. Cardinality(Busy') = Cardinality(Busy) + 1
  BY <1>1, BusyFinite, FS_AddElement
<1> QED
  BY <1>2, BusyFinite DEF Account, Types

\* A worker that answers a request is one less.
LEMMA MoveOut ==
    ASSUME Types, Account, NEW w \in Workers, Move(w, "handling", "serving"),
           accepted' = accepted, answered' = answered + 1
    PROVE  Account'
<1>1. Busy' = Busy \ {w} /\ w \in Busy
  BY DEF Types, Busy, Move
<1>2. Cardinality(Busy') = Cardinality(Busy) - 1
  BY <1>1, BusyFinite, FS_RemoveElement
<1> QED
  BY <1>2, BusyFinite DEF Account, Types

\* A step that moves no worker changes no count.
LEMMA NoMove ==
    ASSUME Account, worker' = worker, accepted' = accepted, answered' = answered
    PROVE  Account'
BY DEF Account, Busy

-----------------------------------------------------------------------------
(* The inductive invariant. *)

\* Nothing has begun.
LEMMA InitInv == Init => IInv
<1> SUFFICES ASSUME Init PROVE IInv
  OBVIOUS
<1>0. worker \in [Workers -> WorkerStates]
  BY DEF Init, WorkerStates
<1>1. Types
  <2>1. starts \in 0 .. MaxStarts /\ server \in 0 .. starts
    BY StartsAssumption DEF Init
  <2> QED
    BY <1>0, <2>1 DEF Init, Types, OwnerStates
<1>4. \A w \in Workers : worker[w] = "none"
  BY DEF Init
<1>5. Progress
  BY <1>4, WorkerSets DEF Init, Progress
<1>6. ServerAge
  BY <1>4, WorkerSets DEF Init, ServerAge
<1>7. EarlyStop
  BY DEF Init, EarlyStop
<1>2. Busy = {}
  BY DEF Init, Busy
<1>3. Account
  BY <1>2, FS_EmptySet DEF Init, Account
<1> QED
  BY <1>1, <1>3, <1>5, <1>6, <1>7 DEF IInv

\* The thread of run is launched; those of the last run are gone, none is busy.
LEMMA StartInv ==
    ASSUME IInv, Start
    PROVE  IInv'
<1> USE WorkerSets, StartsAssumption DEF IInv, Start, StartWith, Alive
<1>1. Types'
  <2>1. worker' \in [Workers -> WorkerStates]
    BY DEF WorkerStates
  <2>2. starts' \in 0 .. MaxStarts /\ server' \in 0 .. starts' /\ owner' \in OwnerStates
    BY DEF Types, OwnerStates
  <2> QED
    BY <2>1, <2>2 DEF Types
<1>2. Progress'
  BY DEF Types, Progress
<1>3. Account'
  <2>1. Busy = {}
    BY DEF Types, Progress, Busy
  <2>2. Busy' = {}
    BY DEF Busy
  <2> QED
    BY <2>1, <2>2 DEF Account
<1>4. ServerAge'
  BY DEF Types, Progress, ServerAge
<1>5. EarlyStop'
  BY DEF EarlyStop
<1> QED
  BY <1>1, <1>2, <1>3, <1>4, <1>5

\* The owner stops the server.
LEMMA StopInv ==
    ASSUME IInv, Stop
    PROVE  IInv'
<1> USE WorkerSets DEF IInv, Stop
<1>1. Types'
  BY DEF Types, OwnerStates, WorkerStates, Move
<1>2. Progress'
  BY DEF Types, Progress, Move, Alive
<1>3. Account'
  BY NoMove
<1>4. ServerAge'
  BY DEF Types, Progress, ServerAge, Move, Alive
<1>5. EarlyStop'
  <2>1. starts \in Nat /\ server \in 0 .. starts /\ starts # 0 /\ starts <= server + 1
    BY DEF Types, Progress, ServerAge
  <2>2. server # starts => worker[0] = "begin"
    BY DEF ServerAge
  <2>3. server = 0 => starts = 1
    BY <2>1
  <2>4. server # 0 /\ server # starts => starts > 1
    BY <2>1
  <2> QED
    BY <2>2, <2>3, <2>4, <2>1 DEF EarlyStop, Alive
<1> QED
  BY <1>1, <1>2, <1>3, <1>4, <1>5

\* The owner waits.
LEMMA BeginJoinInv ==
    ASSUME IInv, BeginJoin
    PROVE  IInv'
<1> USE WorkerSets DEF IInv, BeginJoin
<1>1. Types'
  BY DEF Types, OwnerStates, WorkerStates, Move
<1>2. Progress'
  BY DEF Types, Progress, Move, Alive
<1>3. Account'
  BY NoMove
<1>4. ServerAge'
  BY DEF Types, Progress, ServerAge, Move, Alive
<1>5. EarlyStop'
  BY DEF Types, Progress, ServerAge, EarlyStop, Move, Alive
<1> QED
  BY <1>1, <1>2, <1>3, <1>4, <1>5

\* The owner has joined.
LEMMA EndJoinInv ==
    ASSUME IInv, EndJoin
    PROVE  IInv'
<1> USE WorkerSets DEF IInv, EndJoin
<1>1. Types'
  BY DEF Types, OwnerStates, WorkerStates, Move
<1>2. Progress'
  BY DEF Types, Progress, Move, Alive
<1>3. Account'
  BY NoMove
<1>4. ServerAge'
  BY DEF Types, Progress, ServerAge, Move, Alive
<1>5. EarlyStop'
  BY DEF Types, Progress, ServerAge, EarlyStop, Move, Alive
<1> QED
  BY <1>1, <1>2, <1>3, <1>4, <1>5

\* The object is destroyed, its thread is not.
LEMMA DestroyInv ==
    ASSUME IInv, Destroy
    PROVE  IInv'
<1> USE WorkerSets DEF IInv, Destroy
<1>1. Types'
  BY DEF Types, OwnerStates, WorkerStates, Move
<1>2. Progress'
  BY DEF Types, Progress, Move, Alive
<1>3. Account'
  BY NoMove
<1>4. ServerAge'
  BY DEF Types, Progress, ServerAge, Move, Alive
<1>5. EarlyStop'
  BY DEF Types, Progress, ServerAge, EarlyStop, Move, Alive
<1> QED
  BY <1>1, <1>2, <1>3, <1>4, <1>5

\* A thread is dropped: the process ends, the rest is as it was.
LEMMA DropThreadInv ==
    ASSUME IInv, DropThread
    PROVE  IInv'
<1> USE WorkerSets DEF IInv, DropThread
<1>1. Types'
  BY DEF Types, OwnerStates, WorkerStates, Move
<1>2. Progress'
  BY DEF Types, Progress, Move, Alive
<1>3. Account'
  BY NoMove
<1>4. ServerAge'
  BY DEF Types, Progress, ServerAge, Move, Alive
<1>5. EarlyStop'
  BY DEF Types, Progress, ServerAge, EarlyStop, Move, Alive
<1> QED
  BY <1>1, <1>2, <1>3, <1>4, <1>5

\* The server is created.
LEMMA AssignServerInv ==
    ASSUME IInv, AssignServer
    PROVE  IInv'
<1> USE WorkerSets DEF IInv, AssignServer
<1>1. Types'
  BY DEF Types, OwnerStates, WorkerStates, Move
<1>2. Progress'
  BY DEF Types, Progress, Move, Alive
<1>3. Account'
  BY MoveIdle
<1>4. ServerAge'
  BY DEF Types, Progress, ServerAge, Move, Alive
<1>5. EarlyStop'
  BY DEF Types, Progress, ServerAge, EarlyStop, Move, Alive
<1> QED
  BY <1>1, <1>2, <1>3, <1>4, <1>5

\* The thread of run enters the server.
LEMMA EnterRunInv ==
    ASSUME IInv, EnterRun
    PROVE  IInv'
<1> USE WorkerSets DEF IInv, EnterRun
<1>1. Types'
  BY DEF Types, OwnerStates, WorkerStates, Move
<1>2. Progress'
  BY DEF Types, Progress, Move, Alive
<1>3. Account'
  BY MoveIdle
<1>4. ServerAge'
  BY DEF Types, Progress, ServerAge, Move, Alive
<1>5. EarlyStop'
  BY DEF Types, Progress, ServerAge, EarlyStop, Move, Alive
<1> QED
  BY <1>1, <1>2, <1>3, <1>4, <1>5

\* run returns.
LEMMA RunReturnsInv ==
    ASSUME IInv, RunReturns
    PROVE  IInv'
<1> USE WorkerSets DEF IInv, RunReturns, RunReturnsAfter
<1>1. Types'
  BY DEF Types, OwnerStates, WorkerStates, Move
<1>2. Progress'
  BY DEF Types, Progress, Move, Alive
<1>3. Account'
  BY MoveIdle
<1>4. ServerAge'
  BY DEF Types, Progress, ServerAge, Move, Alive
<1>5. EarlyStop'
  BY DEF Types, Progress, ServerAge, EarlyStop, Move, Alive
<1> QED
  BY <1>1, <1>2, <1>3, <1>4, <1>5

\* A service is spawned.
LEMMA SpawnServiceInv ==
    ASSUME IInv, NEW w \in Services, SpawnService(w)
    PROVE  IInv'
<1> USE WorkerSets DEF IInv, SpawnService
<1>1. Types'
  BY DEF Types, OwnerStates, WorkerStates, Move
<1>2. Progress'
  BY DEF Types, Progress, Move, Alive
<1>3. Account'
  BY MoveIdle
<1>4. ServerAge'
  BY DEF Types, Progress, ServerAge, Move, Alive
<1>5. EarlyStop'
  BY DEF Types, Progress, ServerAge, EarlyStop, Move, Alive
<1> QED
  BY <1>1, <1>2, <1>3, <1>4, <1>5

\* A worker listens.
LEMMA ListenInv ==
    ASSUME IInv, NEW w \in Workers, Listen(w)
    PROVE  IInv'
<1> USE WorkerSets DEF IInv, Listen
<1>1. Types'
  BY DEF Types, OwnerStates, WorkerStates, Move
<1>2. Progress'
  BY DEF Types, Progress, Move, Alive
<1>3. Account'
  BY MoveIdle
<1>4. ServerAge'
  BY DEF Types, Progress, ServerAge, Move, Alive
<1>5. EarlyStop'
  BY DEF Types, Progress, ServerAge, EarlyStop, Move, Alive
<1> QED
  BY <1>1, <1>2, <1>3, <1>4, <1>5

\* The address cannot be bound.
LEMMA BindFailsInv ==
    ASSUME IInv, NEW w \in Workers, BindFails(w)
    PROVE  IInv'
<1> USE WorkerSets DEF IInv, BindFails
<1>1. Types'
  BY DEF Types, OwnerStates, WorkerStates, Move
<1>2. Progress'
  BY DEF Types, Progress, Move, Alive
<1>3. Account'
  BY NoMove
<1>4. ServerAge'
  BY DEF Types, Progress, ServerAge, Move, Alive
<1>5. EarlyStop'
  BY DEF Types, Progress, ServerAge, EarlyStop, Move, Alive
<1> QED
  BY <1>1, <1>2, <1>3, <1>4, <1>5

\* A request is accepted.
LEMMA AcceptInv ==
    ASSUME IInv, NEW w \in Workers, Accept(w)
    PROVE  IInv'
<1> USE WorkerSets DEF IInv, Accept
<1>1. Types'
  BY DEF Types, OwnerStates, WorkerStates, Move
<1>2. Progress'
  BY DEF Types, Progress, Move, Alive
<1>3. Account'
  BY MoveIn
<1>4. ServerAge'
  BY DEF Types, Progress, ServerAge, Move, Alive
<1>5. EarlyStop'
  BY DEF Types, Progress, ServerAge, EarlyStop, Move, Alive
<1> QED
  BY <1>1, <1>2, <1>3, <1>4, <1>5

\* A request is answered.
LEMMA AnswerInv ==
    ASSUME IInv, NEW w \in Workers, Answer(w)
    PROVE  IInv'
<1> USE WorkerSets DEF IInv, Answer, AnswerAnd
<1>1. Types'
  BY DEF Types, OwnerStates, WorkerStates, Move
<1>2. Progress'
  BY DEF Types, Progress, Move, Alive
<1>3. Account'
  BY MoveOut
<1>4. ServerAge'
  BY DEF Types, Progress, ServerAge, Move, Alive
<1>5. EarlyStop'
  BY DEF Types, Progress, ServerAge, EarlyStop, Move, Alive
<1> QED
  BY <1>1, <1>2, <1>3, <1>4, <1>5

\* A worker leaves the server.
LEMMA LeaveRunInv ==
    ASSUME IInv, NEW w \in Workers, LeaveRun(w)
    PROVE  IInv'
<1> USE WorkerSets DEF IInv, LeaveRun
<1>1. Types'
  BY DEF Types, OwnerStates, WorkerStates, Move
<1>2. Progress'
  BY DEF Types, Progress, Move, Alive
<1>3. Account'
  BY MoveIdle
<1>4. ServerAge'
  BY DEF Types, Progress, ServerAge, Move, Alive
<1>5. EarlyStop'
  BY DEF Types, Progress, ServerAge, EarlyStop, Move, Alive
<1> QED
  BY <1>1, <1>2, <1>3, <1>4, <1>5

-----------------------------------------------------------------------------
(* Theorems of the specification. *)

\* Every step keeps the invariant; Daemon takes the same steps.
LEMMA StepInv == IInv /\ [Next]_vars => IInv'
<1> SUFFICES ASSUME IInv, [Next]_vars PROVE IInv'
  OBVIOUS
<1>1. CASE Owner
  BY <1>1, StartInv, StopInv, BeginJoinInv, EndJoinInv, DestroyInv, DropThreadInv DEF Owner
<1>2. CASE Run
  BY <1>2, AssignServerInv, EnterRunInv, RunReturnsInv DEF Run
<1>3. CASE \E w \in Services : SpawnService(w)
  BY <1>3, SpawnServiceInv
<1>4. CASE \E w \in Workers : WorkerStep(w) \/ Accept(w)
  BY <1>4, ListenInv, BindFailsInv, AnswerInv, LeaveRunInv, AcceptInv DEF WorkerStep
<1>5. CASE UNCHANGED vars
  BY <1>5 DEF vars, IInv, Types, Progress, ServerAge, Account, Busy, EarlyStop, Alive
<1> QED
  BY <1>1, <1>2, <1>3, <1>4, <1>5 DEF Next

\* The inductive invariant holds of every behaviour.
LEMMA Invariance == Spec => []IInv
BY InitInv, StepInv, PTL DEF Spec

\* The invariant gives the type invariant: no request is answered twice.
LEMMA TypesFromInv == IInv => TypeOK
BY BusyFinite DEF IInv, Types, Account, TypeOK

\* Every variable keeps its type, and no request is answered twice.
THEOREM TypeCorrect == Spec => []TypeOK
BY TypesFromInv, Invariance, PTL

\* The frame of run, with the handler in it, outlives every service.
THEOREM FrameSafety == Spec => []FrameOutlivesServices
<1>1. IInv => FrameOutlivesServices
  BY DEF IInv, Progress, FrameOutlivesServices
<1> QED
  BY <1>1, Invariance, PTL

\* A stop is lost, or meets a null server_, only as EarlyStop says, for any number
\* of restarts.
THEOREM EarlyStopFate == Spec => []EarlyStop
BY Invariance, PTL DEF IInv

-----------------------------------------------------------------------------
(* The refinement. *)

\* The requests in progress are the busy workers; while the service is off there
\* are none, and no worker is in the server.
LEMMA Pending ==
    ASSUME IInv
    PROVE  /\ accepted - answered = Cardinality(Busy)
           /\ Cardinality(Busy) \in 0 .. NThreads
           /\ worker[0] = "ended" \/ owner \in {"new", "joined", "destroyed"} =>
                 /\ \A w \in Workers : worker[w] \in {"none", "ended"}
                 /\ Cardinality(Busy) = 0
<1>1. accepted - answered = Cardinality(Busy) /\ Cardinality(Busy) \in Nat
  BY BusyFinite DEF IInv, Types, Account
<1>2. Cardinality(Workers) = NThreads /\ IsFiniteSet(Workers)
  BY ThreadsAssumption, FS_Interval DEF Workers
<1>3. Busy \subseteq Workers
  BY DEF Busy
<1>4. Cardinality(Busy) <= NThreads
  BY <1>2, <1>3, FS_Subset
<1>5. ASSUME worker[0] = "ended" \/ owner \in {"new", "joined", "destroyed"}
      PROVE  \A w \in Workers : worker[w] \in {"none", "ended"}
  BY <1>5, WorkerSets DEF IInv, Types, Progress
<1>6. ASSUME \A w \in Workers : worker[w] \in {"none", "ended"}
      PROVE  Cardinality(Busy) = 0
  <2>1. Busy = {}
    BY <1>6 DEF Busy
  <2> QED
    BY <2>1, FS_EmptySet
<1> QED
  BY <1>1, <1>4, <1>5, <1>6, ThreadsAssumption

\* The bound alone, for use in the next state.
LEMMA PendingBound == IInv => accepted - answered \in 0 .. NThreads
BY Pending

\* A step up, or down, within bounds started below, or above, the bound.
LEMMA StepWithin ==
    ASSUME NEW a \in 0 .. NThreads, NEW b \in 0 .. NThreads
    PROVE  (b = a + 1 => a < NThreads) /\ (b = a - 1 => a > 0)
BY ThreadsAssumption

\* Each step of the server is a step of the service, or is not seen outside.
LEMMA ServiceStep ==
    ASSUME IInv, IInv', [Next]_vars
    PROVE  [Life!TurnOn \/ Life!Enter \/ Life!Leave \/ Life!TurnOff \/ Life!Discard
              \/ Life!Die]_<<IF ~Alive THEN "dead"
                             ELSE IF owner \in {"new", "joined"} THEN "off"
                             ELSE IF owner = "destroyed" THEN "gone" ELSE "on",
                             accepted - answered>>
<1> DEFINE life == IF ~Alive THEN "dead"
                   ELSE IF owner \in {"new", "joined"} THEN "off"
                   ELSE IF owner = "destroyed" THEN "gone" ELSE "on"
           pending == accepted - answered
<1>0. (accepted - answered \in 0 .. NThreads)'
  BY PendingBound, PTL
<1> USE DEF Life!TurnOn, Life!Enter, Life!Leave, Life!TurnOff, Life!Discard, Life!Die
<1>1. CASE Owner
  <2>1. CASE Start
    BY <2>1 DEF Start, StartWith, Alive
  <2>2. CASE Stop \/ BeginJoin
    BY <2>2 DEF Stop, BeginJoin, Alive
  <2>3. CASE EndJoin
    BY <2>3, Pending DEF EndJoin, Alive
  <2>4. CASE Destroy \/ DropThread
    BY <2>4 DEF Destroy, DropThread, Alive
  <2> QED
    BY <1>1, <2>1, <2>2, <2>3, <2>4 DEF Owner
<1>2. CASE Run \/ \E w \in Services : SpawnService(w)
  BY <1>2 DEF Run, AssignServer, EnterRun, RunReturns, RunReturnsAfter, SpawnService, Alive
<1>3. CASE \E w \in Workers : Listen(w) \/ BindFails(w) \/ LeaveRun(w)
  BY <1>3 DEF Listen, BindFails, LeaveRun, Alive
<1>4. ASSUME NEW w \in Workers, Answer(w)
      PROVE  Life!Leave
  <2>1. worker[w] = "handling" /\ Alive /\ Alive' /\ owner' = owner /\ pending' = pending - 1
    BY <1>4 DEF Answer, AnswerAnd, Move, Alive, IInv, Types
  <2>2. owner \notin {"new", "joined", "destroyed"}
    BY <2>1, Pending
  <2>3. pending \in 0 .. NThreads /\ pending' \in 0 .. NThreads
    BY <1>0, PendingBound
  <2>4. pending > 0
    BY <2>1, <2>3, StepWithin
  <2> QED
    BY <2>1, <2>2, <2>4
<1>5. ASSUME NEW w \in Workers, Accept(w)
      PROVE  Life!Enter
  <2>1. worker[w] = "serving" /\ Alive /\ Alive' /\ owner' = owner /\ pending' = pending + 1
    BY <1>5 DEF Accept, Move, Alive, IInv, Types
  <2>2. owner \notin {"new", "joined", "destroyed"}
    BY <2>1, Pending
  <2>3. pending \in 0 .. NThreads /\ pending' \in 0 .. NThreads
    BY <1>0, PendingBound
  <2>4. pending < NThreads
    BY <2>1, <2>3, StepWithin
  <2> QED
    BY <2>1, <2>2, <2>4
<1>6. CASE UNCHANGED vars
  BY <1>6 DEF vars, Alive
<1> QED
  BY <1>1, <1>2, <1>3, <1>4, <1>5, <1>6 DEF Next, WorkerStep

\* The object is a service: for any number of threads, requests and restarts, join
\* returns when every request is answered, and none is taken outside of a run.
THEOREM ServiceRefined == Spec => IsService
<1>1. Init => Life!Init
  BY DEF Init, Life!Init, Alive
<1> QED
  BY <1>1, ServiceStep, Invariance, PTL DEF Spec, IsService, Life!Spec

-----------------------------------------------------------------------------
(* Progress: after a stop that reached its server some thread always has a    *)
(* step to take, and together they take finitely many.                        *)

\* The server was told to stop, and its owner is on the way to join it.
Stopping == owner \in {"stopped", "joining"} /\ halted /\ Alive

\* A service never does what run does.
ServiceStates ==
    \A v \in Services : worker[v] \in {"none", "entering", "serving", "handling", "ended"}

\* The guards of the steps of the owner, of run and of the workers while the
\* server stops.
OwnerCanStep == owner = "stopped" \/ (owner = "joining" /\ worker[0] = "ended")
RunCanStep ==
    \/ worker[0] = "begin"
    \/ worker[0] = "spawning" /\ \A v \in Services : worker[v] # "none"
    \/ worker[0] = "joining" /\ \A v \in Services : worker[v] = "ended"
SpawnCanStep(w) ==
    /\ worker[0] = "spawning" /\ worker[w] = "none"
    /\ \A v \in Services : worker[v] = "none" => w <= v
WorkerCanStep(w) == worker[w] \in {"entering", "serving", "handling"}

StopCanMove ==
    Stopping => \/ OwnerCanStep \/ RunCanStep
                \/ \E w \in Services : SpawnCanStep(w)
                \/ \E w \in Workers : WorkerCanStep(w)

\* The workers that have not come to any state of done yet.
NotYet(done) == {w \in Workers : worker[w] \notin done}
CountOf(done) == Cardinality(NotYet(done))

\* The owner's own steps to the end of the join.
OwnerLeft == CASE owner = "stopped" -> 2 [] owner = "joining" -> 1 [] OTHER -> 0

\* A bound on the steps to the end of the join: for each stage of a worker's way,
\* the number of the workers that have it before them, and the owner's own steps.
StepsToJoin ==
    CountOf({"ended"})
        + CountOf({"ended", "joining"})
        + CountOf({"ended", "joining", "serving"})
        + CountOf({"ended", "joining", "serving", "handling", "entering"})
        + CountOf({"ended", "joining", "serving", "handling", "entering", "spawning"})
        + OwnerLeft

StepsToJoinFall == Stopping /\ Alive' => StepsToJoin' < StepsToJoin

\* A set of numbers has a least one.
LEMMA LeastNumber ==
    ASSUME NEW T \in SUBSET Nat, T # {}
    PROVE  \E x \in T : \A y \in T : x <= y
<1>1. IsWellFoundedOn(OpToRel(<, Nat), Nat)
  BY NatLessThanWellFounded, Zenon
<1>2. PICK x \in T : \A y \in T : ~ (<<y, x>> \in OpToRel(<, Nat))
  BY <1>1, WFMin, Zenon
<1>3. \A y \in Nat : <<y, x>> \in OpToRel(<, Nat) <=> y < x
  BY DEF OpToRel
<1>4. \A y \in T : ~ (y < x)
  BY <1>2, <1>3, Zenon
<1> QED
  BY <1>4

\* Only worker 0 executes run.
LEMMA ServiceStatesInv == Spec => []ServiceStates
<1>1. Init => ServiceStates
  BY WorkerSets DEF Init, ServiceStates
<1>2. TypeOK /\ ServiceStates /\ [Next]_vars => ServiceStates'
  <2> SUFFICES ASSUME TypeOK, ServiceStates, [Next]_vars PROVE ServiceStates'
    OBVIOUS
  <2> USE WorkerSets DEF TypeOK, ServiceStates
  <2>1. CASE Owner
    BY <2>1
       DEF Owner, Start, StartWith, Stop, BeginJoin, EndJoin, Destroy, DropThread
  <2>2. CASE Run
    BY <2>2 DEF Run, AssignServer, EnterRun, RunReturns, RunReturnsAfter, Move
  <2>3. CASE \E w \in Services : SpawnService(w)
    BY <2>3 DEF SpawnService, Move
  <2>4. CASE \E w \in Workers : WorkerStep(w) \/ Accept(w)
    BY <2>4 DEF WorkerStep, Listen, BindFails, Answer, AnswerAnd, LeaveRun, Accept, Move
  <2>5. CASE UNCHANGED vars
    BY <2>5 DEF vars
  <2> QED
    BY <2>1, <2>2, <2>3, <2>4, <2>5 DEF Next
<1> QED
  BY <1>1, <1>2, TypeCorrect, PTL DEF Spec

\* After a stop that reached its server nobody waits for a thread that waits: for
\* any number of threads one of them, or the owner, has a step to take.
THEOREM StopNeverWaits == Spec => []StopCanMove
<1>1. IInv /\ ServiceStates => StopCanMove
  <2> SUFFICES ASSUME IInv, ServiceStates, Stopping
               PROVE  \/ OwnerCanStep \/ RunCanStep
                      \/ \E w \in Services : SpawnCanStep(w)
                      \/ \E w \in Workers : WorkerCanStep(w)
    BY DEF StopCanMove
  <2> USE WorkerSets DEF IInv
  <2>1. worker[0] \in WorkerStates /\ worker[0] # "none"
    BY DEF Types, Progress, Stopping
  <2>2. CASE worker[0] \in {"entering", "serving", "handling"}
    BY <2>2 DEF WorkerCanStep
  <2>3. CASE worker[0] = "begin"
    BY <2>3 DEF RunCanStep
  <2>4. CASE worker[0] = "ended"
    BY <2>4 DEF OwnerCanStep, Stopping
  <2>5. CASE worker[0] = "spawning" /\ \A v \in Services : worker[v] # "none"
    BY <2>5 DEF RunCanStep
  <2>6. CASE worker[0] = "spawning" /\ \E v \in Services : worker[v] = "none"
    <3> DEFINE T == {v \in Services : worker[v] = "none"}
    <3>1. T \subseteq Nat /\ T # {}
      BY <2>6, ThreadsAssumption DEF Services
    <3>2. PICK x \in T : \A y \in T : x <= y
      BY <3>1, LeastNumber
    <3>3. SpawnCanStep(x)
      BY <2>6, <3>2 DEF SpawnCanStep
    <3> QED
      BY <3>3
  <2>7. CASE worker[0] = "joining"
    <3>1. \A v \in Services : worker[v] # "none"
      BY <2>7 DEF Progress
    <3> QED
      BY <2>7, <3>1 DEF RunCanStep, WorkerCanStep, ServiceStates
  <2> QED
    BY <2>1, <2>2, <2>3, <2>4, <2>5, <2>6, <2>7 DEF WorkerStates
<1> QED
  BY <1>1, Invariance, ServiceStatesInv, PTL

\* The workers that have a stage before them are counted by a natural number.
LEMMA CountNat ==
    ASSUME NEW done
    PROVE  /\ IsFiniteSet(NotYet(done)) /\ CountOf(done) \in Nat
           /\ IsFiniteSet(NotYet(done)') /\ CountOf(done)' \in Nat
<1>1. IsFiniteSet(Workers)
  BY ThreadsAssumption, FS_Interval DEF Workers
<1>2. NotYet(done) \subseteq Workers /\ NotYet(done)' \subseteq Workers
  BY DEF NotYet
<1>3. IsFiniteSet(NotYet(done)) /\ IsFiniteSet(NotYet(done)')
  BY <1>1, <1>2, FS_Subset
<1> QED
  BY <1>3, FS_CardinalityType DEF CountOf

\* A move that leaves no stage again counts no worker anew, and one less for each
\* stage that it reaches.
LEMMA CountMove ==
    ASSUME Types, NEW w \in Workers, NEW from, NEW to, Move(w, from, to),
           NEW done, from \in done => to \in done
    PROVE  /\ CountOf(done)' <= CountOf(done)
           /\ from \notin done /\ to \in done => CountOf(done)' < CountOf(done)
<1>1. CASE from \notin done /\ to \in done
  <2>1. NotYet(done)' = NotYet(done) \ {w} /\ w \in NotYet(done)
    BY <1>1 DEF NotYet, Move, Types
  <2>2. Cardinality(NotYet(done)') = Cardinality(NotYet(done)) - 1
    BY <2>1, CountNat, FS_RemoveElement
  <2>3. CountOf(done)' = CountOf(done) - 1
    BY <2>2 DEF CountOf
  <2> QED
    BY <2>3, CountNat
<1>2. CASE ~(from \notin done /\ to \in done)
  <2>1. NotYet(done)' = NotYet(done)
    BY <1>2 DEF NotYet, Move, Types
  <2>2. CountOf(done)' = CountOf(done)
    BY <2>1 DEF CountOf
  <2> QED
    BY <1>2, <2>2, CountNat
<1> QED
  BY <1>1, <1>2

\* A sum is less when no part of it is more and one is less.
LEMMA LessInSum ==
    ASSUME NEW a \in Nat, NEW b \in Nat, NEW c \in Nat, NEW d \in Nat, NEW e \in Nat, NEW f \in Nat,
           NEW p \in Nat, NEW q \in Nat, NEW r \in Nat, NEW s \in Nat, NEW t \in Nat, NEW u \in Nat,
           p <= a, q <= b, r <= c, s <= d, t <= e, u <= f,
           p < a \/ q < b \/ r < c \/ s < d \/ t < e \/ u < f
    PROVE  p + q + r + s + t + u < a + b + c + d + e + f
OBVIOUS

\* What the owner still has to do is a natural number.
LEMMA OwnerLeftNat == OwnerLeft \in Nat /\ OwnerLeft' \in Nat
BY DEF OwnerLeft

\* So is the bound.
LEMMA StepsToJoinNat == StepsToJoin \in Nat
<1>1. \A a, b, c, d, e, f \in Nat : a + b + c + d + e + f \in Nat
  OBVIOUS
<1> QED
  BY <1>1, CountNat, OwnerLeftNat, Zenon DEF StepsToJoin

\* The ways of a worker while the server stops.
MovesOn(from, to) ==
    \/ from \in {"none", "begin"} /\ to \in {"spawning", "entering"}
    \/ from = "spawning" /\ to = "entering"
    \/ from \in {"entering", "handling"} /\ to = "serving"
    \/ from = "serving" /\ to \in {"joining", "ended"}
    \/ from = "joining" /\ to = "ended"

\* A move of a worker brings the join nearer.
LEMMA MoveOn ==
    ASSUME Types, NEW w \in Workers, NEW from, NEW to, Move(w, from, to),
           MovesOn(from, to), owner' = owner
    PROVE  StepsToJoin' < StepsToJoin
<1> DEFINE Ended == {"ended"}
           Joining == {"ended", "joining"}
           Serving == {"ended", "joining", "serving"}
           Entering == {"ended", "joining", "serving", "handling", "entering"}
           Spawning == {"ended", "joining", "serving", "handling", "entering", "spawning"}
<1>1. /\ CountOf(Ended) \in Nat /\ CountOf(Ended)' \in Nat
      /\ CountOf(Joining) \in Nat /\ CountOf(Joining)' \in Nat
      /\ CountOf(Serving) \in Nat /\ CountOf(Serving)' \in Nat
      /\ CountOf(Entering) \in Nat /\ CountOf(Entering)' \in Nat
      /\ CountOf(Spawning) \in Nat /\ CountOf(Spawning)' \in Nat
      /\ OwnerLeft \in Nat /\ OwnerLeft' \in Nat
  BY CountNat, OwnerLeftNat, Zenon
<1>2. /\ from \in Ended => to \in Ended
      /\ from \in Joining => to \in Joining
      /\ from \in Serving => to \in Serving
      /\ from \in Entering => to \in Entering
      /\ from \in Spawning => to \in Spawning
  BY DEF MovesOn
<1>3. \/ from \notin Ended /\ to \in Ended
      \/ from \notin Joining /\ to \in Joining
      \/ from \notin Serving /\ to \in Serving
      \/ from \notin Entering /\ to \in Entering
      \/ from \notin Spawning /\ to \in Spawning
  BY DEF MovesOn
<1> HIDE DEF Ended, Joining, Serving, Entering, Spawning
<1>4. /\ CountOf(Ended)' <= CountOf(Ended)
      /\ from \notin Ended /\ to \in Ended => CountOf(Ended)' < CountOf(Ended)
  BY <1>2, CountMove, Zenon
<1>5. /\ CountOf(Joining)' <= CountOf(Joining)
      /\ from \notin Joining /\ to \in Joining => CountOf(Joining)' < CountOf(Joining)
  BY <1>2, CountMove, Zenon
<1>6. /\ CountOf(Serving)' <= CountOf(Serving)
      /\ from \notin Serving /\ to \in Serving => CountOf(Serving)' < CountOf(Serving)
  BY <1>2, CountMove, Zenon
<1>7. /\ CountOf(Entering)' <= CountOf(Entering)
      /\ from \notin Entering /\ to \in Entering => CountOf(Entering)' < CountOf(Entering)
  BY <1>2, CountMove, Zenon
<1>8. /\ CountOf(Spawning)' <= CountOf(Spawning)
      /\ from \notin Spawning /\ to \in Spawning => CountOf(Spawning)' < CountOf(Spawning)
  BY <1>2, CountMove, Zenon
<1>9. OwnerLeft' = OwnerLeft
  BY DEF OwnerLeft
<1>10. OwnerLeft' <= OwnerLeft
  BY ONLY <1>1, <1>9
<1>11. CountOf(Ended)' + CountOf(Joining)' + CountOf(Serving)' + CountOf(Entering)'
          + CountOf(Spawning)' + OwnerLeft'
         < CountOf(Ended) + CountOf(Joining) + CountOf(Serving) + CountOf(Entering)
          + CountOf(Spawning) + OwnerLeft
  <2>1. \/ CountOf(Ended)' < CountOf(Ended)
        \/ CountOf(Joining)' < CountOf(Joining)
        \/ CountOf(Serving)' < CountOf(Serving)
        \/ CountOf(Entering)' < CountOf(Entering)
        \/ CountOf(Spawning)' < CountOf(Spawning)
    BY <1>3, <1>4, <1>5, <1>6, <1>7, <1>8, Zenon
  <2> QED
    BY ONLY <1>1, <1>4, <1>5, <1>6, <1>7, <1>8, <1>10, <2>1, LessInSum
<1> QED
  BY <1>11, Zenon DEF StepsToJoin, Ended, Joining, Serving, Entering, Spawning

\* So does a move of the owner that leaves the workers alone.
LEMMA OwnerOn ==
    ASSUME worker' = worker, OwnerLeft' < OwnerLeft
    PROVE  StepsToJoin' < StepsToJoin
<1>1. \A done : CountOf(done)' = CountOf(done) /\ CountOf(done) \in Nat
  <2> TAKE done
  <2>1. NotYet(done)' = NotYet(done)
    BY DEF NotYet
  <2> QED
    BY <2>1, CountNat DEF CountOf
<1>2. \A a, b, c, d, e, f, u \in Nat : u < f => a + b + c + d + e + u < a + b + c + d + e + f
  OBVIOUS
<1> QED
  BY <1>1, <1>2, OwnerLeftNat, Zenon DEF StepsToJoin

\* Each step of a stopping server brings the join nearer, or ends the process.
LEMMA StopStep ==
    ASSUME IInv, Stopping, Next, Alive'
    PROVE  StepsToJoin' < StepsToJoin
<1> USE WorkerSets DEF IInv, Stopping
<1>1. CASE Owner
  <2>1. /\ worker' = worker
        /\ \/ owner = "stopped" /\ owner' = "joining"
           \/ owner = "joining" /\ owner' = "joined"
    BY <1>1
       DEF Owner, Start, StartWith, Stop, BeginJoin, EndJoin, Destroy, DropThread, Alive
  <2>2. OwnerLeft' < OwnerLeft
    BY ONLY <2>1 DEF OwnerLeft
  <2> QED
    BY <2>1, <2>2, OwnerOn
<1>2. CASE Run
  <2>1. CASE AssignServer
    BY <2>1, MoveOn DEF AssignServer, MovesOn
  <2>2. CASE EnterRun
    BY <2>2, MoveOn DEF EnterRun, MovesOn
  <2>3. CASE RunReturns
    BY <2>3, MoveOn DEF RunReturns, RunReturnsAfter, MovesOn
  <2> QED
    BY <1>2, <2>1, <2>2, <2>3 DEF Run
<1>3. ASSUME NEW w \in Services, SpawnService(w)
      PROVE  StepsToJoin' < StepsToJoin
  BY <1>3, MoveOn DEF SpawnService, MovesOn
<1>4. ASSUME NEW w \in Workers, WorkerStep(w) \/ Accept(w)
      PROVE  StepsToJoin' < StepsToJoin
  <2>1. CASE Listen(w)
    BY <2>1, MoveOn DEF Listen, MovesOn
  <2>2. CASE BindFails(w)
    BY <2>2 DEF BindFails, Alive
  <2>3. CASE Answer(w)
    BY <2>3, MoveOn DEF Answer, AnswerAnd, MovesOn
  <2>4. CASE LeaveRun(w)
    <3>1. PICK to \in {"joining", "ended"} : Move(w, "serving", to)
      BY <2>4 DEF LeaveRun
    <3>2. MovesOn("serving", to) /\ owner' = owner
      BY <2>4, <3>1 DEF LeaveRun, MovesOn
    <3> QED
      BY <3>1, <3>2, MoveOn
  <2>5. CASE Accept(w)
    BY <2>5 DEF Accept
  <2> QED
    BY <1>4, <2>1, <2>2, <2>3, <2>4, <2>5 DEF WorkerStep
<1> QED
  BY <1>1, <1>2, <1>3, <1>4 DEF Next

\* A stop is a finite affair for any number of threads: from a stop that reached its
\* server to the end of the join every step brings it nearer, unless the process dies.
THEOREM StopIsFinite == Spec => [](StepsToJoin \in Nat) /\ [][StepsToJoinFall]_vars
<1>1. StepsToJoin \in Nat
  BY StepsToJoinNat
<1>2. IInv /\ [Next]_vars => [StepsToJoinFall]_vars
  BY StopStep DEF StepsToJoinFall
<1> QED
  BY <1>1, <1>2, Invariance, PTL DEF Spec

-----------------------------------------------------------------------------
(* The daemon: Daemon.                                                         *)

\* The variables of the daemon have their types.
DaemonTypes ==
    /\ enabled \in BOOLEAN
    /\ main \in MainStates
    /\ isRunning \in BOOLEAN
    /\ handler \in [Workers \cup {Main} -> HandlerStates]
    /\ heap \in Workers \cup {Main, NoThread}
    /\ sent \in 0 .. MaxSignals
    /\ stuck \in BOOLEAN
    /\ status \in Statuses

\* The lock is held only where it is taken.
LockPlace ==
    /\ heap \in Workers => worker[heap] = "handling"
    /\ heap = Main => main = "allocating"

\* The server exists from Serve on.
ServerLife ==
    main \in {"boot", "parse", "allocating", "parsed"} => owner = "new"

\* A handler runs on a thread that exists; before Serve that can only be main.
HandlerPlace ==
    /\ \A w \in Workers : handler[w] # "none" => worker[w] \notin {"none", "ended"}
    /\ main \in {"boot", "parse", "allocating", "parsed"} /\ sent > 0 /\ Running =>
          handler[Main] # "none"

\* is_running is cleared only by a thread that then stays inside exit; main,
\* which saw it cleared, is not that thread.
FlagMeansExit ==
    /\ ~isRunning => \E t \in Workers \cup {Main} : handler[t] = "exiting"
    /\ main \in {"stopping", "joining", "returning"} =>
          enabled /\ \E w \in Workers : handler[w] = "exiting"
    /\ ~enabled => owner = "new"

DaemonInv ==
    /\ IInv /\ DaemonTypes /\ LockPlace /\ ServerLife /\ HandlerPlace /\ FlagMeansExit
    /\ main # "returning"
    /\ ZeroOnlyForHelp
    /\ NullOnlyIfInterrupted

-----------------------------------------------------------------------------
(* The threads of the daemon keep the rules of the server. *)

\* main and no thread are not workers.
LEMMA ThreadNumbers ==
    /\ Main \notin Workers /\ NoThread \notin Workers /\ Main # NoThread
    /\ 0 \in Workers /\ Services \subseteq Workers /\ 0 \notin Services
    /\ Workers \ {0} \subseteq Services
BY ThreadsAssumption DEF Workers, Services, Main, NoThread

\* Each step of the daemon is a step of the server, or leaves it alone.
LEMMA ServerStep == DaemonNext => [Next]_vars
<1> SUFFICES ASSUME DaemonNext PROVE [Next]_vars
  OBVIOUS
<1> USE DEF serverVars
<1>1. CASE MainBoots \/ KillEarly \/ Crash
  BY <1>1 DEF MainBoots, InstallHandlers, MainAllocates, MainReleases, KillEarly, Crash
<1>2. CASE MainServes
  BY <1>2 DEF MainServes, Serve, TestRunning, Sleep, StopServer, JoinServer, MainExits,
              Next, Owner
<1>3. CASE \E w \in Workers :
             WorkerAllocates(w) \/ WorkerReleases(w) \/ WorkerMoves(w) \/ Request(w)
  BY <1>3 DEF WorkerAllocates, WorkerReleases, WorkerMoves, Request, Next
<1>4. CASE \E t \in Workers \cup {Main} : Deliver(t) \/ Handle(t)
  BY <1>4 DEF Deliver, Handle, LogSignal, ClearRunning, HandlerExits
<1> QED
  BY <1>1, <1>2, <1>3, <1>4 DEF DaemonNext

\* So the invariant of the server is kept.
LEMMA ServerInv == IInv /\ DaemonNext => IInv'
BY ServerStep, StepInv

-----------------------------------------------------------------------------
(* The inductive invariant. *)

\* The process is started.
LEMMA BootInv == Boot => DaemonInv
<1> SUFFICES ASSUME Boot PROVE DaemonInv
  OBVIOUS
<1> USE ThreadNumbers DEF Boot
<1>1. IInv
  BY InitInv
<1>2. DaemonTypes
  <2>1. handler \in [Workers \cup {Main} -> HandlerStates]
    BY DEF HandlerStates
  <2>2. sent \in 0 .. MaxSignals
    BY SignalsAssumption
  <2>3. main \in MainStates /\ status \in Statuses
    BY DEF MainStates, Statuses
  <2> QED
    BY <2>1, <2>2, <2>3 DEF DaemonTypes
<1>3. LockPlace /\ ServerLife /\ HandlerPlace /\ FlagMeansExit
  BY DEF LockPlace, ServerLife, HandlerPlace, FlagMeansExit, Init
<1>4. main # "returning" /\ ZeroOnlyForHelp /\ NullOnlyIfInterrupted
  BY DEF ZeroOnlyForHelp, NullOnlyIfInterrupted, Init
<1> QED
  BY <1>1, <1>2, <1>3, <1>4 DEF DaemonInv

\* SIGTERM is handled from now on.
LEMMA InstallHandlersInv ==
    ASSUME DaemonInv, IInv', InstallHandlers
    PROVE  DaemonInv'
<1> USE ThreadNumbers DEF DaemonInv, InstallHandlers, Free, MoveMain, serverVars,
      vars, mainVars, signalVars, Running, Alive
<1>1. DaemonTypes'
  BY SignalsAssumption DEF DaemonTypes, MainStates, HandlerStates, Statuses
<1>2. LockPlace'
  BY DEF DaemonTypes, LockPlace, IInv, Types
<1>3. ServerLife'
  BY DEF ServerLife
<1>4. HandlerPlace'
  BY DEF DaemonTypes, ServerLife, HandlerPlace, IInv, Types, Progress
<1>5. FlagMeansExit'
  BY DEF DaemonTypes, ServerLife, FlagMeansExit
<1>6. main' # "returning"
  BY DEF DaemonTypes, HandlerPlace, FlagMeansExit, IInv, Progress
<1>7. ZeroOnlyForHelp'
  BY DEF DaemonTypes, HandlerPlace, ZeroOnlyForHelp
<1>8. NullOnlyIfInterrupted'
  BY DEF DaemonTypes, HandlerPlace, FlagMeansExit, IInv, Types, Progress, NullOnlyIfInterrupted
<1> QED
  BY <1>1, <1>2, <1>3, <1>4, <1>5, <1>6, <1>7, <1>8

\* main takes the lock.
LEMMA MainAllocatesInv ==
    ASSUME DaemonInv, IInv', MainAllocates
    PROVE  DaemonInv'
<1> USE ThreadNumbers DEF DaemonInv, MainAllocates, Free, MoveMain, serverVars, vars,
      mainVars, signalVars, Running, Alive
<1>1. DaemonTypes'
  BY SignalsAssumption DEF DaemonTypes, MainStates, HandlerStates, Statuses
<1>2. LockPlace'
  BY DEF DaemonTypes, LockPlace, IInv, Types
<1>3. ServerLife'
  BY DEF ServerLife
<1>4. HandlerPlace'
  BY DEF DaemonTypes, ServerLife, HandlerPlace, IInv, Types, Progress
<1>5. FlagMeansExit'
  BY DEF DaemonTypes, ServerLife, FlagMeansExit
<1>6. main' # "returning"
  BY DEF DaemonTypes, HandlerPlace, FlagMeansExit, IInv, Progress
<1>7. ZeroOnlyForHelp'
  BY DEF DaemonTypes, HandlerPlace, ZeroOnlyForHelp
<1>8. NullOnlyIfInterrupted'
  BY DEF DaemonTypes, HandlerPlace, FlagMeansExit, IInv, Types, Progress, NullOnlyIfInterrupted
<1> QED
  BY <1>1, <1>2, <1>3, <1>4, <1>5, <1>6, <1>7, <1>8

\* main releases the lock.
LEMMA MainReleasesInv ==
    ASSUME DaemonInv, IInv', MainReleases
    PROVE  DaemonInv'
<1> USE ThreadNumbers DEF DaemonInv, MainReleases, Free, MoveMain, serverVars, vars,
      mainVars, signalVars, Running, Alive
<1>1. DaemonTypes'
  BY SignalsAssumption DEF DaemonTypes, MainStates, HandlerStates, Statuses
<1>2. LockPlace'
  BY DEF DaemonTypes, LockPlace, IInv, Types
<1>3. ServerLife'
  BY DEF ServerLife
<1>4. HandlerPlace'
  BY DEF DaemonTypes, ServerLife, HandlerPlace, IInv, Types, Progress
<1>5. FlagMeansExit'
  BY DEF DaemonTypes, ServerLife, FlagMeansExit
<1>6. main' # "returning"
  BY DEF DaemonTypes, HandlerPlace, FlagMeansExit, IInv, Progress
<1>7. ZeroOnlyForHelp'
  BY DEF DaemonTypes, HandlerPlace, ZeroOnlyForHelp
<1>8. NullOnlyIfInterrupted'
  BY DEF DaemonTypes, HandlerPlace, FlagMeansExit, IInv, Types, Progress, NullOnlyIfInterrupted
<1> QED
  BY <1>1, <1>2, <1>3, <1>4, <1>5, <1>6, <1>7, <1>8

\* The server is started.
LEMMA ServeInv ==
    ASSUME DaemonInv, IInv', Serve
    PROVE  DaemonInv'
<1> USE ThreadNumbers DEF DaemonInv, Serve, Free, MoveMain, Start, StartWith, Move, serverVars,
      vars, mainVars, signalVars, Running, Alive
<1>1. DaemonTypes'
  BY SignalsAssumption DEF DaemonTypes, MainStates, HandlerStates, Statuses
<1>2. LockPlace'
  <2>1. \A w \in Workers : worker[w] = "none"
    BY DEF ServerLife, IInv, Progress
  <2> QED
    BY <2>1 DEF DaemonTypes, LockPlace, IInv, Types
<1>3. ServerLife'
  BY DEF ServerLife
<1>4. HandlerPlace'
  BY DEF DaemonTypes, ServerLife, HandlerPlace, IInv, Types, Progress
<1>5. FlagMeansExit'
  BY DEF DaemonTypes, ServerLife, FlagMeansExit
<1>6. main' # "returning"
  BY DEF DaemonTypes, HandlerPlace, FlagMeansExit, IInv, Progress
<1>7. ZeroOnlyForHelp'
  BY DEF DaemonTypes, HandlerPlace, ZeroOnlyForHelp
<1>8. NullOnlyIfInterrupted'
  BY DEF DaemonTypes, HandlerPlace, FlagMeansExit, IInv, Types, Progress, NullOnlyIfInterrupted
<1> QED
  BY <1>1, <1>2, <1>3, <1>4, <1>5, <1>6, <1>7, <1>8

\* main tests is_running.
LEMMA TestRunningInv ==
    ASSUME DaemonInv, IInv', TestRunning
    PROVE  DaemonInv'
<1> USE ThreadNumbers DEF DaemonInv, TestRunning, Free, MoveMain, serverVars, vars,
      mainVars, signalVars, Running, Alive
<1>1. DaemonTypes'
  BY SignalsAssumption DEF DaemonTypes, MainStates, HandlerStates, Statuses
<1>2. LockPlace'
  BY DEF DaemonTypes, LockPlace, IInv, Types
<1>3. ServerLife'
  BY DEF ServerLife
<1>4. HandlerPlace'
  BY DEF DaemonTypes, ServerLife, HandlerPlace, IInv, Types, Progress
<1>5. FlagMeansExit'
  <2>1. UNCHANGED <<isRunning, handler, enabled, owner>>
    OBVIOUS
  <2>2. handler[Main] = "none" /\ main = "loop"
    OBVIOUS
  <2>3. ~isRunning => \E w \in Workers : handler[w] = "exiting"
    BY <2>2 DEF FlagMeansExit
  <2>4. main' \in {"stopping", "joining", "returning"} => ~isRunning
    BY <2>2
  <2>5. main' \in {"stopping", "joining"} => enabled
    BY <2>2
  <2>6. main' = "returning" => ~enabled /\ ~isRunning
    BY <2>2
  <2>7. main' # "returning"
    <3>1. ~enabled => \A w \in Workers : worker[w] = "none"
      BY DEF FlagMeansExit, IInv, Types, Progress
    <3> QED
      BY <2>3, <2>6, <3>1 DEF HandlerPlace
  <2> QED
    BY <2>1, <2>3, <2>4, <2>5, <2>7 DEF FlagMeansExit
<1>6. main' # "returning"
  BY DEF DaemonTypes, HandlerPlace, FlagMeansExit, IInv, Progress
<1>7. ZeroOnlyForHelp'
  BY DEF DaemonTypes, HandlerPlace, ZeroOnlyForHelp
<1>8. NullOnlyIfInterrupted'
  BY DEF DaemonTypes, HandlerPlace, FlagMeansExit, IInv, Types, Progress, NullOnlyIfInterrupted
<1> QED
  BY <1>1, <1>2, <1>3, <1>4, <1>5, <1>6, <1>7, <1>8

\* main sleeps.
LEMMA SleepInv ==
    ASSUME DaemonInv, IInv', Sleep
    PROVE  DaemonInv'
<1> USE ThreadNumbers DEF DaemonInv, Sleep, Free, MoveMain, serverVars, vars,
      mainVars, signalVars, Running, Alive
<1>1. DaemonTypes'
  BY SignalsAssumption DEF DaemonTypes, MainStates, HandlerStates, Statuses
<1>2. LockPlace'
  BY DEF DaemonTypes, LockPlace, IInv, Types
<1>3. ServerLife'
  BY DEF ServerLife
<1>4. HandlerPlace'
  BY DEF DaemonTypes, ServerLife, HandlerPlace, IInv, Types, Progress
<1>5. FlagMeansExit'
  BY DEF DaemonTypes, ServerLife, FlagMeansExit
<1>6. main' # "returning"
  BY DEF DaemonTypes, HandlerPlace, FlagMeansExit, IInv, Progress
<1>7. ZeroOnlyForHelp'
  BY DEF DaemonTypes, HandlerPlace, ZeroOnlyForHelp
<1>8. NullOnlyIfInterrupted'
  BY DEF DaemonTypes, HandlerPlace, FlagMeansExit, IInv, Types, Progress, NullOnlyIfInterrupted
<1> QED
  BY <1>1, <1>2, <1>3, <1>4, <1>5, <1>6, <1>7, <1>8

\* main stops the server.
LEMMA StopServerInv ==
    ASSUME DaemonInv, IInv', StopServer
    PROVE  DaemonInv'
<1> USE ThreadNumbers DEF DaemonInv, StopServer, Free, MoveMain, Stop, serverVars,
      vars, mainVars, signalVars, Running, Alive
<1>1. DaemonTypes'
  BY SignalsAssumption DEF DaemonTypes, MainStates, HandlerStates, Statuses
<1>2. LockPlace'
  BY DEF DaemonTypes, LockPlace, IInv, Types
<1>3. ServerLife'
  BY DEF ServerLife
<1>4. HandlerPlace'
  BY DEF DaemonTypes, ServerLife, HandlerPlace, IInv, Types, Progress
<1>5. FlagMeansExit'
  BY DEF DaemonTypes, ServerLife, FlagMeansExit
<1>6. main' # "returning"
  BY DEF DaemonTypes, HandlerPlace, FlagMeansExit, IInv, Progress
<1>7. ZeroOnlyForHelp'
  BY DEF DaemonTypes, HandlerPlace, ZeroOnlyForHelp
<1>8. NullOnlyIfInterrupted'
  BY DEF DaemonTypes, HandlerPlace, FlagMeansExit, IInv, Types, Progress, ServerAge, NullOnlyIfInterrupted
<1> QED
  BY <1>1, <1>2, <1>3, <1>4, <1>5, <1>6, <1>7, <1>8

\* main joins the server.
LEMMA JoinServerInv ==
    ASSUME DaemonInv, IInv', JoinServer
    PROVE  DaemonInv'
<1> USE ThreadNumbers DEF DaemonInv, JoinServer, Free, MoveMain, BeginJoin, EndJoin,
      serverVars, vars, mainVars, signalVars, Running, Alive
<1>1. DaemonTypes'
  BY SignalsAssumption DEF DaemonTypes, MainStates, HandlerStates, Statuses
<1>2. LockPlace'
  BY DEF DaemonTypes, LockPlace, IInv, Types
<1>3. ServerLife'
  BY DEF ServerLife
<1>4. HandlerPlace'
  BY DEF DaemonTypes, ServerLife, HandlerPlace, IInv, Types, Progress
<1>5. FlagMeansExit'
  BY DEF DaemonTypes, ServerLife, FlagMeansExit
<1>6. main' # "returning"
  BY DEF DaemonTypes, HandlerPlace, FlagMeansExit, IInv, Progress
<1>7. ZeroOnlyForHelp'
  BY DEF DaemonTypes, HandlerPlace, ZeroOnlyForHelp
<1>8. NullOnlyIfInterrupted'
  BY DEF DaemonTypes, HandlerPlace, FlagMeansExit, IInv, Types, Progress, NullOnlyIfInterrupted
<1> QED
  BY <1>1, <1>2, <1>3, <1>4, <1>5, <1>6, <1>7, <1>8

\* main exits.
LEMMA MainExitsInv ==
    ASSUME DaemonInv, IInv', MainExits
    PROVE  DaemonInv'
<1> USE ThreadNumbers DEF DaemonInv, MainExits, Free, Exit, serverVars, vars,
      mainVars, signalVars, Running, Alive
<1>1. DaemonTypes'
  BY SignalsAssumption DEF DaemonTypes, MainStates, HandlerStates, Statuses
<1>2. LockPlace'
  BY DEF DaemonTypes, LockPlace, IInv, Types
<1>3. ServerLife'
  BY DEF ServerLife
<1>4. HandlerPlace'
  BY DEF DaemonTypes, ServerLife, HandlerPlace, IInv, Types, Progress
<1>5. FlagMeansExit'
  BY DEF DaemonTypes, ServerLife, FlagMeansExit
<1>6. main' # "returning"
  BY DEF DaemonTypes, HandlerPlace, FlagMeansExit, IInv, Progress
<1>7. ZeroOnlyForHelp'
  BY DEF DaemonTypes, HandlerPlace, ZeroOnlyForHelp
<1>8. NullOnlyIfInterrupted'
  BY DEF DaemonTypes, HandlerPlace, FlagMeansExit, IInv, Types, Progress, NullOnlyIfInterrupted
<1> QED
  BY <1>1, <1>2, <1>3, <1>4, <1>5, <1>6, <1>7, <1>8

\* A worker takes the lock.
LEMMA WorkerAllocatesInv ==
    ASSUME DaemonInv, IInv', NEW w \in Workers, WorkerAllocates(w)
    PROVE  DaemonInv'
<1> USE ThreadNumbers DEF DaemonInv, WorkerAllocates, Free, serverVars, vars,
      mainVars, signalVars, Running, Alive
<1>1. DaemonTypes'
  BY SignalsAssumption DEF DaemonTypes, MainStates, HandlerStates, Statuses
<1>2. LockPlace'
  BY DEF DaemonTypes, LockPlace, IInv, Types
<1>3. ServerLife'
  BY DEF ServerLife
<1>4. HandlerPlace'
  BY DEF DaemonTypes, ServerLife, HandlerPlace, IInv, Types, Progress
<1>5. FlagMeansExit'
  BY DEF DaemonTypes, ServerLife, FlagMeansExit
<1>6. main' # "returning"
  BY DEF DaemonTypes, HandlerPlace, FlagMeansExit, IInv, Progress
<1>7. ZeroOnlyForHelp'
  BY DEF DaemonTypes, HandlerPlace, ZeroOnlyForHelp
<1>8. NullOnlyIfInterrupted'
  BY DEF DaemonTypes, HandlerPlace, FlagMeansExit, IInv, Types, Progress, NullOnlyIfInterrupted
<1> QED
  BY <1>1, <1>2, <1>3, <1>4, <1>5, <1>6, <1>7, <1>8

\* A worker releases the lock.
LEMMA WorkerReleasesInv ==
    ASSUME DaemonInv, IInv', NEW w \in Workers, WorkerReleases(w)
    PROVE  DaemonInv'
<1> USE ThreadNumbers DEF DaemonInv, WorkerReleases, Free, serverVars, vars, mainVars,
      signalVars, Running, Alive
<1>1. DaemonTypes'
  BY SignalsAssumption DEF DaemonTypes, MainStates, HandlerStates, Statuses
<1>2. LockPlace'
  BY DEF DaemonTypes, LockPlace, IInv, Types
<1>3. ServerLife'
  BY DEF ServerLife
<1>4. HandlerPlace'
  BY DEF DaemonTypes, ServerLife, HandlerPlace, IInv, Types, Progress
<1>5. FlagMeansExit'
  BY DEF DaemonTypes, ServerLife, FlagMeansExit
<1>6. main' # "returning"
  BY DEF DaemonTypes, HandlerPlace, FlagMeansExit, IInv, Progress
<1>7. ZeroOnlyForHelp'
  BY DEF DaemonTypes, HandlerPlace, ZeroOnlyForHelp
<1>8. NullOnlyIfInterrupted'
  BY DEF DaemonTypes, HandlerPlace, FlagMeansExit, IInv, Types, Progress, NullOnlyIfInterrupted
<1> QED
  BY <1>1, <1>2, <1>3, <1>4, <1>5, <1>6, <1>7, <1>8

\* A worker moves.
LEMMA WorkerMovesInv ==
    ASSUME DaemonInv, IInv', NEW w \in Workers, WorkerMoves(w)
    PROVE  DaemonInv'
<1> USE ThreadNumbers DEF DaemonInv, WorkerMoves, Free, WorkerStep, Listen, BindFails,
      Answer, AnswerAnd, LeaveRun, Run, AssignServer, EnterRun, RunReturns, RunReturnsAfter,
      SpawnService, Move,
      serverVars, vars, mainVars, signalVars, Running, Alive
<1>1. DaemonTypes'
  BY SignalsAssumption DEF DaemonTypes, MainStates, HandlerStates, Statuses
<1>2. LockPlace'
  BY DEF DaemonTypes, LockPlace, IInv, Types
<1>3. ServerLife'
  BY DEF ServerLife
<1>4. HandlerPlace'
  BY DEF DaemonTypes, ServerLife, HandlerPlace, IInv, Types, Progress
<1>5. FlagMeansExit'
  BY DEF DaemonTypes, ServerLife, FlagMeansExit
<1>6. main' # "returning"
  BY DEF DaemonTypes, HandlerPlace, FlagMeansExit, IInv, Progress
<1>7. ZeroOnlyForHelp'
  BY DEF DaemonTypes, HandlerPlace, ZeroOnlyForHelp
<1>8. NullOnlyIfInterrupted'
  BY DEF DaemonTypes, HandlerPlace, FlagMeansExit, IInv, Types, Progress, NullOnlyIfInterrupted
<1> QED
  BY <1>1, <1>2, <1>3, <1>4, <1>5, <1>6, <1>7, <1>8

\* A worker accepts a request.
LEMMA RequestInv ==
    ASSUME DaemonInv, IInv', NEW w \in Workers, Request(w)
    PROVE  DaemonInv'
<1> USE ThreadNumbers DEF DaemonInv, Request, Free, Accept, Move, serverVars, vars,
      mainVars, signalVars, Running, Alive
<1>1. DaemonTypes'
  BY SignalsAssumption DEF DaemonTypes, MainStates, HandlerStates, Statuses
<1>2. LockPlace'
  BY DEF DaemonTypes, LockPlace, IInv, Types
<1>3. ServerLife'
  BY DEF ServerLife
<1>4. HandlerPlace'
  BY DEF DaemonTypes, ServerLife, HandlerPlace, IInv, Types, Progress
<1>5. FlagMeansExit'
  BY DEF DaemonTypes, ServerLife, FlagMeansExit
<1>6. main' # "returning"
  BY DEF DaemonTypes, HandlerPlace, FlagMeansExit, IInv, Progress
<1>7. ZeroOnlyForHelp'
  BY DEF DaemonTypes, HandlerPlace, ZeroOnlyForHelp
<1>8. NullOnlyIfInterrupted'
  BY DEF DaemonTypes, HandlerPlace, FlagMeansExit, IInv, Types, Progress, NullOnlyIfInterrupted
<1> QED
  BY <1>1, <1>2, <1>3, <1>4, <1>5, <1>6, <1>7, <1>8

\* SIGTERM comes before it is handled.
LEMMA KillEarlyInv ==
    ASSUME DaemonInv, IInv', KillEarly
    PROVE  DaemonInv'
<1> USE ThreadNumbers DEF DaemonInv, KillEarly, Free, Exit, serverVars, vars,
      mainVars, signalVars, Running, Alive
<1>1. DaemonTypes'
  BY SignalsAssumption DEF DaemonTypes, MainStates, HandlerStates, Statuses
<1>2. LockPlace'
  BY DEF DaemonTypes, LockPlace, IInv, Types
<1>3. ServerLife'
  BY DEF ServerLife
<1>4. HandlerPlace'
  BY DEF DaemonTypes, ServerLife, HandlerPlace, IInv, Types, Progress
<1>5. FlagMeansExit'
  BY DEF DaemonTypes, ServerLife, FlagMeansExit
<1>6. main' # "returning"
  BY DEF DaemonTypes, HandlerPlace, FlagMeansExit, IInv, Progress
<1>7. ZeroOnlyForHelp'
  BY DEF DaemonTypes, HandlerPlace, ZeroOnlyForHelp
<1>8. NullOnlyIfInterrupted'
  BY DEF DaemonTypes, HandlerPlace, FlagMeansExit, IInv, Types, Progress, NullOnlyIfInterrupted
<1> QED
  BY <1>1, <1>2, <1>3, <1>4, <1>5, <1>6, <1>7, <1>8

\* A signal is delivered.
LEMMA DeliverInv ==
    ASSUME DaemonInv, IInv', NEW t \in Workers \cup {Main}, Deliver(t)
    PROVE  DaemonInv'
<1> USE ThreadNumbers DEF DaemonInv, Deliver, Free, Threads, serverVars, vars,
      mainVars, signalVars, Running, Alive
<1>1. DaemonTypes'
  BY SignalsAssumption DEF DaemonTypes, MainStates, HandlerStates, Statuses
<1>2. LockPlace'
  BY DEF DaemonTypes, LockPlace, IInv, Types
<1>3. ServerLife'
  BY DEF ServerLife
<1>4. HandlerPlace'
  BY DEF DaemonTypes, ServerLife, HandlerPlace, IInv, Types, Progress
<1>5. FlagMeansExit'
  BY DEF DaemonTypes, ServerLife, FlagMeansExit
<1>6. main' # "returning"
  BY DEF DaemonTypes, HandlerPlace, FlagMeansExit, IInv, Progress
<1>7. ZeroOnlyForHelp'
  BY DEF DaemonTypes, HandlerPlace, ZeroOnlyForHelp
<1>8. NullOnlyIfInterrupted'
  BY DEF DaemonTypes, HandlerPlace, FlagMeansExit, IInv, Types, Progress, NullOnlyIfInterrupted
<1> QED
  BY <1>1, <1>2, <1>3, <1>4, <1>5, <1>6, <1>7, <1>8

\* The handler logs.
LEMMA LogSignalInv ==
    ASSUME DaemonInv, IInv', NEW t \in Workers \cup {Main}, LogSignal(t)
    PROVE  DaemonInv'
<1> USE ThreadNumbers DEF DaemonInv, LogSignal, Free, serverVars, vars, mainVars,
      signalVars, Running, Alive
<1>1. DaemonTypes'
  BY SignalsAssumption DEF DaemonTypes, MainStates, HandlerStates, Statuses
<1>2. LockPlace'
  BY DEF DaemonTypes, LockPlace, IInv, Types
<1>3. ServerLife'
  BY DEF ServerLife
<1>4. HandlerPlace'
  BY DEF DaemonTypes, ServerLife, HandlerPlace, IInv, Types, Progress
<1>5. FlagMeansExit'
  BY DEF DaemonTypes, ServerLife, FlagMeansExit
<1>6. main' # "returning"
  BY DEF DaemonTypes, HandlerPlace, FlagMeansExit, IInv, Progress
<1>7. ZeroOnlyForHelp'
  BY DEF DaemonTypes, HandlerPlace, ZeroOnlyForHelp
<1>8. NullOnlyIfInterrupted'
  BY DEF DaemonTypes, HandlerPlace, FlagMeansExit, IInv, Types, Progress, NullOnlyIfInterrupted
<1> QED
  BY <1>1, <1>2, <1>3, <1>4, <1>5, <1>6, <1>7, <1>8

\* The handler clears is_running.
LEMMA ClearRunningInv ==
    ASSUME DaemonInv, IInv', NEW t \in Workers \cup {Main}, ClearRunning(t)
    PROVE  DaemonInv'
<1> USE ThreadNumbers DEF DaemonInv, ClearRunning, Free, serverVars, vars, mainVars,
      signalVars, Running, Alive
<1>1. DaemonTypes'
  BY SignalsAssumption DEF DaemonTypes, MainStates, HandlerStates, Statuses
<1>2. LockPlace'
  BY DEF DaemonTypes, LockPlace, IInv, Types
<1>3. ServerLife'
  BY DEF ServerLife
<1>4. HandlerPlace'
  BY DEF DaemonTypes, ServerLife, HandlerPlace, IInv, Types, Progress
<1>5. FlagMeansExit'
  BY DEF DaemonTypes, ServerLife, FlagMeansExit
<1>6. main' # "returning"
  BY DEF DaemonTypes, HandlerPlace, FlagMeansExit, IInv, Progress
<1>7. ZeroOnlyForHelp'
  BY DEF DaemonTypes, HandlerPlace, ZeroOnlyForHelp
<1>8. NullOnlyIfInterrupted'
  BY DEF DaemonTypes, HandlerPlace, FlagMeansExit, IInv, Types, Progress, NullOnlyIfInterrupted
<1> QED
  BY <1>1, <1>2, <1>3, <1>4, <1>5, <1>6, <1>7, <1>8

\* The handler's exit is over.
LEMMA HandlerExitsInv ==
    ASSUME DaemonInv, IInv', NEW t \in Workers \cup {Main}, HandlerExits(t)
    PROVE  DaemonInv'
<1> USE ThreadNumbers DEF DaemonInv, HandlerExits, Free, Exit, serverVars, vars,
      mainVars, signalVars, Running, Alive
<1>1. DaemonTypes'
  BY SignalsAssumption DEF DaemonTypes, MainStates, HandlerStates, Statuses
<1>2. LockPlace'
  BY DEF DaemonTypes, LockPlace, IInv, Types
<1>3. ServerLife'
  BY DEF ServerLife
<1>4. HandlerPlace'
  BY DEF DaemonTypes, ServerLife, HandlerPlace, IInv, Types, Progress
<1>5. FlagMeansExit'
  BY DEF DaemonTypes, ServerLife, FlagMeansExit
<1>6. main' # "returning"
  BY DEF DaemonTypes, HandlerPlace, FlagMeansExit, IInv, Progress
<1>7. ZeroOnlyForHelp'
  BY DEF DaemonTypes, HandlerPlace, ZeroOnlyForHelp
<1>8. NullOnlyIfInterrupted'
  BY DEF DaemonTypes, HandlerPlace, FlagMeansExit, IInv, Types, Progress, NullOnlyIfInterrupted
<1> QED
  BY <1>1, <1>2, <1>3, <1>4, <1>5, <1>6, <1>7, <1>8

\* The process crashes.
LEMMA CrashInv ==
    ASSUME DaemonInv, IInv', Crash
    PROVE  DaemonInv'
<1> USE ThreadNumbers DEF DaemonInv, Crash, Free, Exit, serverVars, vars, mainVars,
      signalVars, Running, Alive
<1>1. DaemonTypes'
  BY SignalsAssumption DEF DaemonTypes, MainStates, HandlerStates, Statuses
<1>2. LockPlace'
  BY DEF DaemonTypes, LockPlace, IInv, Types
<1>3. ServerLife'
  BY DEF ServerLife
<1>4. HandlerPlace'
  BY DEF DaemonTypes, ServerLife, HandlerPlace, IInv, Types, Progress
<1>5. FlagMeansExit'
  BY DEF DaemonTypes, ServerLife, FlagMeansExit
<1>6. main' # "returning"
  BY DEF DaemonTypes, HandlerPlace, FlagMeansExit, IInv, Progress
<1>7. ZeroOnlyForHelp'
  BY DEF DaemonTypes, HandlerPlace, ZeroOnlyForHelp
<1>8. NullOnlyIfInterrupted'
  BY DEF DaemonTypes, HandlerPlace, FlagMeansExit, IInv, Types, Progress, NullOnlyIfInterrupted
<1> QED
  BY <1>1, <1>2, <1>3, <1>4, <1>5, <1>6, <1>7, <1>8

-----------------------------------------------------------------------------
(* Theorems of the specification. *)

\* The inductive invariant holds of every behaviour.
LEMMA DaemonInvariance == DaemonSpec => []DaemonInv
<1>1. Boot => DaemonInv
  BY BootInv
<1>2. DaemonInv /\ [DaemonNext]_daemonVars => DaemonInv'
  <2> SUFFICES ASSUME DaemonInv, [DaemonNext]_daemonVars PROVE DaemonInv'
    OBVIOUS
  <2>1. CASE UNCHANGED daemonVars
    BY <2>1
       DEF daemonVars, serverVars, vars, mainVars, signalVars, DaemonInv, IInv, Types,
           Progress, ServerAge, EarlyStop, Account, Busy, DaemonTypes, LockPlace, ServerLife, HandlerPlace,
           FlagMeansExit, ZeroOnlyForHelp, NullOnlyIfInterrupted, Running, Alive
  <2>2. CASE DaemonNext
    <3>1. IInv'
      BY <2>2, ServerInv DEF DaemonInv
    <3>2. CASE MainBoots \/ KillEarly \/ Crash
      BY <3>1, <3>2, InstallHandlersInv, MainAllocatesInv, MainReleasesInv, KillEarlyInv,
         CrashInv
         DEF MainBoots
    <3>3. CASE MainServes
      BY <3>1, <3>3, ServeInv, TestRunningInv, SleepInv, StopServerInv, JoinServerInv,
         MainExitsInv
         DEF MainServes
    <3>4. CASE \E w \in Workers :
                 WorkerAllocates(w) \/ WorkerReleases(w) \/ WorkerMoves(w) \/ Request(w)
      BY <3>1, <3>4, WorkerAllocatesInv, WorkerReleasesInv, WorkerMovesInv, RequestInv
    <3>5. CASE \E t \in Workers \cup {Main} : Deliver(t) \/ Handle(t)
      BY <3>1, <3>5, DeliverInv, LogSignalInv, ClearRunningInv, HandlerExitsInv DEF Handle
    <3> QED
      BY <2>2, <3>2, <3>3, <3>4, <3>5 DEF DaemonNext
  <2> QED
    BY <2>1, <2>2
<1> QED
  BY <1>1, <1>2, PTL DEF DaemonSpec

\* Every variable keeps its type, and the lock is held only inside a request or
\* while main boots.
THEOREM DaemonTypeCorrect == DaemonSpec => []DaemonTypeOK
<1>1. DaemonInv => DaemonTypeOK
  BY TypesFromInv DEF DaemonInv, DaemonTypes, LockPlace, DaemonTypeOK
<1> QED
  BY <1>1, DaemonInvariance, PTL

\* A daemon that was signalled never ends with status 0.
THEOREM SignalNeverSuccess == DaemonSpec => []ZeroOnlyForHelp
<1>1. DaemonInv => ZeroOnlyForHelp
  BY DEF DaemonInv
<1> QED
  BY <1>1, DaemonInvariance, PTL

\* main never gets past its join: some worker is inside exit.
THEOREM MainNeverReturns == DaemonSpec => []ShutdownInVain
<1>1. DaemonInv => ShutdownInVain
  BY DEF DaemonInv, FlagMeansExit, ShutdownInVain
<1> QED
  BY <1>1, DaemonInvariance, PTL

\* The one way to a null server_ is a signal on the thread of run.
THEOREM NullServerCause == DaemonSpec => []NullOnlyIfInterrupted
<1>1. DaemonInv => NullOnlyIfInterrupted
  BY DEF DaemonInv
<1> QED
  BY <1>1, DaemonInvariance, PTL

\* The daemon uses the server as RpcServer specifies it.
THEOREM DaemonKeepsServerRules == DaemonSpec => Spec
<1>1. Boot => Init
  BY DEF Boot
<1>2. [DaemonNext]_daemonVars => [Next]_vars
  BY ServerStep DEF daemonVars, serverVars
<1> QED
  BY <1>1, <1>2, PTL DEF DaemonSpec, Spec
-----------------------------------------------------------------------------
(* Progress of the daemon.                                                    *)

\* A signal that was taken is in some thread's hands until the process ends.
SignalHeld == sent > 0 /\ Running => \E t \in Workers \cup {Main} : handler[t] # "none"

\* No handler has interrupted the holder of the lock, unless the daemon is stuck.
HolderFree == heap # NoThread /\ ~stuck => handler[heap] = "none"

\* Nothing can crash before the server is started.
BootAlive == main \in {"boot", "parse", "allocating", "parsed"} => Alive

\* The guards of the steps that lead from a signal to the end of the process: those
\* of the handlers, and those of the thread that has the lock they wait for.
CanEnd ==
    \/ \E t \in Workers \cup {Main} : handler[t] \in {"logged", "exiting"}
    \/ heap = NoThread /\ \E t \in Workers \cup {Main} : handler[t] = "logging"
    \/ heap = Main /\ main = "allocating" /\ Alive /\ Free(Main)
    \/ heap \in Workers /\ Free(heap)

SignalCanEnd == sent > 0 /\ Running /\ ~stuck => CanEnd

\* These are kept by every step.
LEMMA SignalInv == DaemonSpec => [](SignalHeld /\ HolderFree /\ BootAlive)
<1> DEFINE Inv == SignalHeld /\ HolderFree /\ BootAlive
<1>1. Boot => Inv
  BY DEF Boot, Init, SignalHeld, HolderFree, BootAlive, Alive
<1>2. DaemonInv /\ Inv /\ [DaemonNext]_daemonVars => Inv'
  <2> SUFFICES ASSUME DaemonInv, Inv, [DaemonNext]_daemonVars PROVE Inv'
    OBVIOUS
  <2> USE ThreadNumbers DEF SignalHeld, HolderFree, BootAlive, DaemonInv, DaemonTypes,
          Running, Alive, Free
  <2>1. CASE UNCHANGED daemonVars
    BY <2>1 DEF daemonVars, serverVars, vars, mainVars, signalVars
  <2>2. CASE MainBoots
    BY <2>2
       DEF MainBoots, InstallHandlers, MainAllocates, MainReleases, MoveMain, serverVars,
           vars, signalVars
  <2>3. CASE Serve
    BY <2>3 DEF Serve, Start, StartWith, MoveMain, serverVars, vars, signalVars
  <2>4. CASE TestRunning \/ Sleep \/ MainExits
    BY <2>4 DEF TestRunning, Sleep, MainExits, MoveMain, Exit, serverVars, vars,
                mainVars, signalVars
  <2>5. CASE StopServer \/ JoinServer
    BY <2>5 DEF StopServer, JoinServer, Stop, BeginJoin, EndJoin, MoveMain, signalVars
  <2>6. ASSUME NEW w \in Workers, WorkerAllocates(w) \/ WorkerReleases(w)
        PROVE  Inv'
    BY <2>6 DEF WorkerAllocates, WorkerReleases, serverVars, vars, mainVars
  <2>7. ASSUME NEW w \in Workers, WorkerMoves(w) \/ Request(w)
        PROVE  Inv'
    <3>1. main \in {"boot", "parse", "allocating", "parsed"} => crash' = crash
      <4> SUFFICES ASSUME main \in {"boot", "parse", "allocating", "parsed"}
                   PROVE  crash' = crash
        OBVIOUS
      <4>1. worker[w] = "none"
        BY DEF ServerLife, IInv, Types, Progress
      <4> QED
        BY <2>7, <4>1
           DEF WorkerMoves, Request, WorkerStep, Listen, BindFails, Answer, AnswerAnd,
               LeaveRun, Run, AssignServer, EnterRun, RunReturns, RunReturnsAfter,
               SpawnService, Accept
    <3>2. UNCHANGED <<mainVars, signalVars>>
      BY <2>7 DEF WorkerMoves, Request
    <3> QED
      BY <3>1, <3>2 DEF mainVars, signalVars
  <2>8. CASE KillEarly
    BY <2>8 DEF KillEarly, Exit, serverVars, vars, mainVars
  <2>9. ASSUME NEW t \in Workers \cup {Main}, Deliver(t)
        PROVE  Inv'
    BY <2>9 DEF Deliver, serverVars, vars, mainVars
  <2>10. ASSUME NEW t \in Workers \cup {Main}, Handle(t)
         PROVE  Inv'
    BY <2>10
       DEF Handle, LogSignal, ClearRunning, HandlerExits, Exit, serverVars, vars, mainVars
  <2>11. CASE Crash
    BY <2>11 DEF Crash, Exit, serverVars, vars, mainVars
  <2> QED
    BY <2>1, <2>2, <2>3, <2>4, <2>5, <2>6, <2>7, <2>8, <2>9, <2>10, <2>11
       DEF DaemonNext, MainServes
<1> QED
  BY <1>1, <1>2, DaemonInvariance, PTL DEF DaemonSpec

\* A signal leaves nothing to wait for in vain, for any number of threads and signals:
\* unless it hit the holder of the allocator's lock, the handler can go on, or the
\* thread that holds the lock runs and can release it.
THEOREM SignalNeverWaits == DaemonSpec => []SignalCanEnd
<1>1. DaemonInv /\ SignalHeld /\ HolderFree /\ BootAlive => SignalCanEnd
  <2> SUFFICES ASSUME DaemonInv, SignalHeld, HolderFree, BootAlive,
                      sent > 0, Running, ~stuck
               PROVE  CanEnd
    BY DEF SignalCanEnd
  <2>1. PICK t \in Workers \cup {Main} : handler[t] # "none"
    BY DEF SignalHeld
  <2>2. handler[t] \in {"logging", "logged", "exiting"}
    BY <2>1 DEF DaemonInv, DaemonTypes, HandlerStates
  <2>3. CASE heap = NoThread
    BY <2>2, <2>3 DEF CanEnd
  <2>4. CASE heap = Main
    BY <2>4, ThreadNumbers
       DEF CanEnd, HolderFree, BootAlive, Free, DaemonInv, LockPlace
  <2>5. CASE heap \in Workers
    BY <2>5, ThreadNumbers DEF CanEnd, HolderFree, Free
  <2> QED
    BY <2>3, <2>4, <2>5 DEF DaemonInv, DaemonTypes
<1> QED
  BY <1>1, DaemonInvariance, SignalInv, PTL

\* The threads that have a stage of the handler before them.
Before(stages) == {t \in Workers \cup {Main} : handler[t] \notin stages}
StillBefore(stages) == Cardinality(Before(stages))

\* A bound on the steps of signals that are still to come: three for each thread, and
\* the end of the process.
SignalsLeft ==
    StillBefore({"exiting"}) + StillBefore({"exiting", "logged"})
        + StillBefore({"exiting", "logged", "logging"}) + (IF Running THEN 1 ELSE 0)

SignalsGoOn ==
    /\ SignalsLeft' <= SignalsLeft
    /\ UNCHANGED <<handler, status>> \/ SignalsLeft' < SignalsLeft

\* The threads that have a stage before them are counted by a natural number.
LEMMA BeforeNat ==
    ASSUME NEW stages
    PROVE  /\ IsFiniteSet(Before(stages)) /\ StillBefore(stages) \in Nat
           /\ IsFiniteSet(Before(stages)') /\ StillBefore(stages)' \in Nat
<1>1. IsFiniteSet(Workers \cup {Main})
  <2>1. IsFiniteSet(Workers)
    BY ThreadsAssumption, FS_Interval DEF Workers
  <2> QED
    BY <2>1, FS_AddElement
<1>2. /\ Before(stages) \subseteq Workers \cup {Main}
      /\ Before(stages)' \subseteq Workers \cup {Main}
  BY DEF Before
<1>3. IsFiniteSet(Before(stages)) /\ IsFiniteSet(Before(stages)')
  BY <1>1, <1>2, FS_Subset
<1> QED
  BY <1>3, FS_CardinalityType DEF StillBefore

\* A thread that goes on to a stage is one less before it.
LEMMA StageReached ==
    ASSUME DaemonTypes, NEW t \in Workers \cup {Main}, NEW to,
           handler' = [handler EXCEPT ![t] = to],
           NEW stages, handler[t] \in stages => to \in stages
    PROVE  /\ StillBefore(stages)' <= StillBefore(stages)
           /\ handler[t] \notin stages /\ to \in stages =>
                 StillBefore(stages)' < StillBefore(stages)
<1>1. CASE handler[t] \notin stages /\ to \in stages
  <2>1. Before(stages)' = Before(stages) \ {t} /\ t \in Before(stages)
    BY <1>1 DEF Before, DaemonTypes
  <2>2. Cardinality(Before(stages)') = Cardinality(Before(stages)) - 1
    BY <2>1, BeforeNat, FS_RemoveElement
  <2>3. StillBefore(stages)' = StillBefore(stages) - 1
    BY <2>2 DEF StillBefore
  <2> QED
    BY <2>3, BeforeNat
<1>2. CASE ~(handler[t] \notin stages /\ to \in stages)
  <2>1. Before(stages)' = Before(stages)
    BY <1>2 DEF Before, DaemonTypes
  <2>2. StillBefore(stages)' = StillBefore(stages)
    BY <2>1 DEF StillBefore
  <2> QED
    BY <1>2, <2>2, BeforeNat
<1> QED
  BY <1>1, <1>2

\* Three counts and what is left of the process.
LEMMA LessInThree ==
    ASSUME NEW a \in Nat, NEW b \in Nat, NEW c \in Nat, NEW p \in Nat, NEW q \in Nat, NEW r \in Nat,
           NEW k \in 0 .. 1, NEW l \in 0 .. 1, p <= a, q <= b, r <= c, l <= k,
           p < a \/ q < b \/ r < c \/ l < k
    PROVE  p + q + r + l < a + b + c + k
OBVIOUS

\* The next stage of a handler is one stage less.
LEMMA StageLeft ==
    ASSUME DaemonTypes, NEW t \in Workers \cup {Main}, NEW to,
           handler' = [handler EXCEPT ![t] = to], status' = status,
           \/ handler[t] = "none" /\ to = "logging"
           \/ handler[t] = "logging" /\ to = "logged"
           \/ handler[t] = "logged" /\ to = "exiting"
    PROVE  SignalsLeft' < SignalsLeft
<1> DEFINE One == {"exiting"}
           Two == {"exiting", "logged"}
           Three == {"exiting", "logged", "logging"}
           alive == IF Running THEN 1 ELSE 0
<1>1. /\ handler[t] \in One => to \in One
      /\ handler[t] \in Two => to \in Two
      /\ handler[t] \in Three => to \in Three
      /\ \/ handler[t] \notin One /\ to \in One
         \/ handler[t] \notin Two /\ to \in Two
         \/ handler[t] \notin Three /\ to \in Three
  OBVIOUS
<1>2. /\ StillBefore(One) \in Nat /\ StillBefore(One)' \in Nat
      /\ StillBefore(Two) \in Nat /\ StillBefore(Two)' \in Nat
      /\ StillBefore(Three) \in Nat /\ StillBefore(Three)' \in Nat
  BY BeforeNat, Zenon
<1>3. alive \in 0 .. 1 /\ alive' \in 0 .. 1 /\ alive' <= alive
  BY DEF Running
<1> HIDE DEF One, Two, Three, alive
<1>4. /\ StillBefore(One)' <= StillBefore(One)
      /\ handler[t] \notin One /\ to \in One => StillBefore(One)' < StillBefore(One)
  BY <1>1, StageReached, Zenon
<1>5. /\ StillBefore(Two)' <= StillBefore(Two)
      /\ handler[t] \notin Two /\ to \in Two => StillBefore(Two)' < StillBefore(Two)
  BY <1>1, StageReached, Zenon
<1>6. /\ StillBefore(Three)' <= StillBefore(Three)
      /\ handler[t] \notin Three /\ to \in Three => StillBefore(Three)' < StillBefore(Three)
  BY <1>1, StageReached, Zenon
<1>7. StillBefore(One)' + StillBefore(Two)' + StillBefore(Three)' + alive'
         < StillBefore(One) + StillBefore(Two) + StillBefore(Three) + alive
  BY <1>1, <1>2, <1>3, <1>4, <1>5, <1>6, LessInThree, Zenon
<1> QED
  BY <1>7, Zenon DEF SignalsLeft, One, Two, Three, alive

\* When nothing moves in the handlers, nothing is used up.
LEMMA SignalsStay == UNCHANGED <<handler, status>> => SignalsLeft' = SignalsLeft
BY DEF SignalsLeft, StillBefore, Before, Running

\* What is left is a natural number.
LEMMA SignalsLeftNat == SignalsLeft \in Nat
<1>1. \A a, b, c \in Nat : \A k \in 0 .. 1 : a + b + c + k \in Nat
  OBVIOUS
<1>2. (IF Running THEN 1 ELSE 0) \in 0 .. 1
  OBVIOUS
<1> QED
  BY <1>1, <1>2, BeforeNat, Zenon DEF SignalsLeft

\* The end of the process is the last of it.
LEMMA EndLeft ==
    ASSUME Running, status' # "alive", handler' = handler
    PROVE  SignalsLeft' < SignalsLeft
<1> DEFINE rest == StillBefore({"exiting"}) + StillBefore({"exiting", "logged"})
                      + StillBefore({"exiting", "logged", "logging"})
<1>1. rest \in Nat /\ rest' = rest
  <2>1. rest \in Nat
    <3>1. \A a, b, c \in Nat : a + b + c \in Nat
      OBVIOUS
    <3> QED
      BY <3>1, BeforeNat, Zenon
  <2>2. rest' = rest
    BY DEF StillBefore, Before
  <2> QED
    BY <2>1, <2>2
<1>2. SignalsLeft = rest + 1 /\ SignalsLeft' = rest' + 0
  BY DEF SignalsLeft, Running
<1> QED
  BY <1>1, <1>2

\* Signals come to an end whatever threads they hit: a handler goes on and never back,
\* no thread is hit again inside of its handler, and a process that has ended stays so
\* (daemon.cpp:29-36).
THEOREM SignalIsFinite == DaemonSpec => [](SignalsLeft \in Nat) /\ [][SignalsGoOn]_daemonVars
<1>1. SignalsLeft \in Nat
  BY SignalsLeftNat
<1>2. DaemonInv /\ [DaemonNext]_daemonVars => [SignalsGoOn]_daemonVars
  <2> SUFFICES ASSUME DaemonInv, DaemonNext
               PROVE  SignalsGoOn
    OBVIOUS
  <2>0. /\ DaemonTypes
        /\ UNCHANGED <<handler, status>> => SignalsGoOn
        /\ SignalsLeft' < SignalsLeft => SignalsGoOn
    <3>1. SignalsLeft \in Nat /\ (SignalsLeft \in Nat)'
      BY SignalsLeftNat, PTL
    <3>2. \A a, b \in Nat : (a = b => a <= b) /\ (a < b => a <= b)
      OBVIOUS
    <3> QED
      BY <3>1, <3>2, SignalsStay, Zenon DEF SignalsGoOn, DaemonInv
  <2>1. CASE MainBoots \/ Serve \/ TestRunning \/ Sleep \/ StopServer \/ JoinServer
    <3>1. UNCHANGED <<handler, status>>
      BY <2>1
         DEF MainBoots, InstallHandlers, MainAllocates, MainReleases, Serve, TestRunning, Sleep,
             StopServer, JoinServer, signalVars
    <3> QED
      BY <2>0, <3>1
  <2>2. ASSUME NEW w \in Workers,
               WorkerAllocates(w) \/ WorkerReleases(w) \/ WorkerMoves(w) \/ Request(w)
        PROVE  SignalsGoOn
    <3>1. UNCHANGED <<handler, status>>
      BY <2>2 DEF WorkerAllocates, WorkerReleases, WorkerMoves, Request, signalVars
    <3> QED
      BY <2>0, <3>1
  <2>3. CASE MainExits \/ KillEarly \/ Crash
    <3>1. Running /\ status' # "alive" /\ handler' = handler
      BY <2>3 DEF MainExits, KillEarly, Crash, Exit
    <3> QED
      BY <2>0, <3>1, EndLeft
  <2>4. ASSUME NEW t \in Workers \cup {Main}, Deliver(t) \/ LogSignal(t) \/ ClearRunning(t)
        PROVE  SignalsGoOn
    <3>1. PICK to : /\ handler' = [handler EXCEPT ![t] = to] /\ status' = status
                    /\ \/ handler[t] = "none" /\ to = "logging"
                       \/ handler[t] = "logging" /\ to = "logged"
                       \/ handler[t] = "logged" /\ to = "exiting"
      BY <2>4 DEF Deliver, LogSignal, ClearRunning, Free
    <3> QED
      BY <2>0, <3>1, StageLeft
  <2>5. ASSUME NEW t \in Workers \cup {Main}, HandlerExits(t)
        PROVE  SignalsGoOn
    <3>1. Running /\ status' # "alive" /\ handler' = handler
      BY <2>5 DEF HandlerExits, Exit
    <3> QED
      BY <2>0, <3>1, EndLeft
  <2> QED
    BY <2>1, <2>2, <2>3, <2>4, <2>5 DEF DaemonNext, MainServes, Handle
<1> QED
  BY <1>1, <1>2, DaemonInvariance, PTL DEF DaemonSpec

\* Whatever signals come, the server of the daemon is a service to main: a join is
\* over only when every request is answered.
THEOREM DaemonIsService == DaemonSpec => IsService
BY DaemonKeepsServerRules, ServiceRefined, PTL

=============================================================================
