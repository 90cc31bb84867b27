---------------------------- MODULE ScanWaitFor ----------------------------
(* pca::async::scan_wait_for (common/async.cpp).                             *)
(*                                                                           *)
(* The caller launches a scanner thread that calls a checker once a second   *)
(* until it answers TRUE, waits for that thread for at most sec seconds,     *)
(* clears the shared flag _running, and leaves; leaving destroys the future, *)
(* which joins the scanner.  Time is counted in ticks from the moment the    *)
(* call begins.  Any step that is ready to be taken is taken within MaxLag   *)
(* ticks (the scheduler's delay), and a checker answers within MaxCheck.     *)
(* _running is a plain bool shared by both threads; the checker is an opaque *)
(* call, so every build reloads it at each test, and it is modelled as one   *)
(* coherent word.                                                            *)
EXTENDS Integers

CONSTANTS
    Second,     \* ticks in a second: the sleep of the scanner
    Secs,       \* the timeouts callers pass, in seconds
    MaxLag,     \* the longest delay of a step that is ready
    MaxCheck    \* the longest run of a checker

ASSUME TimingAssumption ==
    /\ Second \in Nat \ {0}
    /\ MaxLag \in Nat
    /\ MaxCheck \in Nat
    /\ Secs \subseteq Int

VARIABLES
    now,        \* ticks since the current call began
    pc,         \* control of the caller
    sec,        \* the argument of the current call
    deadline,   \* when wait_for gives up
    callerDue,  \* latest time of the caller's next step, unless it is blocked
    status,     \* what wait_for returned
    result,     \* what scan_wait_for returned
    running,    \* _running
    sc,         \* control of the scanner
    wakeAt,     \* earliest end of the scanner's sleep
    scannerDue, \* latest time of the scanner's next step
    outcome,    \* how the scanner ended
    doneAt,     \* when it ended
    calls       \* how many times it called the checker

callerVars  == <<pc, sec, deadline, status, result>>
scannerVars == <<sc, wakeAt, scannerDue, outcome, doneAt, calls>>
vars == <<now, callerVars, callerDue, running, scannerVars>>

\* Fault: a negative timeout is taken as it is.
TicksSigned(s) == s * Second

\* Ticks that wait_for is asked to wait; a negative timeout does not wait.
Ticks(s) == IF s < 0 THEN 0 ELSE s * Second

\* The shared state of the future is ready.
Ready == sc = "done"

Init ==
    /\ now = 0
    /\ pc = "idle"
    /\ sec \in Secs
    /\ deadline = 0
    /\ callerDue = 0
    /\ status = "none"
    /\ result = "none"
    /\ running = FALSE
    /\ sc = "none"
    /\ wakeAt = 0
    /\ scannerDue = 0
    /\ outcome = "none"
    /\ doneAt = 0
    /\ calls = 0

-----------------------------------------------------------------------------
(* The caller. *)

\* Lines 39-50: set the flag and launch the scanner.
Launch(s) ==
    /\ pc = "idle"
    /\ now' = 0
    /\ pc' = "launched"
    /\ sec' = s
    /\ deadline' = 0
    /\ callerDue' = MaxLag
    /\ status' = "none"
    /\ result' = "none"
    /\ running' = TRUE
    /\ sc' = "test"
    /\ wakeAt' = 0
    /\ scannerDue' = MaxLag
    /\ outcome' = "none"
    /\ doneAt' = 0
    /\ calls' = 0

\* Line 51: enter wait_for, which fixes its deadline.
BeginWaitWith(flag) ==
    /\ pc = "launched"
    /\ pc' = "waiting"
    /\ deadline' = now + Ticks(sec)
    /\ callerDue' = (IF Ready THEN now ELSE now + Ticks(sec)) + MaxLag
    /\ running' = flag
    /\ UNCHANGED <<now, sec, status, result, scannerVars>>

\* Fault: the flag is cleared before the wait, not after it.
BeginWaitCleared == BeginWaitWith(FALSE)
BeginWait == BeginWaitWith(running)

\* wait_for returns s; line 53 is next.
WaitReturns(s) ==
    /\ pc' = "clearing"
    /\ status' = s
    /\ callerDue' = now + MaxLag
    /\ UNCHANGED <<now, sec, deadline, result, running, scannerVars>>

WaitReady == pc = "waiting" /\ Ready /\ WaitReturns("ready")

TimeoutIf(late) == pc = "waiting" /\ late /\ WaitReturns("timeout")

\* Faults: a spurious wake-up is taken for the timeout; wait is called in place of
\* wait_for and never gives up.
WaitTimeoutSpurious == TimeoutIf(~Ready)
WaitTimeoutNever == TimeoutIf(Ready)
WaitTimeout == TimeoutIf(~Ready /\ now >= deadline)

\* Line 53: tell the scanner to stop.
ClearTo(flag) ==
    /\ pc = "clearing"
    /\ pc' = "joining"
    /\ running' = flag
    /\ callerDue' = now + MaxLag
    /\ UNCHANGED <<now, sec, deadline, status, result, scannerVars>>

\* Fault: the flag is not cleared.
ClearRunningForgotten == ClearTo(running)
ClearRunning == ClearTo(FALSE)

\* Lines 60-61: the future's destructor joins the scanner, then the call ends.
ReturnIf(joined) ==
    /\ pc = "joining"
    /\ joined
    /\ pc' = "idle"
    /\ result' = IF status = "ready" THEN "true" ELSE "false"
    /\ UNCHANGED <<now, sec, deadline, callerDue, status, running, scannerVars>>

\* Fault: the scanner is detached, its end is not awaited.
ReturnDetached == ReturnIf(TRUE)
Return == ReturnIf(Ready)

Caller == BeginWait \/ WaitReady \/ WaitTimeout \/ ClearRunning \/ Return

-----------------------------------------------------------------------------
(* The scanner thread. *)

\* A caller blocked on the future is woken, within MaxLag, when it gets ready.
Finish(o) ==
    /\ sc' = "done"
    /\ outcome' = o
    /\ doneAt' = now
    /\ callerDue' = IF \/ pc = "joining"
                       \/ pc = "waiting" /\ now + MaxLag < callerDue
                    THEN now + MaxLag
                    ELSE callerDue
    /\ UNCHANGED <<now, callerVars, running, wakeAt, scannerDue, calls>>

\* Line 41, flag set: call the checker.
StartCheck ==
    /\ sc = "test"
    /\ running
    /\ sc' = "checking"
    /\ calls' = calls + 1
    /\ scannerDue' = now + MaxCheck
    /\ UNCHANGED <<now, callerVars, callerDue, running, wakeAt, outcome, doneAt>>

\* Line 41, flag cleared: leave the loop.
SeeStopped == sc = "test" /\ ~running /\ Finish("stopped")

\* Lines 42-43: the checker answers TRUE.
CheckHits == sc = "checking" /\ Finish("hit")

\* The checker throws: std::async stores the exception, nobody reads it.
CheckThrows == sc = "checking" /\ Finish("threw")

\* Line 46: the checker answers FALSE and the scanner sleeps for a while.
MissAndSleep(pause) ==
    /\ sc = "checking"
    /\ sc' = "sleeping"
    /\ wakeAt' = now + pause
    /\ scannerDue' = now + pause + MaxLag
    /\ UNCHANGED <<now, callerVars, callerDue, running, outcome, doneAt, calls>>

\* Fault: the scanner polls without a pause.
CheckMissesBusy == MissAndSleep(0)
CheckMisses == MissAndSleep(Second)

Wake ==
    /\ sc = "sleeping"
    /\ now >= wakeAt
    /\ sc' = "test"
    /\ scannerDue' = now + MaxLag
    /\ UNCHANGED <<now, callerVars, callerDue, running, wakeAt, outcome, doneAt, calls>>

Scanner ==
    StartCheck \/ SeeStopped \/ CheckHits \/ CheckThrows \/ CheckMisses \/ Wake

-----------------------------------------------------------------------------
(* Time passes while no thread is overdue. *)

CallerMayWait == (pc = "joining" /\ ~Ready) \/ now < callerDue
ScannerMayWait == Ready \/ now < scannerDue

Tick ==
    /\ pc # "idle"
    /\ CallerMayWait
    /\ ScannerMayWait
    /\ now' = now + 1
    /\ UNCHANGED <<callerVars, callerDue, running, scannerVars>>

Next == (\E s \in Secs : Launch(s)) \/ Caller \/ Scanner \/ Tick

Spec == Init /\ [][Next]_vars

\* The system schedules both threads, time passes and checkers answer.
FairSpec == Spec /\ WF_vars(Caller) /\ WF_vars(Scanner) /\ WF_vars(Tick)

-----------------------------------------------------------------------------
(* Properties. *)

\* The longest a call may take: the timeout, then one check and one sleep that
\* were under way when the flag was cleared, and the delays of six steps.
Latest == Ticks(sec) + Second + MaxCheck + 6 * MaxLag

TypeOK ==
    /\ now \in Nat
    /\ pc \in {"idle", "launched", "waiting", "clearing", "joining"}
    /\ sec \in Secs
    /\ deadline \in Nat
    /\ callerDue \in Nat
    /\ status \in {"none", "ready", "timeout"}
    /\ result \in {"none", "true", "false"}
    /\ running \in BOOLEAN
    /\ sc \in {"none", "test", "checking", "sleeping", "done"}
    /\ wakeAt \in Nat
    /\ scannerDue \in Nat
    /\ outcome \in {"none", "hit", "threw", "stopped"}
    /\ doneAt \in Nat
    /\ calls \in Nat

\* The scanner captures _running and checker_func by reference (line 40): it
\* is alive only while the frame of the call that owns them is.
NoUseAfterReturn ==
    sc \in {"test", "checking", "sleeping"} => pc # "idle"

\* A call that returns TRUE was not cut short: its checker hit, or threw.
TrueMeansScanEnded ==
    pc = "idle" /\ result = "true" => outcome \in {"hit", "threw"}

\* A hit is lost only when it comes after the timeout: a call that returns
\* FALSE was still scanning when its deadline passed.
EarlyHitReported ==
    pc = "idle" /\ result = "false" => doneAt >= deadline

\* A call never takes longer than its timeout plus one more round.
ReturnsInTime == now <= Latest

Loop == INSTANCE PollingLoop
          WITH open <- pc # "idle", checking <- sc = "checking", next <- wakeAt,
               over <- outcome, stopped <- pc # "idle" /\ ~running, answer <- result

\* To its caller the two threads are one loop that polls with a second's pause
\* after every miss, never twice at a time, never before or after the call, and
\* stops before it answers.
PollsInTurn == Loop!Spec

\* Every call returns, whatever the checker answers.
CallReturns == pc = "launched" ~> pc = "idle"

\* Doc, line 35: "true if success, otherwise false".
TrueMeansHit ==
    pc = "idle" /\ result = "true" => outcome = "hit"

\* tests/utest-async.cpp:27-28: with a timeout of 2 seconds and a checker that
\* hits at its third call the result is FALSE, after two calls.
ThirdCallHits == outcome # "threw" /\ calls <= 3 /\ (outcome = "hit" <=> calls = 3)
TestTwoSeconds ==
    pc = "idle" /\ result # "none" /\ sec = 2 /\ ThirdCallHits
        => result = "false" /\ calls = 2

=============================================================================
