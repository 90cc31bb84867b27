------------------------- MODULE ScanWaitForProofs -------------------------
(* Theorems about ScanWaitFor, for every length of a second, every timeout   *)
(* and every bound on the delays of the threads and of the checker.          *)
EXTENDS ScanWaitFor, TLAPS

\* What the two program counters say of the shared state.
Control ==
    /\ pc = "idle" => sc \in {"none", "done"}
    /\ pc # "idle" => sc # "none"
    /\ pc = "idle" /\ result # "none" => sc = "done"
    /\ pc \in {"launched", "waiting", "clearing"} => running
    /\ pc = "joining" => ~running
    /\ sc = "done" => outcome # "none"
    /\ sc # "done" => outcome = "none"
    /\ outcome = "stopped" => ~running
    /\ sc = "none" => result = "none"

\* What the caller knows of the scanner from the answer of wait_for.
Verdict ==
    /\ pc \in {"launched", "waiting"} => status = "none"
    /\ pc \in {"clearing", "joining"} => status # "none"
    /\ pc = "idle" /\ result = "true" => status = "ready"
    /\ pc = "idle" /\ result = "false" => status # "ready"
    /\ pc = "idle" /\ status = "none" => result = "none"
    /\ status = "ready" => outcome \in {"hit", "threw"}
    /\ status = "timeout" => deadline <= now
    /\ status = "timeout" /\ sc = "done" => deadline <= doneAt

\* The latest time the flag is cleared.
ClearBy == Ticks(sec) + 3 * MaxLag

\* The caller is never late.
CallerOnTime ==
    /\ pc = "launched" => now <= callerDue /\ callerDue <= MaxLag
    /\ pc = "waiting" => now <= callerDue /\ callerDue <= Ticks(sec) + 2 * MaxLag
    /\ pc = "clearing" => now <= callerDue /\ callerDue <= ClearBy
    /\ pc = "joining" /\ sc = "done" => now <= callerDue /\ callerDue <= Latest
    /\ pc = "idle" => now <= Latest

\* The scanner is never late, and its step in hand is bounded from now.
ScannerOnTime ==
    /\ sc \in {"test", "checking", "sleeping"} => now <= scannerDue
    /\ sc = "test" => scannerDue <= now + MaxLag
    /\ sc = "checking" => scannerDue <= now + MaxCheck
    /\ sc = "sleeping" => scannerDue <= now + Second + MaxLag

\* Once the flag is cleared the scanner ends within one more round.
LastRound ==
    pc = "joining" =>
        /\ sc = "checking" => scannerDue <= ClearBy + MaxCheck
        /\ sc = "sleeping" => scannerDue <= ClearBy + MaxCheck + Second + MaxLag
        /\ sc = "test" => scannerDue <= ClearBy + MaxCheck + Second + 2 * MaxLag

\* A miss is followed by a pause, the timeout by the flag.
Pace ==
    /\ sc = "test" => wakeAt <= now
    /\ pc \in {"waiting", "clearing", "joining"} => Ticks(sec) <= deadline

IInv == TypeOK /\ Control /\ Verdict /\ CallerOnTime /\ ScannerOnTime /\ LastRound /\ Pace

-----------------------------------------------------------------------------
(* The arithmetic the steps need, apart from the products themselves. *)

\* A timeout in ticks is a natural number.
LEMMA TicksNat ==
    ASSUME NEW s \in Secs
    PROVE  Ticks(s) \in Nat
<1>1. s \in Int /\ Second \in Nat
  BY TimingAssumption
<1>2. CASE s < 0
  BY <1>2 DEF Ticks
<1>3. CASE ~(s < 0)
  <2>1. s \in Nat
    BY <1>1, <1>3
  <2>2. s * Second \in Nat
    BY <1>1, <2>1
  <2> QED
    BY <1>3, <2>2 DEF Ticks
<1> QED
  BY <1>2, <1>3

\* It is what the timeout asks for, or more.
LEMMA TicksEnough ==
    ASSUME NEW s \in Secs
    PROVE  s * Second \in Int /\ s * Second <= Ticks(s)
<1>1. s \in Int /\ Second \in Nat
  BY TimingAssumption
<1>2. s * Second \in Int
  BY <1>1
<1>3. CASE s < 0
  <2>1. (-s) * Second \in Nat
    BY <1>1, <1>3
  <2>2. s * Second = -((-s) * Second)
    BY <1>1
  <2> QED
    BY <1>2, <1>3, <2>1, <2>2 DEF Ticks
<1> QED
  BY <1>2, <1>3 DEF Ticks

-----------------------------------------------------------------------------
(* The inductive invariant. *)

\* A call may begin in any initial state.
LEMMA InitInv == Init => IInv
<1> SUFFICES ASSUME Init PROVE IInv
  OBVIOUS
<1> USE TimingAssumption DEF Init
<1>1. Ticks(sec) \in Nat
  BY TicksNat
<1>2. TypeOK
  BY DEF TypeOK
<1>3. Control /\ Verdict
  BY DEF Control, Verdict
<1>4. CallerOnTime /\ ScannerOnTime /\ LastRound
  BY <1>1 DEF CallerOnTime, ScannerOnTime, LastRound, Latest
<1>5. Pace
  BY DEF Pace
<1> QED
  BY <1>2, <1>3, <1>4, <1>5 DEF IInv

\* A call that begins establishes the invariant anew.
LEMMA LaunchInv ==
    ASSUME IInv, NEW s \in Secs, Launch(s)
    PROVE  IInv'
<1> USE TimingAssumption DEF Launch
<1>1. Ticks(s) \in Nat
  BY TicksNat
<1>2. TypeOK'
  BY DEF TypeOK
<1>3. Control' /\ Verdict'
  BY DEF Control, Verdict
<1>4. CallerOnTime' /\ ScannerOnTime' /\ LastRound'
  BY <1>1 DEF CallerOnTime, ScannerOnTime, LastRound, Latest
<1>5. Pace'
  BY DEF Pace
<1> QED
  BY <1>2, <1>3, <1>4, <1>5 DEF IInv

\* wait_for begins.
LEMMA BeginWaitInv == IInv /\ BeginWait => IInv'
<1> SUFFICES ASSUME IInv, BeginWait PROVE IInv'
  OBVIOUS
<1> USE TimingAssumption DEF IInv, BeginWait, BeginWaitWith, callerVars, scannerVars
<1>1. Ticks(sec) \in Nat /\ Ticks(sec)' = Ticks(sec)
  BY TicksNat DEF TypeOK, Ticks
<1>2. TypeOK'
  BY <1>1 DEF TypeOK, Ready
<1>3. Control'
  BY DEF TypeOK, Control, Ready
<1>4. Verdict'
  BY <1>1 DEF TypeOK, Control, Verdict, Ready
<1>5. CallerOnTime'
  BY <1>1 DEF TypeOK, Control, CallerOnTime, ScannerOnTime, LastRound, ClearBy, Latest, Ready
<1>6. ScannerOnTime'
  BY <1>1 DEF TypeOK, ScannerOnTime, Ready
<1>7. LastRound'
  BY <1>1 DEF TypeOK, Control, CallerOnTime, ScannerOnTime, LastRound, ClearBy, Ready
<1>8. Pace'
  BY <1>1 DEF TypeOK, Control, Pace, Ready
<1> QED
  BY <1>2, <1>3, <1>4, <1>5, <1>6, <1>7, <1>8

\* wait_for finds the scanner ended.
LEMMA WaitReadyInv == IInv /\ WaitReady => IInv'
<1> SUFFICES ASSUME IInv, WaitReady PROVE IInv'
  OBVIOUS
<1> USE TimingAssumption DEF IInv, WaitReady, WaitReturns, callerVars, scannerVars
<1>1. Ticks(sec) \in Nat /\ Ticks(sec)' = Ticks(sec)
  BY TicksNat DEF TypeOK, Ticks
<1>2. TypeOK'
  BY <1>1 DEF TypeOK, Ready
<1>3. Control'
  BY DEF TypeOK, Control, Ready
<1>4. Verdict'
  BY <1>1 DEF TypeOK, Control, Verdict, Ready
<1>5. CallerOnTime'
  BY <1>1 DEF TypeOK, Control, CallerOnTime, ScannerOnTime, LastRound, ClearBy, Latest, Ready
<1>6. ScannerOnTime'
  BY <1>1 DEF TypeOK, ScannerOnTime, Ready
<1>7. LastRound'
  BY <1>1 DEF TypeOK, Control, CallerOnTime, ScannerOnTime, LastRound, ClearBy, Ready
<1>8. Pace'
  BY <1>1 DEF TypeOK, Control, Pace, Ready
<1> QED
  BY <1>2, <1>3, <1>4, <1>5, <1>6, <1>7, <1>8

\* wait_for gives up.
LEMMA WaitTimeoutInv == IInv /\ WaitTimeout => IInv'
<1> SUFFICES ASSUME IInv, WaitTimeout PROVE IInv'
  OBVIOUS
<1> USE TimingAssumption DEF IInv, WaitTimeout, TimeoutIf, WaitReturns, callerVars, scannerVars
<1>1. Ticks(sec) \in Nat /\ Ticks(sec)' = Ticks(sec)
  BY TicksNat DEF TypeOK, Ticks
<1>2. TypeOK'
  BY <1>1 DEF TypeOK, Ready
<1>3. Control'
  BY DEF TypeOK, Control, Ready
<1>4. Verdict'
  BY <1>1 DEF TypeOK, Control, Verdict, Ready
<1>5. CallerOnTime'
  BY <1>1 DEF TypeOK, Control, CallerOnTime, ScannerOnTime, LastRound, ClearBy, Latest, Ready
<1>6. ScannerOnTime'
  BY <1>1 DEF TypeOK, ScannerOnTime, Ready
<1>7. LastRound'
  BY <1>1 DEF TypeOK, Control, CallerOnTime, ScannerOnTime, LastRound, ClearBy, Ready
<1>8. Pace'
  BY <1>1 DEF TypeOK, Control, Pace, Ready
<1> QED
  BY <1>2, <1>3, <1>4, <1>5, <1>6, <1>7, <1>8

\* The flag is cleared.
LEMMA ClearRunningInv == IInv /\ ClearRunning => IInv'
<1> SUFFICES ASSUME IInv, ClearRunning PROVE IInv'
  OBVIOUS
<1> USE TimingAssumption DEF IInv, ClearRunning, ClearTo, callerVars, scannerVars
<1>1. Ticks(sec) \in Nat /\ Ticks(sec)' = Ticks(sec)
  BY TicksNat DEF TypeOK, Ticks
<1>2. TypeOK'
  <2>1. running' \in BOOLEAN
    BY Zenon
  <2>2. callerDue' \in Nat
    BY DEF TypeOK
  <2>3. pc' \in {"idle", "launched", "waiting", "clearing", "joining"}
    BY Zenon
  <2> QED
    BY <2>1, <2>2, <2>3, Zenon DEF TypeOK
<1>3. Control'
  BY DEF TypeOK, Control, Ready
<1>4. Verdict'
  BY <1>1 DEF TypeOK, Control, Verdict, Ready
<1>5. CallerOnTime'
  BY <1>1 DEF TypeOK, Control, CallerOnTime, ScannerOnTime, LastRound, ClearBy, Latest, Ready
<1>6. ScannerOnTime'
  BY <1>1 DEF TypeOK, ScannerOnTime, Ready
<1>7. LastRound'
  BY <1>1 DEF TypeOK, Control, CallerOnTime, ScannerOnTime, LastRound, ClearBy, Ready
<1>8. Pace'
  BY <1>1 DEF TypeOK, Control, Pace, Ready
<1> QED
  BY <1>2, <1>3, <1>4, <1>5, <1>6, <1>7, <1>8

\* The scanner is joined.
LEMMA ReturnInv == IInv /\ Return => IInv'
<1> SUFFICES ASSUME IInv, Return PROVE IInv'
  OBVIOUS
<1> USE TimingAssumption DEF IInv, Return, ReturnIf, callerVars, scannerVars
<1>1. Ticks(sec) \in Nat /\ Ticks(sec)' = Ticks(sec)
  BY TicksNat DEF TypeOK, Ticks
<1>2. TypeOK'
  BY <1>1 DEF TypeOK, Ready
<1>3. Control'
  BY DEF TypeOK, Control, Ready
<1>4. Verdict'
  BY <1>1 DEF TypeOK, Control, Verdict, Ready
<1>5. CallerOnTime'
  BY <1>1 DEF TypeOK, Control, CallerOnTime, ScannerOnTime, LastRound, ClearBy, Latest, Ready
<1>6. ScannerOnTime'
  BY <1>1 DEF TypeOK, ScannerOnTime, Ready
<1>7. LastRound'
  BY <1>1 DEF TypeOK, Control, CallerOnTime, ScannerOnTime, LastRound, ClearBy, Ready
<1>8. Pace'
  BY <1>1 DEF TypeOK, Control, Pace, Ready
<1> QED
  BY <1>2, <1>3, <1>4, <1>5, <1>6, <1>7, <1>8

\* A check begins.
LEMMA StartCheckInv == IInv /\ StartCheck => IInv'
<1> SUFFICES ASSUME IInv, StartCheck PROVE IInv'
  OBVIOUS
<1> USE TimingAssumption DEF IInv, StartCheck, callerVars, scannerVars
<1>1. Ticks(sec) \in Nat /\ Ticks(sec)' = Ticks(sec)
  BY TicksNat DEF TypeOK, Ticks
<1>2. TypeOK'
  BY <1>1 DEF TypeOK, Ready
<1>3. Control'
  BY DEF TypeOK, Control, Ready
<1>4. Verdict'
  BY <1>1 DEF TypeOK, Control, Verdict, Ready
<1>5. CallerOnTime'
  BY <1>1 DEF TypeOK, Control, CallerOnTime, ScannerOnTime, LastRound, ClearBy, Latest, Ready
<1>6. ScannerOnTime'
  BY <1>1 DEF TypeOK, ScannerOnTime, Ready
<1>7. LastRound'
  BY <1>1 DEF TypeOK, Control, CallerOnTime, ScannerOnTime, LastRound, ClearBy, Ready
<1>8. Pace'
  BY <1>1 DEF TypeOK, Control, Pace, Ready
<1> QED
  BY <1>2, <1>3, <1>4, <1>5, <1>6, <1>7, <1>8

\* The scanner sees the cleared flag.
LEMMA SeeStoppedInv == IInv /\ SeeStopped => IInv'
<1> SUFFICES ASSUME IInv, SeeStopped PROVE IInv'
  OBVIOUS
<1> USE TimingAssumption DEF IInv, SeeStopped, Finish, callerVars, scannerVars
<1>1. Ticks(sec) \in Nat /\ Ticks(sec)' = Ticks(sec)
  BY TicksNat DEF TypeOK, Ticks
<1>2. TypeOK'
  BY <1>1 DEF TypeOK, Ready
<1>3. Control'
  BY DEF TypeOK, Control, Ready
<1>4. Verdict'
  BY <1>1 DEF TypeOK, Control, Verdict, Ready
<1>5. CallerOnTime'
  BY <1>1 DEF TypeOK, Control, CallerOnTime, ScannerOnTime, LastRound, ClearBy, Latest, Ready
<1>6. ScannerOnTime'
  BY <1>1 DEF TypeOK, ScannerOnTime, Ready
<1>7. LastRound'
  BY <1>1 DEF TypeOK, Control, CallerOnTime, ScannerOnTime, LastRound, ClearBy, Ready
<1>8. Pace'
  BY <1>1 DEF TypeOK, Control, Pace, Ready
<1> QED
  BY <1>2, <1>3, <1>4, <1>5, <1>6, <1>7, <1>8

\* A check hits.
LEMMA CheckHitsInv == IInv /\ CheckHits => IInv'
<1> SUFFICES ASSUME IInv, CheckHits PROVE IInv'
  OBVIOUS
<1> USE TimingAssumption DEF IInv, CheckHits, Finish, callerVars, scannerVars
<1>1. Ticks(sec) \in Nat /\ Ticks(sec)' = Ticks(sec)
  BY TicksNat DEF TypeOK, Ticks
<1>2. TypeOK'
  BY <1>1 DEF TypeOK, Ready
<1>3. Control'
  BY DEF TypeOK, Control, Ready
<1>4. Verdict'
  BY <1>1 DEF TypeOK, Control, Verdict, Ready
<1>5. CallerOnTime'
  BY <1>1 DEF TypeOK, Control, CallerOnTime, ScannerOnTime, LastRound, ClearBy, Latest, Ready
<1>6. ScannerOnTime'
  BY <1>1 DEF TypeOK, ScannerOnTime, Ready
<1>7. LastRound'
  BY <1>1 DEF TypeOK, Control, CallerOnTime, ScannerOnTime, LastRound, ClearBy, Ready
<1>8. Pace'
  BY <1>1 DEF TypeOK, Control, Pace, Ready
<1> QED
  BY <1>2, <1>3, <1>4, <1>5, <1>6, <1>7, <1>8

\* A check throws.
LEMMA CheckThrowsInv == IInv /\ CheckThrows => IInv'
<1> SUFFICES ASSUME IInv, CheckThrows PROVE IInv'
  OBVIOUS
<1> USE TimingAssumption DEF IInv, CheckThrows, Finish, callerVars, scannerVars
<1>1. Ticks(sec) \in Nat /\ Ticks(sec)' = Ticks(sec)
  BY TicksNat DEF TypeOK, Ticks
<1>2. TypeOK'
  BY <1>1 DEF TypeOK, Ready
<1>3. Control'
  BY DEF TypeOK, Control, Ready
<1>4. Verdict'
  BY <1>1 DEF TypeOK, Control, Verdict, Ready
<1>5. CallerOnTime'
  BY <1>1 DEF TypeOK, Control, CallerOnTime, ScannerOnTime, LastRound, ClearBy, Latest, Ready
<1>6. ScannerOnTime'
  BY <1>1 DEF TypeOK, ScannerOnTime, Ready
<1>7. LastRound'
  BY <1>1 DEF TypeOK, Control, CallerOnTime, ScannerOnTime, LastRound, ClearBy, Ready
<1>8. Pace'
  BY <1>1 DEF TypeOK, Control, Pace, Ready
<1> QED
  BY <1>2, <1>3, <1>4, <1>5, <1>6, <1>7, <1>8

\* A check misses and the sleep begins.
LEMMA CheckMissesInv == IInv /\ CheckMisses => IInv'
<1> SUFFICES ASSUME IInv, CheckMisses PROVE IInv'
  OBVIOUS
<1> USE TimingAssumption DEF IInv, CheckMisses, MissAndSleep, callerVars, scannerVars
<1>1. Ticks(sec) \in Nat /\ Ticks(sec)' = Ticks(sec)
  BY TicksNat DEF TypeOK, Ticks
<1>2. TypeOK'
  BY <1>1 DEF TypeOK, Ready
<1>3. Control'
  BY DEF TypeOK, Control, Ready
<1>4. Verdict'
  BY <1>1 DEF TypeOK, Control, Verdict, Ready
<1>5. CallerOnTime'
  BY <1>1 DEF TypeOK, Control, CallerOnTime, ScannerOnTime, LastRound, ClearBy, Latest, Ready
<1>6. ScannerOnTime'
  BY <1>1 DEF TypeOK, ScannerOnTime, Ready
<1>7. LastRound'
  BY <1>1 DEF TypeOK, Control, CallerOnTime, ScannerOnTime, LastRound, ClearBy, Ready
<1>8. Pace'
  BY <1>1 DEF TypeOK, Control, Pace, Ready
<1> QED
  BY <1>2, <1>3, <1>4, <1>5, <1>6, <1>7, <1>8

\* The sleep ends.
LEMMA WakeInv == IInv /\ Wake => IInv'
<1> SUFFICES ASSUME IInv, Wake PROVE IInv'
  OBVIOUS
<1> USE TimingAssumption DEF IInv, Wake, callerVars, scannerVars
<1>1. Ticks(sec) \in Nat /\ Ticks(sec)' = Ticks(sec)
  BY TicksNat DEF TypeOK, Ticks
<1>2. TypeOK'
  BY <1>1 DEF TypeOK, Ready
<1>3. Control'
  BY DEF TypeOK, Control, Ready
<1>4. Verdict'
  BY <1>1 DEF TypeOK, Control, Verdict, Ready
<1>5. CallerOnTime'
  BY <1>1 DEF TypeOK, Control, CallerOnTime, ScannerOnTime, LastRound, ClearBy, Latest, Ready
<1>6. ScannerOnTime'
  BY <1>1 DEF TypeOK, ScannerOnTime, Ready
<1>7. LastRound'
  BY <1>1 DEF TypeOK, Control, CallerOnTime, ScannerOnTime, LastRound, ClearBy, Ready
<1>8. Pace'
  BY <1>1 DEF TypeOK, Control, Pace, Ready
<1> QED
  BY <1>2, <1>3, <1>4, <1>5, <1>6, <1>7, <1>8

\* Time passes.
LEMMA TickInv == IInv /\ Tick => IInv'
<1> SUFFICES ASSUME IInv, Tick PROVE IInv'
  OBVIOUS
<1> USE TimingAssumption DEF IInv, Tick, CallerMayWait, ScannerMayWait, callerVars, scannerVars
<1>1. Ticks(sec) \in Nat /\ Ticks(sec)' = Ticks(sec)
  BY TicksNat DEF TypeOK, Ticks
<1>2. TypeOK'
  BY <1>1 DEF TypeOK, Ready
<1>3. Control'
  BY DEF TypeOK, Control, Ready
<1>4. Verdict'
  BY <1>1 DEF TypeOK, Control, Verdict, Ready
<1>5. CallerOnTime'
  BY <1>1 DEF TypeOK, Control, CallerOnTime, ScannerOnTime, LastRound, ClearBy, Latest, Ready
<1>6. ScannerOnTime'
  BY <1>1 DEF TypeOK, ScannerOnTime, Ready
<1>7. LastRound'
  BY <1>1 DEF TypeOK, Control, CallerOnTime, ScannerOnTime, LastRound, ClearBy, Ready
<1>8. Pace'
  BY <1>1 DEF TypeOK, Control, Pace, Ready
<1> QED
  BY <1>2, <1>3, <1>4, <1>5, <1>6, <1>7, <1>8
-----------------------------------------------------------------------------
(* Theorems of the specification. *)

\* The inductive invariant holds of every behaviour.
LEMMA Invariance == Spec => []IInv
<1>1. Init => IInv
  BY InitInv
<1>2. IInv /\ [Next]_vars => IInv'
  <2> SUFFICES ASSUME IInv, [Next]_vars PROVE IInv'
    OBVIOUS
  <2>1. CASE \E s \in Secs : Launch(s)
    BY <2>1, LaunchInv
  <2>2. CASE Caller
    BY <2>2, BeginWaitInv, WaitReadyInv, WaitTimeoutInv, ClearRunningInv, ReturnInv
       DEF Caller
  <2>3. CASE Scanner
    BY <2>3, StartCheckInv, SeeStoppedInv, CheckHitsInv, CheckThrowsInv,
       CheckMissesInv, WakeInv
       DEF Scanner
  <2>4. CASE Tick
    BY <2>4, TickInv
  <2>5. CASE UNCHANGED vars
    BY <2>5
       DEF vars, callerVars, scannerVars, IInv, TypeOK, Control, Verdict,
           CallerOnTime, ScannerOnTime, LastRound, Pace, ClearBy, Latest, Ticks
  <2> QED
    BY <2>1, <2>2, <2>3, <2>4, <2>5 DEF Next
<1> QED
  BY <1>1, <1>2, PTL DEF Spec

\* Every variable keeps its type; in particular no deadline is ever negative.
THEOREM TypeCorrect == Spec => []TypeOK
<1>1. IInv => TypeOK
  BY DEF IInv
<1> QED
  BY <1>1, Invariance, PTL

\* The scanner thread never outlives the frame it refers to.
THEOREM FrameSafety == Spec => []NoUseAfterReturn
<1>1. IInv => NoUseAfterReturn
  BY DEF IInv, Control, NoUseAfterReturn
<1> QED
  BY <1>1, Invariance, PTL

\* TRUE is returned only when the checker ended the scan, not the flag.
THEOREM TrueVerdict == Spec => []TrueMeansScanEnded
<1>1. IInv => TrueMeansScanEnded
  BY DEF IInv, Verdict, TrueMeansScanEnded
<1> QED
  BY <1>1, Invariance, PTL

\* FALSE is returned only when the scan was not over at the deadline.
THEOREM FalseVerdict == Spec => []EarlyHitReported
<1>1. IInv => EarlyHitReported
  BY DEF IInv, TypeOK, Control, Verdict, EarlyHitReported
<1> QED
  BY <1>1, Invariance, PTL

\* A call is over one round after its timeout, at the latest.
THEOREM Punctuality == Spec => []ReturnsInTime
<1>1. IInv => ReturnsInTime
  <2> SUFFICES ASSUME IInv PROVE now <= Latest
    BY DEF ReturnsInTime
  <2>1. Ticks(sec) \in Nat
    BY TicksNat DEF IInv, TypeOK
  <2> QED
    BY <2>1, TimingAssumption
       DEF IInv, TypeOK, Control, CallerOnTime, ScannerOnTime, LastRound, ClearBy, Latest
<1> QED
  BY <1>1, Invariance, PTL

-----------------------------------------------------------------------------
(* Progress: what a call does is finite, and it always has something to do.  *)

\* A due time never comes before the thing it is a deadline of.
Schedule ==
    /\ pc = "waiting" /\ sc # "done" => deadline <= callerDue
    /\ sc = "sleeping" => wakeAt <= scannerDue

\* The guards of the steps of the caller and of the scanner.
CallerReady ==
    \/ pc \in {"launched", "clearing"}
    \/ pc = "waiting" /\ (Ready \/ now >= deadline)
    \/ pc = "joining" /\ Ready
ScannerReady == sc \in {"test", "checking"} \/ (sc = "sleeping" /\ now >= wakeAt)

\* A call under way can take a step, or time can pass.
CallCanMove ==
    pc # "idle" => CallerReady \/ ScannerReady \/ (CallerMayWait /\ ScannerMayWait)

\* No sleep of the scanner ends later than this.
Horizon == Latest + Second + MaxLag

\* The time the scanner has used up, the sleep in hand included.
Spent == IF sc = "sleeping" /\ wakeAt > now THEN wakeAt ELSE now

CallerLeft ==
    CASE pc = "launched" -> 4 [] pc = "waiting" -> 3 [] pc = "clearing" -> 2
      [] pc = "joining" -> 1 [] OTHER -> 0
ScannerLeft ==
    CASE sc = "sleeping" -> 3 [] sc = "test" -> 2 [] sc = "checking" -> 1 [] OTHER -> 0

\* A bound on the steps and ticks a call still takes.
Budget == 5 * (Horizon - Spent) + (Horizon - now) + ScannerLeft + CallerLeft

BudgetFalls == pc # "idle" => Budget' < Budget

\* The schedule is kept by every step.
LEMMA ScheduleInv == Spec => []Schedule
<1>1. Init => Schedule
  BY DEF Init, Schedule
<1>2. TypeOK /\ Schedule /\ [Next]_vars => Schedule'
  <2> SUFFICES ASSUME TypeOK, Schedule, [Next]_vars PROVE Schedule'
    OBVIOUS
  <2> USE TimingAssumption DEF TypeOK, Schedule, callerVars, scannerVars
  <2>1. CASE \E s \in Secs : Launch(s)
    BY <2>1 DEF Launch
  <2>2. CASE BeginWait
    <3>1. Ticks(sec) \in Nat
      BY TicksNat
    <3> QED
      BY <2>2, <3>1 DEF BeginWait, BeginWaitWith, Ready
  <2>3. CASE WaitReady \/ WaitTimeout \/ ClearRunning \/ Return
    BY <2>3
       DEF WaitReady, WaitTimeout, TimeoutIf, WaitReturns, ClearRunning, ClearTo,
           Return, ReturnIf
  <2>4. CASE StartCheck \/ CheckMisses \/ Wake \/ Tick
    BY <2>4 DEF StartCheck, CheckMisses, MissAndSleep, Wake, Tick
  <2>5. CASE SeeStopped \/ CheckHits \/ CheckThrows
    BY <2>5 DEF SeeStopped, CheckHits, CheckThrows, Finish
  <2>6. CASE UNCHANGED vars
    BY <2>6 DEF vars
  <2> QED
    BY <2>1, <2>2, <2>3, <2>4, <2>5, <2>6 DEF Next, Caller, Scanner
<1>3. Spec => []TypeOK
  BY TypeCorrect
<1> QED
  BY <1>1, <1>2, <1>3, PTL DEF Spec

\* The bounds on time never stop a call: whenever a thread is due it has a step to
\* take, so a call on time is not one that the clock has frozen.
THEOREM NoTimelock == Spec => []CallCanMove
<1>1. IInv /\ Schedule => CallCanMove
  <2> SUFFICES ASSUME IInv, Schedule, pc # "idle",
                      ~CallerReady, ~ScannerReady
               PROVE  CallerMayWait /\ ScannerMayWait
    BY DEF CallCanMove
  <2> USE DEF IInv, TypeOK, Schedule, Ready
  <2>1. CallerMayWait
    BY DEF CallerReady, CallerMayWait
  <2>2. ScannerMayWait
    BY DEF Control, ScannerReady, ScannerMayWait
  <2> QED
    BY <2>1, <2>2
<1> QED
  BY <1>1, Invariance, ScheduleInv, PTL

\* The budget is a natural number.
LEMMA BudgetNat ==
    IInv /\ Schedule => /\ Budget \in Nat
                        /\ Latest \in Nat /\ Spent \in Nat
                        /\ ScannerLeft \in 0 .. 3 /\ CallerLeft \in 0 .. 4
<1> SUFFICES ASSUME IInv, Schedule
             PROVE  /\ Budget \in Nat
                    /\ Latest \in Nat /\ Spent \in Nat
                    /\ ScannerLeft \in 0 .. 3 /\ CallerLeft \in 0 .. 4
  OBVIOUS
<1> USE TimingAssumption DEF IInv, TypeOK
<1>1. Latest \in Nat
  <2>1. Ticks(sec) \in Nat
    BY TicksNat
  <2> QED
    BY <2>1 DEF Latest
<1>2. now <= Latest
  <2>1. Ticks(sec) \in Nat
    BY TicksNat
  <2> QED
    BY <2>1 DEF Control, CallerOnTime, ScannerOnTime, LastRound, ClearBy, Latest
<1>3. Spent \in Nat /\ Spent <= Horizon
  BY <1>1, <1>2 DEF Schedule, ScannerOnTime, Spent, Horizon
<1>4. ScannerLeft \in 0 .. 3 /\ CallerLeft \in 0 .. 4
  BY DEF ScannerLeft, CallerLeft
<1>5. Horizon \in Nat /\ now <= Horizon
  BY <1>1, <1>2 DEF Horizon
<1> QED
  BY <1>1, <1>3, <1>4, <1>5 DEF Budget

\* What is left over is compared part by part: a step of the caller, of the scanner,
\* the beginning of a sleep, a tick.
LEMMA LessLeft ==
    ASSUME NEW h \in Int, NEW s \in Int, NEW n \in Int, NEW a \in Int, NEW b \in Int,
           NEW s2 \in Int, NEW n2 \in Int, NEW a2 \in Int, NEW b2 \in Int,
           \/ s2 = s /\ n2 = n /\ a2 = a /\ b2 <= b - 1
           \/ s2 = s /\ n2 = n /\ a2 <= a - 1 /\ b2 = b
           \/ s2 >= s + 1 /\ n2 = n /\ a2 = a + 2 /\ b2 = b
           \/ s2 >= s /\ n2 = n + 1 /\ a2 = a /\ b2 = b
    PROVE  5 * (h - s2) + (h - n2) + a2 + b2 < 5 * (h - s) + (h - n) + a + b
OBVIOUS

\* Each step of a call, each tick too, uses some of it up.
LEMMA BudgetStep ==
    ASSUME IInv, Schedule, IInv', Schedule', [Next]_vars, pc # "idle", ~UNCHANGED vars
    PROVE  Budget' < Budget
<1> USE TimingAssumption DEF callerVars, scannerVars
<1>1. /\ Latest \in Nat /\ Spent \in Nat /\ now \in Nat /\ wakeAt \in Nat
      /\ ScannerLeft \in 0 .. 3 /\ CallerLeft \in 0 .. 4
  BY BudgetNat DEF IInv, TypeOK
<1>2. /\ Spent' \in Nat /\ now' \in Nat
      /\ ScannerLeft' \in 0 .. 3 /\ CallerLeft' \in 0 .. 4
  <2>1. (IInv /\ Schedule => /\ Budget \in Nat
                             /\ Latest \in Nat /\ Spent \in Nat
                             /\ ScannerLeft \in 0 .. 3 /\ CallerLeft \in 0 .. 4)'
    BY BudgetNat, PTL
  <2> QED
    BY <2>1 DEF IInv, TypeOK
<1>3. \A s \in Secs : ~Launch(s)
  BY DEF Launch
<1>4. ASSUME Latest' = Latest,
             \/ /\ Spent' = Spent /\ now' = now
                /\ ScannerLeft' = ScannerLeft /\ CallerLeft' <= CallerLeft - 1
             \/ /\ Spent' = Spent /\ now' = now
                /\ ScannerLeft' <= ScannerLeft - 1 /\ CallerLeft' = CallerLeft
             \/ /\ Spent' >= Spent + 1 /\ now' = now
                /\ ScannerLeft' = ScannerLeft + 2 /\ CallerLeft' = CallerLeft
             \/ /\ Spent' >= Spent /\ now' = now + 1
                /\ ScannerLeft' = ScannerLeft /\ CallerLeft' = CallerLeft
      PROVE  Budget' < Budget
  <2>1. Horizon \in Int /\ Horizon' = Horizon
    BY <1>1, <1>4 DEF Horizon
  <2>2. /\ Spent \in Int /\ now \in Int /\ ScannerLeft \in Int /\ CallerLeft \in Int
        /\ Spent' \in Int /\ now' \in Int /\ ScannerLeft' \in Int /\ CallerLeft' \in Int
    BY <1>1, <1>2
  <2>3. 5 * (Horizon - Spent') + (Horizon - now') + ScannerLeft' + CallerLeft'
          < 5 * (Horizon - Spent) + (Horizon - now) + ScannerLeft + CallerLeft
    BY ONLY <1>4, <2>1, <2>2, LessLeft
  <2> QED
    BY <2>1, <2>3, Zenon DEF Budget
<1>5. CASE Caller
  <2>1. CallerLeft' <= CallerLeft - 1 /\ now' = now /\ sec' = sec /\ sc' = sc /\ wakeAt' = wakeAt
    BY <1>5
       DEF Caller, BeginWait, BeginWaitWith, WaitReady, WaitTimeout, TimeoutIf, WaitReturns,
           ClearRunning, ClearTo, Return, ReturnIf, CallerLeft
  <2>2. Latest' = Latest /\ Spent' = Spent /\ ScannerLeft' = ScannerLeft
    BY <2>1 DEF Latest, Ticks, Spent, ScannerLeft
  <2> QED
    BY <1>4, <2>1, <2>2, Zenon
<1>6. ASSUME Scanner \/ Tick
      PROVE  Latest' = Latest /\ CallerLeft' = CallerLeft
  <2>1. sec' = sec /\ pc' = pc
    BY <1>6
       DEF Scanner, StartCheck, SeeStopped, CheckHits, CheckThrows, Finish, CheckMisses,
           MissAndSleep, Wake, Tick
  <2> QED
    BY <2>1 DEF Latest, Ticks, CallerLeft
<1>7. CASE StartCheck \/ SeeStopped \/ CheckHits \/ CheckThrows \/ Wake
  <2>1. now' = now /\ ScannerLeft' <= ScannerLeft - 1 /\ Spent' = Spent
    BY <1>7, <1>1
       DEF StartCheck, SeeStopped, CheckHits, CheckThrows, Finish, Wake, ScannerLeft, Spent
  <2>2. Latest' = Latest /\ CallerLeft' = CallerLeft
    BY <1>6, <1>7 DEF Scanner
  <2> QED
    BY <1>4, <2>1, <2>2, Zenon
<1>8. CASE CheckMisses
  <2>1. now' = now /\ ScannerLeft' = ScannerLeft + 2 /\ Spent' >= Spent + 1
    BY <1>8, <1>1 DEF CheckMisses, MissAndSleep, ScannerLeft, Spent
  <2>2. Latest' = Latest /\ CallerLeft' = CallerLeft
    BY <1>6, <1>8 DEF Scanner
  <2> QED
    BY <1>4, <2>1, <2>2, Zenon
<1>9. CASE Tick
  <2>1. now' = now + 1 /\ ScannerLeft' = ScannerLeft /\ Spent' >= Spent
    BY <1>9, <1>1 DEF Tick, ScannerLeft, Spent
  <2>2. Latest' = Latest /\ CallerLeft' = CallerLeft
    BY <1>6, <1>9
  <2> QED
    BY <1>4, <2>1, <2>2, Zenon
<1> QED
  BY <1>3, <1>5, <1>7, <1>8, <1>9 DEF Next, Scanner

\* A call is a finite affair whatever the checker answers: every step of either
\* thread and every tick uses up a part of a budget that is a natural number.
THEOREM CallIsFinite == Spec => [](Budget \in Nat) /\ [][BudgetFalls]_vars
<1>1. IInv /\ Schedule => Budget \in Nat
  BY BudgetNat
<1>2. IInv /\ Schedule /\ IInv' /\ Schedule' /\ [Next]_vars => [BudgetFalls]_vars
  BY BudgetStep DEF BudgetFalls
<1> QED
  BY <1>1, <1>2, Invariance, ScheduleInv, PTL DEF Spec
-----------------------------------------------------------------------------
(* The refinement. *)

\* Each step of the two threads is a step of the loop, or is not seen by the caller.
LEMMA LoopStep ==
    ASSUME IInv, [Next]_vars
    PROVE  [Loop!Next]_<<now, sec, pc # "idle", sc = "checking", wakeAt, outcome,
                         pc # "idle" /\ ~running, result>>
<1> USE DEF Loop!Next, callerVars, scannerVars
<1>1. ASSUME NEW s \in Secs, Launch(s)
      PROVE  Loop!Ask
  BY <1>1 DEF Launch, Loop!Ask, IInv, Control
<1>2. CASE BeginWait \/ WaitReady \/ WaitTimeout
  BY <1>2 DEF BeginWait, BeginWaitWith, WaitReady, WaitTimeout, TimeoutIf, WaitReturns
<1>3. ASSUME ClearRunning
      PROVE  Loop!Stop
  <2>1. outcome # "none" \/ now >= sec * Second
    <3>1. sec * Second \in Int /\ sec * Second <= Ticks(sec) /\ Ticks(sec) \in Nat
      BY TicksEnough, TicksNat DEF IInv, TypeOK
    <3>2. status = "timeout" => Ticks(sec) <= deadline /\ deadline <= now
      BY <1>3 DEF ClearRunning, ClearTo, IInv, Verdict, Pace
    <3>3. status # "timeout" => outcome # "none"
      BY <1>3 DEF ClearRunning, ClearTo, IInv, TypeOK, Verdict
    <3> QED
      BY <3>1, <3>2, <3>3 DEF IInv, TypeOK
  <2> QED
    BY <1>3, <2>1 DEF ClearRunning, ClearTo, Loop!Stop, Loop!TimeIsUp, IInv, Control
<1>4. ASSUME Return
      PROVE  Loop!Answer
  <2>1. result' = "false" => now >= sec * Second
    <3>1. sec * Second \in Int /\ sec * Second <= Ticks(sec) /\ Ticks(sec) \in Nat
      BY TicksEnough, TicksNat DEF IInv, TypeOK
    <3>2. status # "ready" => Ticks(sec) <= deadline /\ deadline <= now
      BY <1>4 DEF Return, ReturnIf, IInv, TypeOK, Verdict, Pace
    <3> QED
      BY <1>4, <3>1, <3>2 DEF Return, ReturnIf, IInv, TypeOK
  <2>2. sc = "done" /\ outcome # "none" /\ (result' = "true" => outcome # "stopped")
    BY <1>4 DEF Return, ReturnIf, Ready, IInv, Control, Verdict
  <2> QED
    BY <1>4, <2>1, <2>2
       DEF Return, ReturnIf, Loop!Answer, Loop!TimeIsUp, IInv, Control
<1>5. ASSUME StartCheck
      PROVE  Loop!Check
  BY <1>5 DEF StartCheck, Loop!Check, IInv, Control, TypeOK, Pace
<1>6. ASSUME SeeStopped \/ CheckHits \/ CheckThrows
      PROVE  Loop!Quit \/ Loop!Hit \/ Loop!Throw
  BY <1>6
     DEF SeeStopped, CheckHits, CheckThrows, Finish, Loop!Quit, Loop!Hit, Loop!Throw,
         Loop!EndPolling, IInv, Control
<1>7. ASSUME CheckMisses
      PROVE  Loop!Miss
  BY <1>7 DEF CheckMisses, MissAndSleep, Loop!Miss
<1>8. CASE Wake
  BY <1>8 DEF Wake
<1>9. ASSUME Tick
      PROVE  Loop!Tick
  BY <1>9 DEF Tick, Loop!Tick
<1>10. CASE UNCHANGED vars
  BY <1>10 DEF vars
<1> QED
  BY <1>1, <1>2, <1>3, <1>4, <1>5, <1>6, <1>7, <1>8, <1>9, <1>10 DEF Next, Caller, Scanner

\* However the threads are delayed the caller sees one loop: polls a second apart,
\* none after the answer, no answer FALSE before the time is up.
THEOREM OneLoop == Spec => PollsInTurn
<1>1. Init => Loop!Init
  BY DEF Init, Loop!Init
<1> QED
  BY <1>1, LoopStep, Invariance, PTL DEF Spec, PollsInTurn, Loop!Spec, Loop!vars

=============================================================================
