---------------------------- MODULE PollingLoop ----------------------------
(* What the caller of scan_wait_for may rely on, told as one loop without     *)
(* threads: a call polls a checker, pauses for a second after every miss,     *)
(* stops when the checker ends the scan or the timeout has passed, and only   *)
(* then answers.                                                              *)
EXTENDS Integers

CONSTANTS Second, Secs

VARIABLES
    now,        \* time since the call began
    sec,        \* its timeout in seconds
    open,       \* a call is in progress
    checking,   \* the checker runs
    next,       \* when it may run again
    over,       \* how the polling ended
    stopped,    \* no further check may begin once the one under way is over
    answer

vars == <<now, sec, open, checking, next, over, stopped, answer>>

TimeIsUp == now >= sec * Second

Init ==
    /\ now = 0 /\ sec \in Secs /\ next = 0
    /\ ~open /\ ~checking /\ ~stopped
    /\ over = "none" /\ answer = "none"

Ask ==
    /\ ~open /\ open'
    /\ now' = 0 /\ sec' \in Secs /\ next' = 0
    /\ ~checking' /\ ~stopped'
    /\ over' = "none" /\ answer' = "none"

Check ==
    /\ open /\ ~stopped /\ over = "none" /\ now >= next
    /\ ~checking /\ checking'
    /\ UNCHANGED <<now, sec, open, next, over, stopped, answer>>

Miss ==
    /\ checking /\ ~checking'
    /\ next' = now + Second
    /\ UNCHANGED <<now, sec, open, over, stopped, answer>>

EndPolling(how) ==
    /\ open /\ over = "none"
    /\ over' = how
    /\ ~checking'
    /\ UNCHANGED <<now, sec, open, next, stopped, answer>>

Hit == checking /\ EndPolling("hit")
Throw == checking /\ EndPolling("threw")
Quit == ~checking /\ stopped /\ EndPolling("stopped")

Stop ==
    /\ open /\ ~stopped /\ stopped'
    /\ over # "none" \/ TimeIsUp
    /\ UNCHANGED <<now, sec, open, checking, next, over, answer>>

Answer ==
    /\ open /\ stopped /\ ~checking /\ over # "none"
    /\ ~open' /\ ~stopped'
    /\ answer' \in {"true", "false"}
    /\ answer' = "true" => over # "stopped"
    /\ answer' = "false" => TimeIsUp
    /\ UNCHANGED <<now, sec, checking, next, over>>

Tick == open /\ now' = now + 1
        /\ UNCHANGED <<sec, open, checking, next, over, stopped, answer>>

Next == Ask \/ Check \/ Miss \/ Hit \/ Throw \/ Quit \/ Stop \/ Answer \/ Tick

Spec == Init /\ [][Next]_vars

=============================================================================
