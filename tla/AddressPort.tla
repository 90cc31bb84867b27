---------------------------- MODULE AddressPort ----------------------------
(* options::get_address_port_string (options.cpp:177-212): an address, a      *)
(* netmask and a port become one text, the netmask as the length of its       *)
(* prefix.  The loop tries the masks one by one, from the one of a host to    *)
(* the empty one.  A netmask is a number here: the texts it is compared with  *)
(* are the decimal bytes of one, and no two numbers have the same.  After     *)
(* tolower, a text in capitals is the same argument.                          *)
EXTENDS Integers

CONSTANTS
    Width,      \* bits of an address: 32 in the code
    Any,        \* the text "any"
    Malformed   \* a text that is the netmask of no number

ASSUME WidthAssumption == Width \in Nat \ {0}

VARIABLES
    ip, port,   \* the argument is given, that is, not "any"
    netmask,
    pastEnd,    \* what 1 << Width is in this build: undefined in C++
    pc,
    n,
    ss          \* the text so far: which parts it has, and the length if any

vars == <<ip, port, netmask, pastEnd, pc, n, ss>>

\* 1 << k, as long as it fits: each place to the left doubles it.
PowerOfTwo[k \in Nat] == IF k = 0 THEN 1 ELSE 2 * PowerOfTwo[k - 1]

Masks == 0 .. PowerOfTwo[Width] - 1
None == -1

\* A shift by the width gives 1 where the processor takes the distance modulo the
\* width, and 0 where it does not, or where the compiler has unrolled the loop.
Init ==
    /\ ip \in BOOLEAN
    /\ port \in BOOLEAN
    /\ netmask \in Masks \cup {Any, Malformed}
    /\ pastEnd \in {0, 1}
    /\ pc = "start"
    /\ n = 0
    /\ ss = [ip |-> FALSE, length |-> None, port |-> FALSE]

SameArguments == UNCHANGED <<ip, port, netmask, pastEnd>>

\* Lines 186-189.
Begin ==
    /\ pc = "start"
    /\ pc' = IF netmask = Any THEN "port" ELSE "loop"
    /\ ss' = [ss EXCEPT !.ip = ip]
    /\ UNCHANGED n
    /\ SameArguments

Shifted == IF n = Width THEN pastEnd ELSE PowerOfTwo[n]

\* Fault: the mask is short of the power of two itself.
MaskUncorrected == (PowerOfTwo[Width] - 1 - Shifted) % PowerOfTwo[Width]
\* Line 193, in unsigned arithmetic.
mask == (PowerOfTwo[Width] - 1 - (Shifted - 1)) % PowerOfTwo[Width]

\* Lines 197-202; a match without a bit to leave out is passed over.
Match ==
    /\ pc = "loop"
    /\ n \in 1 .. Width
    /\ mask = netmask
    /\ pc' = "port"
    /\ ss' = [ss EXCEPT !.length = Width - n]
    /\ UNCHANGED n
    /\ SameArguments

\* Line 203.
TryNext ==
    /\ pc = "loop"
    /\ n <= Width
    /\ mask # netmask \/ n = 0
    /\ n' = n + 1
    /\ UNCHANGED <<pc, ss>>
    /\ SameArguments

\* Lines 205-206: no mask is the one given, and the text is empty.
GiveUp ==
    /\ pc = "loop"
    /\ n > Width
    /\ pc' = "failed"
    /\ ss' = [ip |-> FALSE, length |-> None, port |-> FALSE]
    /\ UNCHANGED n
    /\ SameArguments

\* Lines 208-211.
AppendPort ==
    /\ pc = "port"
    /\ pc' = "done"
    /\ ss' = [ss EXCEPT !.port = port]
    /\ UNCHANGED n
    /\ SameArguments

Next == Begin \/ Match \/ TryNext \/ GiveUp \/ AppendPort

Spec == Init /\ [][Next]_vars

-----------------------------------------------------------------------------
(* The property. *)

\* validation.cpp:75-78: the lengths a netmask may have.
validate_netmask(length) == length > 0 /\ length <= Width

PrefixMask(length) == PowerOfTwo[Width] - PowerOfTwo[Width - length]

\* In every build the length stands for the netmask that was given, and only a
\* netmask that is no prefix, or an end of the range, gives an empty text; but the
\* mask of a host, a valid netmask, may come out as the length of the empty one.
LengthExact ==
    /\ ss.length # None =>
          \/ netmask = PrefixMask(ss.length)
          \/ netmask = PrefixMask(Width) /\ ss.length = 0
    /\ pc = "failed" =>
          \A length \in 0 .. Width - 1 : validate_netmask(length) => netmask # PrefixMask(length)
    /\ pc = "done" => (ss.length = None <=> netmask = Any)

=============================================================================
