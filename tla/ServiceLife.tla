---------------------------- MODULE ServiceLife ----------------------------
(* What the owner of an rpc_base may rely on: a service that is off, takes   *)
(* requests while it is on, goes off again when none is left, and is gone in *)
(* the end, unless the process dies.                                         *)
EXTENDS Naturals

CONSTANT Capacity   \* requests in progress at a time

VARIABLES life, pending

Init == life = "off" /\ pending = 0

TurnOn == life = "off" /\ life' = "on" /\ UNCHANGED pending

Enter == life = "on" /\ pending < Capacity /\ pending' = pending + 1 /\ UNCHANGED life

Leave == life = "on" /\ pending > 0 /\ pending' = pending - 1 /\ UNCHANGED life

TurnOff == life = "on" /\ pending = 0 /\ life' = "off" /\ UNCHANGED pending

Discard == life = "off" /\ life' = "gone" /\ UNCHANGED pending

Die == life # "dead" /\ life' = "dead" /\ UNCHANGED pending

Spec == Init /\ [][TurnOn \/ Enter \/ Leave \/ TurnOff \/ Discard \/ Die]_<<life, pending>>

=============================================================================
