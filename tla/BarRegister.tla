---------------------------- MODULE BarRegister ----------------------------
(***************************************************************************)
(* What a reader of an api log may rely on for progress bars: of the       *)
(* successive values that the broker has held for a bar it is shown some,  *)
(* never an older one after a newer one.                                   *)
(***************************************************************************)
EXTENDS Naturals, Sequences

CONSTANTS
  Bar,
  Values     \* per bar, how many values it may be given

VARIABLES
  held,      \* per bar, the values the broker has held, in this order
  shown      \* per bar, the position in held of the value last shown

vars == <<held, shown>>

Init ==
  /\ held = [b \in Bar |-> <<>>]
  /\ shown = [b \in Bar |-> 0]

Hold(b) ==
  /\ \E v \in 1..Values[b] : held' = [held EXCEPT ![b] = Append(@, v)]
  /\ UNCHANGED shown

Show(b) ==
  /\ \E i \in shown[b]..Len(held[b]) : shown' = [shown EXCEPT ![b] = i]
  /\ UNCHANGED held

Next == \E b \in Bar : Hold(b) \/ Show(b)

Spec == Init /\ [][Next]_vars
=============================================================================
