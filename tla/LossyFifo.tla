----------------------------- MODULE LossyFifo -----------------------------
(***************************************************************************)
(* What a reader of an api log may rely on: each work's events appear in   *)
(* the order in which it reported them, each at most once, some perhaps    *)
(* missing; events of different works mix in any order.                    *)
(***************************************************************************)
EXTENDS Naturals, Sequences, SequencesExt

CONSTANTS
  Work,
  Events     \* per work, how many events it may report

VARIABLES
  posted,    \* how many events each work has reported: its events 1..posted
  log        \* pairs of a work and the number of one of its events

vars == <<posted, log>>

\* The last event of w in the log.
Latest(w) ==
  CHOOSE n \in 0..posted[w] :
    /\ n = 0 \/ <<w, n>> \in ToSet(log)
    /\ \A m \in 1..posted[w] : <<w, m>> \in ToSet(log) => m <= n

Init ==
  /\ posted = [w \in Work |-> 0]
  /\ log = <<>>

Report(w) ==
  /\ posted[w] < Events[w]
  /\ posted' = [posted EXCEPT ![w] = @ + 1]
  /\ UNCHANGED log

Deliver(w) ==
  /\ \E n \in (Latest(w) + 1)..posted[w] : log' = Append(log, <<w, n>>)
  /\ UNCHANGED posted

Next == \E w \in Work : Report(w) \/ Deliver(w)

Spec == Init /\ [][Next]_vars
=============================================================================
