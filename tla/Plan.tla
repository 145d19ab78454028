-------------------------------- MODULE Plan --------------------------------
(* What `run` hands to a session: the steps that resolveWorks returns.       *)
EXTENDS Naturals, Sequences

\* Steps of works of W: there are some, none is empty, and no work is in two.
IsPlan(p, W) ==
  /\ p \in Seq(SUBSET W) \ {<<>>}
  /\ \A i \in 1..Len(p) : p[i] # {}
  /\ \A i, j \in 1..Len(p) : i # j => p[i] \cap p[j] = {}
=============================================================================
