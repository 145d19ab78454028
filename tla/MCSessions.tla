----------------------------- MODULE MCSessions -----------------------------
(* Plans for the sessions: two parallel works before a third, or that one   *)
(* alone; a single work.                                                    *)
EXTENDS Sessions

CONSTANTS a, b, c

Join   == {<<{a, b}, {c}>>, <<{c}>>}
Single == {<<{a}>>}
=============================================================================
