----------------------------- MODULE MCFollowers -----------------------------
(***************************************************************************)
(* The two sides of a command that follows a session: what it reads of the *)
(* log (SessionLog) and what it puts on the screen (ProgressView).  They   *)
(* share no variable, so that a behaviour in which only one of them moves  *)
(* shows all there is to see of it; part says which one.                   *)
(*                                                                         *)
(* Two clients, so that one may join the other's session, and up to four   *)
(* lines, of which a client that joins late is shown the last two.  On the *)
(* screen a work with two values for its bar, and one after it: the least  *)
(* in which a bar is older than the snapshot that takes it off.            *)
(***************************************************************************)
EXTENDS SessionLog, TLC

CONSTANTS w1, w2

VARIABLES
  part,    \* "log" or "view"
  step, works, given, bars, session, view, pos, order, bar, replies, lost,
  screen, missed

viewVars == <<step, works, given, bars, session, view, pos, order, bar, replies,
              lost, screen, missed>>

View == INSTANCE ProgressView WITH
  Work <- {w1, w2},
  StepOf <- w1 :> 1 @@ w2 :> 2,
  MaxValue <- 2,
  MaxLost <- 1,
  status <- works,
  log <- bars

ASSUME ViewAssumption == View!Bounds

\* Only, which the proofs can look into, is the filter of the library.
ASSUME OnlyAssumption ==
  \A n \in 0..3, S \in SUBSET {w1, w2} : \A seq \in [1..n -> {w1, w2}] :
    View!Only(seq, S) = View!SelectSeq(seq, LAMBDA w : w \in S)

RunInit == part \in {"log", "view"} /\ Init /\ View!Init

RunNext ==
  \/ part = "log" /\ Next /\ UNCHANGED <<part, viewVars>>
  \/ part = "view" /\ View!Next /\ UNCHANGED <<part, vars>>

RunSpec == RunInit /\ [][RunNext]_<<part, vars, viewVars>>

-----------------------------------------------------------------------------
(* The properties that are not SessionLog's, or need fairness.             *)

\* When a session is over its followers end, however its streams fare.
SessionFollowersEnd == part = "log" => (Fairness => FollowersEnd)

\* Each entry of the screen has one place in its order.
OrderIsEntries == View!TypeOK

\* The step lines never go back.
StepLinesAdvance == View!StepLinesAdvance

\* The bar of a work that has ended goes.
GhostsGo == part = "view" => (View!Fairness => View!GhostsGo)

\* The last value of a work that runs on gets on the screen.
LastValueShown == part = "view" => (View!Fairness => View!LastValueShown)
=============================================================================
