------------------------------ MODULE MCBroker ------------------------------
(***************************************************************************)
(* What works and the daemon do through the broker: events (EventPath),    *)
(* progress bars (BarPath) and the threads that serve their calls          *)
(* (BrokerPool).  The three share no variable, so that a behaviour in      *)
(* which only one of them moves shows all there is to see of it; part says *)
(* which one.                                                              *)
(*                                                                         *)
(* Of the events, two works with one event each, or one work with two, so  *)
(* that there is an order, beside a work that has none.  Of the bars, one  *)
(* with two values and one with one that competes for threads and copies,  *)
(* or one alone with three, of which a sent, a pending and a last one may  *)
(* differ.  The 16 threads of the broker are scaled down to three with the *)
(* works: two sessions of one work, at any times.  One of them beside its  *)
(* work, or beside one that the other has left when it was stopped, takes  *)
(* them all.  (Path and BarPath itself have the least bounds that hold for *)
(* all instances.)                                                         *)
(***************************************************************************)
EXTENDS BarPath

CONSTANTS w1, w2, b1, b2, s1, s2

UpToThree == [b \in {b1, b2} |-> 3]

VARIABLES
  part,    \* "order", "events", "throttle", "bars" or "pool"
  posted, works, queue, call, wire, broker, subscriber, hand, active, events,
  subscribed, logOpen, log,
  session, stage, waiting, serving

eventVars == <<posted, works, queue, call, wire, broker, subscriber, hand, active,
               events, subscribed, logOpen, log>>
threadVars == <<session, stage, waiting, serving>>

ThreeAndNone == INSTANCE BarPath WITH
  Values <- [b \in {b1, b2} |-> IF b = b1 THEN 3 ELSE 0]

TwoAndOne == INSTANCE BarPath WITH
  Values <- [b \in {b1, b2} |-> IF b = b1 THEN 2 ELSE 1]

ASSUME BarsAssumption == Bounds /\ ThreeAndNone!Bounds /\ TwoAndOne!Bounds

Path == INSTANCE EventPath WITH
  Work <- {w1, w2}, Events <- [w \in {w1, w2} |-> 2],
  proc <- works, handler <- subscriber, net <- events, receiving <- subscribed

OneEach == INSTANCE EventPath WITH
  Work <- {w1, w2}, Events <- [w \in {w1, w2} |-> 1],
  proc <- works, handler <- subscriber, net <- events, receiving <- subscribed

TwoAndNone == INSTANCE EventPath WITH
  Work <- {w1, w2}, Events <- [w \in {w1, w2} |-> IF w = w1 THEN 2 ELSE 0],
  proc <- works, handler <- subscriber, net <- events, receiving <- subscribed

ASSUME EventsAssumption == Path!Bounds /\ OneEach!Bounds /\ TwoAndNone!Bounds

Threads == INSTANCE BrokerPool WITH
  Session <- {s1, s2}, Work <- {w1}, Pool <- 3

ASSUME ThreadsAssumption == Threads!Bounds

RunInit ==
  /\ part \in {"order", "events", "throttle", "bars", "pool"}
  /\ Init /\ Path!Init /\ Threads!Init

RunNext ==
  \/ /\ \/ part = "order" /\ TwoAndNone!Next
        \/ part = "events" /\ OneEach!Next
     /\ UNCHANGED <<part, vars, threadVars>>
  \/ /\ \/ part = "throttle" /\ ThreeAndNone!Next
        \/ part = "bars" /\ TwoAndOne!Next
     /\ UNCHANGED <<part, eventVars, threadVars>>
  \/ part = "pool" /\ Threads!Next /\ UNCHANGED <<part, vars, eventVars>>

RunSpec == RunInit /\ [][RunNext]_<<part, vars, eventVars, threadVars>>

-----------------------------------------------------------------------------
(* The properties that are not BarPath's, or need fairness.  The type      *)
(* invariant of a part goes with its first one.                            *)

\* Events are lost only where a call, a process or the subscription breaks.
EventsKept == Path!TypeOK /\ Path!NothingLost

\* The log is a lossy queue of the works' events.
LogIsFifo == Path!LogIsFifo

\* A work that closes gets its answer, and its events are in the log.
ClosedEventsArrive ==
  part = "events" => (OneEach!Fairness => OneEach!EventsArrive)

\* The last value that the broker holds for a bar is logged.
LastBarsArrive ==
  /\ []TypeOK
  /\ part = "bars" => (TwoAndOne!Fairness => BarsArrive)

\* Every session ends if its works do, unless open streams hold all threads for
\* good.
SessionsEnd ==
  /\ [](Threads!TypeOK /\ Threads!SpareThread)
  /\ part = "pool" => (Threads!Fairness => Threads!SessionsEnd)
=============================================================================
