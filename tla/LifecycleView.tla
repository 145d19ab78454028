--------------------------- MODULE LifecycleView ---------------------------
(***************************************************************************)
(* What the user of `up`, `connect`, `down` or `disconnect` is told: a     *)
(* client that polls the daemon's status every 500ms until it can give a   *)
(* verdict.  runLifecycle renders the phases, for a start (flow "up") or   *)
(* for an end ("down"); tailDaemonLogUntilReady, with --plain, looks only  *)
(* at the daemon's phase (flow "log").  One client is modelled, beside the *)
(* daemon of DaemonLifecycle; a poll is one atomic read of the daemon's    *)
(* snapshot, or gets no answer.                                            *)
(***************************************************************************)
EXTENDS DaemonLifecycle

CONSTANTS
  Flow,   \* the flows considered
  Slow    \* a daemon that is there may fail to answer within the poll's 5s

ASSUME FlowAssumption == Flow \subseteq {"up", "down", "log"} /\ Slow \in BOOLEAN

VARIABLES
  flow,      \* the client's flow
  lastGood,  \* the phases of the last snapshot; empty before the first
  verdict    \* "none" while the client polls

view == <<flow, lastGood, verdict>>

ViewInit ==
  /\ flow \in Flow
  /\ lastGood = <<>>
  /\ verdict = "none"

\* `down` and `disconnect` watch once the daemon has answered "ok".
Watching(f) ==
  /\ flow = f
  /\ verdict = "none"
  /\ f = "down" => acked # {}

AnyFailed(ps) == \E n \in DOMAIN ps : ps[n] = "failed"
AllDone(ps)   == \A n \in DOMAIN ps : ps[n] = "done"

\* Seeded fault: the list alone decides.
PollUpList ==
  /\ Watching("up") /\ Running
  /\ verdict' = CASE AnyFailed(phases) -> "failed"
                  [] AllDone(phases) /\ phases # <<>> -> "ready"
                  [] OTHER -> "none"
  /\ UNCHANGED <<flow, lastGood>>

PollUp ==
  /\ Watching("up") /\ Running
  /\ verdict' = CASE AnyFailed(phases) -> "failed"
                  [] phase = "running" /\ AllDone(phases) /\ phases # <<>> -> "ready"
                  [] OTHER -> "none"
  /\ UNCHANGED <<flow, lastGood>>

\* A failed phase is not yet a verdict: the teardown goes on after it.
PollDown ==
  /\ Watching("down") /\ Running
  /\ lastGood' = phases
  /\ UNCHANGED <<flow, verdict>>

PollLog ==
  /\ Watching("log") /\ Running
  /\ verdict' = CASE phase = "running"  -> "ready"
                  [] phase = "stopping" -> "failed"
                  [] OTHER -> "none"
  /\ UNCHANGED <<flow, lastGood>>

\* No answer before the daemon was seen to be ready: it is taken to be gone.
StartGone ==
  /\ \E f \in {"up", "log"} : Watching(f)
  /\ verdict' = "exited"
  /\ UNCHANGED <<flow, lastGood>>

\* No answer after `down`: what the last snapshot showed unfinished is taken to
\* be done.
Assumed(ps) == [n \in DOMAIN ps |-> IF ps[n] = "failed" THEN "failed" ELSE "done"]

DownGone ==
  /\ Watching("down")
  /\ lastGood' = Assumed(lastGood)
  /\ verdict' = IF AnyFailed(lastGood') THEN "failed" ELSE "stopped"
  /\ UNCHANGED flow

\* The deadline of runLifecycle (10 or 5 minutes), or the user's interrupt.
GiveUp ==
  /\ \E f \in {"up", "down"} : Watching(f)
  /\ Running
  /\ verdict' \in {"timeout", "detached"}
  /\ UNCHANGED <<flow, lastGood>>

Gone == ~Running /\ (StartGone \/ DownGone)
Late == Slow /\ Running /\ (StartGone \/ DownGone)

Watch == PollUp \/ PollDown \/ PollLog \/ Gone

ViewNext ==
  \/ Next /\ UNCHANGED view
  \/ (Watch \/ Late \/ GiveUp) /\ UNCHANGED vars

ViewSpec == Init /\ ViewInit /\ [][ViewNext]_<<vars, view>>

\* The client goes on polling; nothing is asked of its deadline.
ViewFairSpec ==
  /\ ViewSpec
  /\ WF_<<vars, view>>(Boot /\ UNCHANGED view)
  /\ WF_<<vars, view>>(Main /\ UNCHANGED view)
  /\ \A c \in Conn : WF_<<vars, view>>(Apply(c) /\ UNCHANGED view)
  /\ WF_<<vars, view>>(Watch /\ UNCHANGED vars)

-----------------------------------------------------------------------------
(* Properties.                                                             *)

\* "Pipeline ready." is said only of a daemon that has a broker client, so that
\* the `run` that follows does not wait: also if the daemon is stopped meanwhile
\* and its list of phases has become another.
ReadyHasBroker == verdict = "ready" => brokerReady /\ brokerClient

\* The client ends by a verdict of its own, long deadlines apart: every phase of
\* the list is ended by the code that belongs to the daemon's mode, and nothing
\* leaves a daemon half started.
WatcherReturns == (flow = "down" => acked # {}) ~> verdict # "none"

\* A phase that failed is reported: "Pipeline stopped." is not said of a
\* teardown of which a phase failed.
FailureReported == verdict = "stopped" => ~AnyFailed(phases)

\* A daemon that has reached "stopping" before the client saw it "running" is
\* reported as failed, not as ready.
StoppingReported ==
  [][verdict = "none" /\ verdict' = "ready" => main \in {"wait", "exited"}]_<<vars, view>>
=============================================================================
