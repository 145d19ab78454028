----------------------------- MODULE BrokerPool -----------------------------
(***************************************************************************)
(* The threads of the broker (broker_server.py main) and the calls that    *)
(* hold them.  A call waits in the executor's queue for a thread.  A       *)
(* session's two subscriptions hold theirs until the session is over; a    *)
(* work's PushEvents holds one until the work closes or dies, whatever has *)
(* become of its session, and the work closes only when its other calls,   *)
(* each of which needs a thread for a moment, have been answered.          *)
(***************************************************************************)
EXTENDS Naturals, Sequences, SequencesExt, FiniteSets

CONSTANTS
  Session,       \* those that are ever started, any number at a time
  Work,          \* the works of a session, all in one parallel step
  Pool           \* max_workers

\* Assumed of the instances that are checked.
Bounds == IsFiniteSet(Session) /\ IsFiniteSet(Work) /\ Pool \in Nat

Task == Session \X Work

VARIABLES
  session,   \* "idle", "running" or "over": its context is done
  stage,     \* where each work of each session is
  waiting,   \* calls without a thread, in order
  serving    \* calls with one

vars == <<session, stage, waiting, serving>>

\* Calls are named by their method and whom they serve.  A work's executor has
\* two threads; the first sends events until it has sent the last.
Subscribe(s)             == <<"Subscribe", <<s>>>>
SubscribeProgressBars(s) == <<"SubscribeProgressBars", <<s>>>>
Streams(s) == {Subscribe(s), SubscribeProgressBars(s)}
Push(k)    == <<"PushEvents", k>>
Unary(k)   == <<"unary", k>>
BarCall(k, i)  == <<"SetProgressBar", k, i>>
Bars(k)    == {BarCall(k, i) : i \in 1..2}
CallsOf(k) == {Push(k), Unary(k)} \cup Bars(k)

Made == ToSet(waiting) \cup serving

\* The caller of c is no more: its session's context is done, or its work over.
Gone(c) ==
  \/ \E s \in Session : c \in Streams(s) /\ session[s] = "over"
  \/ \E k \in Task : c \in CallsOf(k) /\ stage[k] = "ended"

Init ==
  /\ session = [s \in Session |-> "idle"]
  /\ stage = [k \in Task |-> "none"]
  /\ waiting = <<>>
  /\ serving = {}

StartSession(s) ==
  /\ session[s] = "idle"
  /\ session' = [session EXCEPT ![s] = "running"]
  /\ waiting' = waiting \o <<Subscribe(s), SubscribeProgressBars(s)>>
  /\ UNCHANGED <<stage, serving>>

\* submitWork: RegisterParams, before the job is submitted.
RegisterParams(k) ==
  /\ session[k[1]] = "running" /\ stage[k] = "none"
  /\ stage' = [stage EXCEPT ![k] = "register"]
  /\ waiting' = Append(waiting, Unary(k))
  /\ UNCHANGED <<session, serving>>

\* A free thread takes the next call.
Serve ==
  /\ waiting # <<>> /\ Cardinality(serving) < Pool
  /\ serving' = serving \cup {Head(waiting)}
  /\ waiting' = Tail(waiting)
  /\ UNCHANGED <<session, stage>>

\* The answer of a unary call lets the work go on.
Answer(k) ==
  /\ Unary(k) \in serving
  /\ serving' = serving \ {Unary(k)}
  /\ stage' = [stage EXCEPT ![k] =
       CASE @ = "register" -> "submit" [] @ = "ask" -> "run" [] OTHER -> @]
  /\ UNCHANGED <<session, waiting>>

\* The job is accepted, be its session over or not, and WorkDaemon.__init__
\* starts PushEvents in a thread of its own.
Connect(k) ==
  /\ stage[k] = "submit"
  /\ stage' = [stage EXCEPT ![k] = "run"]
  /\ waiting' = Append(waiting, Push(k))
  /\ UNCHANGED <<session, serving>>

\* get_params, set_state, get_state: the work waits for the answer.
Ask(k) ==
  /\ stage[k] = "run" /\ Unary(k) \notin Made
  /\ stage' = [stage EXCEPT ![k] = "ask"]
  /\ waiting' = Append(waiting, Unary(k))
  /\ UNCHANGED <<session, serving>>

\* _send_bar: the second thread of the work's executor sends a value, and the
\* work goes on; at the end it sends those that are left.
SendBar(k) ==
  /\ stage[k] \in {"run", "ask", "close"} /\ BarCall(k, 2) \notin Made
  /\ waiting' = Append(waiting, BarCall(k, 2))
  /\ UNCHANGED <<session, stage, serving>>

AnswerBar(k, i) ==
  /\ BarCall(k, i) \in serving
  /\ serving' = serving \ {BarCall(k, i)}
  /\ UNCHANGED <<session, stage, waiting>>

Close(k) ==
  /\ stage[k] = "run"
  /\ stage' = [stage EXCEPT ![k] = "close"]
  /\ UNCHANGED <<session, waiting, serving>>

\* PushEvents has read the end of its events: close goes on to shut the executor
\* down, whose first thread may send a bar that is left (one stands for all).
EndPush(k) ==
  /\ stage[k] = "close"
  /\ Push(k) \in serving
  /\ serving' = serving \ {Push(k)}
  /\ stage' = [stage EXCEPT ![k] = "shutdown"]
  /\ waiting' \in {waiting, Append(waiting, BarCall(k, 1))}
  /\ UNCHANGED session

\* shutdown(wait=True) returns when every bar is sent, and the job ends.
EndWork(k) ==
  /\ stage[k] = "shutdown" /\ Bars(k) \cap Made = {}
  /\ stage' = [stage EXCEPT ![k] = "ended"]
  /\ UNCHANGED <<session, waiting, serving>>

\* The job is not accepted, or crashes, or is stopped: its calls break.
Kill(k) ==
  /\ stage[k] \in {"submit", "run", "ask", "close", "shutdown"}
  /\ stage' = [stage EXCEPT ![k] = "ended"]
  /\ UNCHANGED <<session, waiting, serving>>

\* The step is over, and the session's context done.
EndSession(s) ==
  /\ session[s] = "running"
  /\ \A w \in Work : stage[<<s, w>>] = "ended"
  /\ session' = [session EXCEPT ![s] = "over"]
  /\ UNCHANGED <<stage, waiting, serving>>

\* `stop`, or a work's submit client is lost and the session fails: its context
\* is done, and what has not been submitted will not be.  What has been goes on
\* until `ray job stop`, if that ever reaches it.
StopSession(s) ==
  /\ session[s] = "running"
  /\ session' = [session EXCEPT ![s] = "over"]
  /\ stage' = [k \in Task |->
       IF k[1] = s /\ stage[k] \in {"none", "register"} THEN "ended" ELSE stage[k]]
  /\ UNCHANGED <<waiting, serving>>

\* Seeded fault: the handlers of the subscriptions do not look at their context.
ReleaseCall(c) ==
  /\ c \in serving
  /\ \E k \in Task : c \in CallsOf(k) /\ stage[k] = "ended"
  /\ serving' = serving \ {c}
  /\ UNCHANGED <<session, stage, waiting>>

\* A handler whose caller is no more finds its context inactive, or its requests
\* at an end, within a second.
Release(c) ==
  /\ c \in serving
  /\ Gone(c)
  /\ serving' = serving \ {c}
  /\ UNCHANGED <<session, stage, waiting>>

-----------------------------------------------------------------------------
Call == (UNION {Streams(s) : s \in Session}) \cup (UNION {CallsOf(k) : k \in Task})

WorkMoves(k) ==
  RegisterParams(k) \/ Answer(k) \/ Connect(k) \/ EndPush(k) \/ EndWork(k)

Next ==
  \/ \E s \in Session : StartSession(s) \/ EndSession(s) \/ StopSession(s)
  \/ \E k \in Task : \/ WorkMoves(k) \/ Ask(k) \/ SendBar(k) \/ Close(k) \/ Kill(k)
                     \/ \E i \in 1..2 : AnswerBar(k, i)
  \/ Serve
  \/ \E c \in Call : Release(c)

Spec == Init /\ [][Next]_vars

\* Threads run, and the user's code ends some time.
Fairness ==
  /\ WF_vars(Serve)
  /\ \A s \in Session : WF_vars(EndSession(s))
  /\ \A k \in Task : /\ WF_vars(WorkMoves(k)) /\ SF_vars(Close(k))
                     /\ \A i \in 1..2 : WF_vars(AnswerBar(k, i))
  /\ WF_vars(\E c \in Call : Release(c))

-----------------------------------------------------------------------------
(* Properties.                                                             *)

TypeOK ==
  /\ session \in [Session -> {"idle", "running", "over"}]
  /\ stage \in [Task -> {"none", "register", "submit", "run", "ask", "close",
                         "shutdown", "ended"}]
  /\ waiting \in Seq(Call) /\ IsInjective(waiting)
  /\ serving \subseteq Call \ ToSet(waiting)
  /\ Cardinality(serving) <= Pool

Running   == {s \in Session : session[s] = "running"}
Connected == {k \in Task : stage[k] \in {"run", "ask"}}

\* The streams that may be open for long: two for a session that runs, and one
\* for a work, also one whose session is over.
Crowd == 2 * Cardinality(Running) + Cardinality(Connected)

\* The handler of c returns whatever becomes of other calls: it answers at once,
\* or its caller is no more, or it has been told that its requests end.
Passing(c) ==
  \/ Gone(c)
  \/ \E k \in Task : \/ c \in {Unary(k)} \cup Bars(k)
                     \/ c = Push(k) /\ stage[k] = "close"

\* Handlers of works and sessions that are no more hold no thread for long: as
\* long as the sessions that run and the works that are connected are few, a
\* thread is free, or comes free by itself.
SpareThread ==
  Crowd < Pool => \/ Cardinality(serving) < Pool
                  \/ \E c \in serving : Passing(c)

\* Nothing but a crowd of open streams that stays for good keeps a session whose
\* works end from ending: no call waits in a circle for a thread that only the
\* call itself could set free.
SessionsEnd ==
  []<>(Crowd < Pool) =>
    \A s \in Session : session[s] = "running" ~> session[s] = "over"
=============================================================================
