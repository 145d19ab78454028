------------------------------ MODULE BarPath ------------------------------
(***************************************************************************)
(* The way of a progress bar from progress_bar in a work to a line of the  *)
(* session's api log: the throttle, the two executor threads and the close *)
(* of a WorkDaemon (work_daemon.py), the table of bars and the subscriber  *)
(* at the broker (broker_server.py), and the receiving goroutine of the    *)
(* daemon (runSessionWorker in cli/daemon.go).                             *)
(*                                                                         *)
(* One work, whose bars are set by one thread of its own; the n-th value   *)
(* that it gives a bar is n.  held, failed and crossed are history variables; *)
(* the broker keeps the last value of held, and lines carry its position   *)
(* in it instead of the value.                                             *)
(***************************************************************************)
EXTENDS Naturals, Sequences, SequencesExt, FiniteSets

CONSTANTS
  Bar,        \* names of the bars
  Values      \* per bar, the bound on the values it is given

\* Assumed by the proofs, and of the instances that are checked.
Bounds == IsFiniteSet(Bar) /\ Values \in [Bar -> Nat]

Thread == {"first", "second"}   \* ThreadPoolExecutor(max_workers=2)

VARIABLES
  proc,       \* the process of the work
  given,      \* the value last given to each bar
  due,        \* _BAR_INTERVAL has passed since _bar_last_sent
  pending,    \* _bar_pending; 0 where a bar has no entry
  tasks,      \* the executor's queue: bars to send
  push,       \* the PushEvents call, which the first thread makes
  thread,     \* the <<bar, value>> that each thread sends, or <<>>
  held,       \* the values the broker has held for each bar
  dirty,      \* _BarSub.dirty
  handler,    \* where the SubscribeProgressBars handler is
  batch,      \* what it has still to yield
  net,        \* yielded and not received
  receiving,  \* the daemon's receiving goroutine runs
  shown,      \* per bar, the last line of the log
  failed,     \* bars of which a send has failed
  crossed     \* bars of which two sends were under way together

workVars   == <<proc, given, due, pending>>
poolVars   == <<tasks, push, thread, failed, crossed>>
brokerVars == <<held, dirty, handler, batch>>
daemonVars == <<net, receiving, shown>>
vars == <<workVars, poolVars, brokerVars, daemonVars>>

Init ==
  /\ proc = "run"
  /\ given = [b \in Bar |-> 0]
  /\ due = [b \in Bar |-> TRUE]
  /\ pending = [b \in Bar |-> 0]
  /\ tasks = <<>>
  /\ push = "open"
  /\ thread = [t \in Thread |-> <<>>]
  /\ failed = {}
  /\ crossed = {}
  /\ held = [b \in Bar |-> <<>>]
  /\ dirty = {}
  /\ handler = "none"
  /\ batch = {}
  /\ net = <<>>
  /\ receiving = TRUE
  /\ shown = [b \in Bar |-> 0]

-----------------------------------------------------------------------------
(* The work.                                                               *)

\* progress_bar: sent when the interval has passed, else kept for later.
ProgressBar(b) ==
  /\ proc = "run"
  /\ given[b] < Values[b]
  /\ given' = [given EXCEPT ![b] = @ + 1]
  /\ due' = [due EXCEPT ![b] = FALSE]
  /\ IF due[b]
     THEN /\ tasks' = Append(tasks, <<b, given[b] + 1>>)
          /\ pending' = [pending EXCEPT ![b] = 0]
     ELSE pending' = [pending EXCEPT ![b] = given[b] + 1] /\ UNCHANGED tasks
  /\ UNCHANGED <<proc, push, thread, failed, crossed, brokerVars, daemonVars>>

Elapse(b) ==
  /\ proc = "run" /\ ~due[b]
  /\ due' = [due EXCEPT ![b] = TRUE]
  /\ UNCHANGED <<proc, given, pending, poolVars, brokerVars, daemonVars>>

\* Seeded fault: close forgets what the throttle holds back.
CloseDropping ==
  /\ proc = "run"
  /\ proc' = "closing"
  /\ UNCHANGED <<given, due, pending, poolVars, brokerVars, daemonVars>>

\* close: submit what is pending, end the event queue.
Close ==
  /\ proc = "run"
  /\ proc' = "closing"
  /\ \E s \in SetToSeqs({<<b, pending[b]>> : b \in {c \in Bar : pending[c] # 0}}) :
       tasks' = tasks \o s
  /\ pending' = [b \in Bar |-> 0]
  /\ UNCHANGED <<given, due, push, thread, failed, crossed, brokerVars, daemonVars>>

\* PushEvents returns after the None; it may break at any time.
EndPush ==
  /\ push = "open" /\ proc = "closing"
  /\ push' = "returned"
  /\ UNCHANGED <<workVars, tasks, thread, failed, crossed, brokerVars, daemonVars>>

BreakPush ==
  /\ push = "open"
  /\ push' = "broken"
  /\ UNCHANGED <<workVars, tasks, thread, failed, crossed, brokerVars, daemonVars>>

Idle == tasks = <<>> /\ \A t \in Thread : thread[t] = <<>>

\* The result of PushEvents, then shutdown(wait=True).  A broken call raises;
\* the tasks that are left run until the interpreter ends.
Join ==
  /\ proc = "closing" /\ push # "open"
  /\ push = "returned" => Idle
  /\ proc' = IF push = "returned" THEN "closed" ELSE "raised"
  /\ UNCHANGED <<given, due, pending, poolVars, brokerVars, daemonVars>>

Kill ==
  /\ proc \in {"run", "closing"}
  /\ proc' = "killed"
  /\ tasks' = <<>>
  /\ UNCHANGED <<given, due, pending, push, thread, failed, crossed, brokerVars,
                 daemonVars>>

\* Seeded fault: both threads are there for the bars from the start.
FreeAlways(t) == thread[t] = <<>>

Free(t) == thread[t] = <<>> /\ (t = "first" => push # "open")

\* A free thread takes the next bar.
Take(t) ==
  /\ Free(t) /\ tasks # <<>>
  /\ thread' = [thread EXCEPT ![t] = Head(tasks)]
  /\ tasks' = Tail(tasks)
  /\ crossed' = crossed \cup {b \in Bar : b = Head(tasks)[1] /\
                   \E u \in Thread : thread[u] # <<>> /\ thread[u][1] = b}
  /\ UNCHANGED <<workVars, push, failed, brokerVars, daemonVars>>

\* The call fails; nobody looks at its future.
SendFails(t) ==
  /\ thread[t] # <<>>
  /\ failed' = failed \cup {thread[t][1]}
  /\ thread' = [thread EXCEPT ![t] = <<>>]
  /\ UNCHANGED <<workVars, tasks, push, crossed, brokerVars, daemonVars>>

-----------------------------------------------------------------------------
(* The broker.                                                             *)

\* Store the bar and mark it for the subscriber, in one critical section.
SetProgressBar(t) ==
  /\ thread[t] # <<>>
  /\ LET b == thread[t][1] IN
     /\ held' = [held EXCEPT ![b] = Append(@, thread[t][2])]
     /\ dirty' = IF handler = "yield" THEN dirty \cup {b} ELSE dirty
  /\ thread' = [thread EXCEPT ![t] = <<>>]
  /\ UNCHANGED <<workVars, tasks, push, failed, crossed, handler, batch,
                 daemonVars>>

Stored(bars) == {<<b, Len(held[b])>> : b \in {c \in bars : held[c] # <<>>}}

\* Register the subscriber and copy the bars, in one critical section.
Register ==
  /\ handler = "none"
  /\ handler' = "yield"
  /\ batch' = Stored(Bar)
  /\ UNCHANGED <<workVars, poolVars, held, dirty, daemonVars>>

\* Seeded fault: what is set while a copy is yielded is forgotten.
YieldBarForgets ==
  /\ handler = "yield"
  /\ \E e \in batch : net' = Append(net, e) /\ batch' = batch \ {e}
  /\ dirty' = {}
  /\ UNCHANGED <<workVars, poolVars, held, handler, receiving, shown>>

\* The bars of a copy are yielded one by one, without the lock.
YieldBar ==
  /\ handler = "yield"
  /\ \E e \in batch :
       /\ net' = IF receiving THEN Append(net, e) ELSE net
       /\ batch' = batch \ {e}
  /\ UNCHANGED <<workVars, poolVars, held, dirty, handler, receiving, shown>>

\* Seeded fault: the copy is taken while another one is yielded.
CopyEarly ==
  /\ handler = "yield"
  /\ dirty # {}
  /\ batch' = batch \cup Stored(dirty)
  /\ dirty' = {}
  /\ UNCHANGED <<workVars, poolVars, held, handler, daemonVars>>

\* wait_for, then copy and clear what is dirty, in one critical section.  A
\* timeout of the wait copies nothing.
CopyDirty ==
  /\ handler = "yield" /\ batch = {}
  /\ dirty # {}
  /\ batch' = Stored(dirty)
  /\ dirty' = {}
  /\ UNCHANGED <<workVars, poolVars, held, handler, daemonVars>>

\* The context is found inactive; the subscriber is removed.
Unsubscribe ==
  /\ handler = "yield" /\ ~receiving
  /\ handler' = "ended"
  /\ batch' = {}
  /\ UNCHANGED <<workVars, poolVars, held, dirty, daemonVars>>

-----------------------------------------------------------------------------
(* The daemon.                                                             *)

ReceiveBar ==
  /\ receiving /\ net # <<>>
  /\ shown' = [shown EXCEPT ![Head(net)[1]] = Head(net)[2]]
  /\ net' = Tail(net)
  /\ UNCHANGED <<workVars, poolVars, brokerVars, receiving>>

\* Recv fails, or the log is closed: no further line.
EndReceive ==
  /\ receiving
  /\ receiving' = FALSE
  /\ net' = <<>>
  /\ UNCHANGED <<workVars, poolVars, brokerVars, shown>>

-----------------------------------------------------------------------------
Works(t) == Take(t) \/ SetProgressBar(t)

Handler == Register \/ YieldBar \/ CopyDirty

Next ==
  \/ \E b \in Bar : ProgressBar(b) \/ Elapse(b)
  \/ Close \/ EndPush \/ BreakPush \/ Join \/ Kill
  \/ \E t \in Thread : Works(t) \/ SendFails(t)
  \/ Handler \/ Unsubscribe
  \/ ReceiveBar \/ EndReceive

Spec == Init /\ [][Next]_vars

\* Threads run, and the calls of a work are answered.
Fairness ==
  /\ \A t \in Thread : WF_vars(Works(t))
  /\ WF_vars(EndPush)
  /\ WF_vars(Join)
  /\ WF_vars(Handler)
  /\ WF_vars(ReceiveBar)

-----------------------------------------------------------------------------
(* Properties.                                                             *)

Send == Bar \X (Nat \ {0})

Types ==
  /\ proc \in {"run", "closing", "closed", "raised", "killed"}
  /\ given \in [Bar -> Nat] /\ due \in [Bar -> BOOLEAN] /\ pending \in [Bar -> Nat]
  /\ tasks \in Seq(Send)
  /\ push \in {"open", "returned", "broken"}
  /\ thread \in [Thread -> Send \cup {<<>>}]
  /\ held \in [Bar -> Seq(Nat \ {0})]
  /\ dirty \subseteq Bar /\ crossed \subseteq Bar /\ failed \subseteq Bar
  /\ handler \in {"none", "yield", "ended"}
  /\ batch \subseteq Send /\ net \in Seq(Send)
  /\ receiving \in BOOLEAN
  /\ shown \in [Bar -> Nat]

\* Only what was given is held, and no value is held twice.
InRange ==
  \A b \in Bar :
    /\ given[b] <= Values[b] /\ pending[b] <= given[b]
    /\ shown[b] <= Len(held[b]) /\ Len(held[b]) <= given[b]
    /\ \A i \in 1..Len(held[b]) : held[b][i] <= given[b]

TypeOK == Types /\ InRange

Current(b) == IF held[b] = <<>> THEN 0 ELSE Last(held[b])

Spoilt == failed \cup crossed

\* When close has returned the broker holds the last value of each bar, with
\* the same exception: what close flushes is sent by two threads.
LastIsHeld ==
  proc = "closed" => \A b \in Bar \ Spoilt : Current(b) = given[b]

\* Until the event stream has ended its thread is taken, so the broker never
\* goes back to an older value of a bar.
HeldInOrder ==
  push = "open" =>
    \A b \in Bar : \A i, j \in 1..Len(held[b]) :
      i < j => held[b][i] < held[b][j]

\* The log shows the broker's bars as a register that is sampled.
Sampled == INSTANCE BarRegister WITH held <- held, shown <- shown
LogIsRegister == Sampled!Spec

\* The last value that the broker holds for a bar of an ended work is logged,
\* unless the subscription has ended.
BarsArrive ==
  \A b \in Bar :
    proc = "closed" ~> shown[b] = Len(held[b]) \/ ~receiving
=============================================================================
