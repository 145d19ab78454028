----------------------------- MODULE EventPath -----------------------------
(***************************************************************************)
(* The way of an event, from progress_update in a work to a line of the    *)
(* session's api log: the queue and the PushEvents call of the work's      *)
(* WorkDaemon (work_daemon.py), the session's queue at the broker and its  *)
(* Subscribe handler (broker_server.py), and the receiving goroutine of    *)
(* the daemon (runSessionWorker in cli/daemon.go).                         *)
(*                                                                         *)
(* One session: sessions meet neither at the broker, which has a queue per *)
(* session, nor in the daemon.  An event is a pair of its work and its     *)
(* number; number 0 is the None that ends a WorkDaemon's queue.            *)
(***************************************************************************)
EXTENDS Naturals, Sequences, SequencesExt

CONSTANTS
  Work,
  Events     \* per work, the bound on the events it reports

\* Assumed of the instances that are checked.
Bounds == Events \in [Work -> Nat]

VARIABLES
  posted,     \* events reported by each work
  proc,       \* the process of each work
  queue,      \* WorkDaemon._q
  call,       \* the PushEvents call
  wire,       \* what the call has sent and its handler has not read
  broker,     \* the session's queue.Queue
  handler,    \* where the Subscribe handler is
  hand,       \* the event it has taken and not yielded, if any
  active,     \* context.is_active() at the broker
  net,        \* yielded and not received
  receiving,  \* the daemon's receiving goroutine runs
  logOpen,
  log

workVars == <<posted, proc, queue>>
subVars  == <<handler, hand, active>>
logVars  == <<receiving, logOpen, log>>
vars == <<workVars, call, wire, broker, subVars, net, logVars>>

End(w) == <<w, 0>>

Init ==
  /\ posted = [w \in Work |-> 0]
  /\ proc = [w \in Work |-> "none"]
  /\ queue = [w \in Work |-> <<>>]
  /\ call = [w \in Work |-> "none"]
  /\ wire = [w \in Work |-> <<>>]
  /\ broker = <<>>
  /\ handler = "none"
  /\ hand = <<>>
  /\ active = TRUE
  /\ net = <<>>
  /\ receiving = TRUE
  /\ logOpen = TRUE
  /\ log = <<>>

-----------------------------------------------------------------------------
(* A work and its WorkDaemon.                                              *)

\* WorkDaemon.__init__ starts _push_stream in the executor.
Connect(w) ==
  /\ proc[w] = "none"
  /\ proc' = [proc EXCEPT ![w] = "run"]
  /\ call' = [call EXCEPT ![w] = "open"]
  /\ UNCHANGED <<posted, queue, wire, broker, subVars, net, logVars>>

ProgressUpdate(w) ==
  /\ proc[w] = "run"
  /\ posted[w] < Events[w]
  /\ posted' = [posted EXCEPT ![w] = @ + 1]
  /\ queue' = [queue EXCEPT ![w] = Append(@, <<w, posted[w] + 1>>)]
  /\ UNCHANGED <<proc, call, wire, broker, subVars, net, logVars>>

\* close: put None, then wait for the call's result.
BeginClose(w) ==
  /\ proc[w] = "run"
  /\ proc' = [proc EXCEPT ![w] = "closing"]
  /\ queue' = [queue EXCEPT ![w] = Append(@, End(w))]
  /\ UNCHANGED <<posted, call, wire, broker, subVars, net, logVars>>

\* future.result() returns, or raises what ended the call: the work fails.
EndClose(w) ==
  /\ proc[w] = "closing"
  /\ call[w] # "open"
  /\ proc' = [proc EXCEPT ![w] = IF call[w] = "done" THEN "closed" ELSE "failed"]
  /\ UNCHANGED <<posted, queue, call, wire, broker, subVars, net, logVars>>

\* The process is killed; what it has sent may still arrive.
Kill(w) ==
  /\ proc[w] \in {"run", "closing"}
  /\ proc' = [proc EXCEPT ![w] = "killed"]
  /\ queue' = [queue EXCEPT ![w] = <<>>]
  /\ UNCHANGED <<posted, call, wire, broker, subVars, net, logVars>>

\* gen() yields the next item to the call.
Send(w) ==
  /\ call[w] = "open"
  /\ queue[w] # <<>>
  /\ queue' = [queue EXCEPT ![w] = Tail(@)]
  /\ wire' = [wire EXCEPT ![w] = Append(@, Head(queue[w]))]
  /\ UNCHANGED <<posted, proc, call, broker, subVars, net, logVars>>

\* The call breaks: the connection, the broker, or the end of the process.
BreakCall(w) ==
  /\ call[w] = "open"
  /\ call' = [call EXCEPT ![w] = "broken"]
  /\ wire' = [wire EXCEPT ![w] = <<>>]
  /\ UNCHANGED <<workVars, broker, subVars, net, logVars>>

-----------------------------------------------------------------------------
(* The broker.                                                             *)

\* Seeded fault: a stack for a queue.
PushLifo(w) ==
  /\ call[w] = "open"
  /\ wire[w] # <<>>
  /\ wire' = [wire EXCEPT ![w] = Tail(@)]
  /\ IF Head(wire[w]) = End(w)
     THEN call' = [call EXCEPT ![w] = "done"] /\ UNCHANGED broker
     ELSE broker' = <<Head(wire[w])>> \o broker /\ UNCHANGED call
  /\ UNCHANGED <<workVars, subVars, net, logVars>>

\* PushEvents queues the next event of its request iterator, or returns at its
\* end.
PushEvents(w) ==
  /\ call[w] = "open"
  /\ wire[w] # <<>>
  /\ wire' = [wire EXCEPT ![w] = Tail(@)]
  /\ IF Head(wire[w]) = End(w)
     THEN call' = [call EXCEPT ![w] = "done"] /\ UNCHANGED broker
     ELSE broker' = Append(broker, Head(wire[w])) /\ UNCHANGED call
  /\ UNCHANGED <<workVars, subVars, net, logVars>>

\* Seeded fault: a subscription starts with a queue of its own.
SubscribeFresh ==
  /\ handler = "none"
  /\ handler' = "check"
  /\ broker' = <<>>
  /\ UNCHANGED <<workVars, call, wire, hand, active, net, logVars>>

\* A thread takes up the daemon's Subscribe call, whatever is queued by then.
Subscribe ==
  /\ handler = "none"
  /\ handler' = "check"
  /\ UNCHANGED <<workVars, call, wire, broker, hand, active, net, logVars>>

CheckActive ==
  /\ handler = "check"
  /\ handler' = IF active THEN "get" ELSE "ended"
  /\ UNCHANGED <<workVars, call, wire, broker, hand, active, net, logVars>>

Get ==
  /\ handler = "get"
  /\ broker # <<>>
  /\ hand' = <<Head(broker)>>
  /\ broker' = Tail(broker)
  /\ handler' = "yield"
  /\ UNCHANGED <<workVars, call, wire, active, net, logVars>>

\* Seeded fault: a timeout of the get ends the subscription.
GetTimeoutEnds ==
  /\ handler = "get"
  /\ broker = <<>>
  /\ handler' = "ended"
  /\ UNCHANGED <<workVars, call, wire, broker, hand, active, net, logVars>>

\* queue.Empty after a second.
GetTimeout ==
  /\ handler = "get"
  /\ broker = <<>>
  /\ handler' = "check"
  /\ UNCHANGED <<workVars, call, wire, broker, hand, active, net, logVars>>

\* The event goes to the context, active or not, and nowhere else.
Yield ==
  /\ handler = "yield"
  /\ net' = IF active /\ receiving THEN net \o hand ELSE net
  /\ hand' = <<>>
  /\ handler' = "check"
  /\ UNCHANGED <<workVars, call, wire, broker, active, logVars>>

\* The broker notices that its peer has gone.
Deactivate ==
  /\ active /\ ~receiving
  /\ active' = FALSE
  /\ UNCHANGED <<workVars, call, wire, broker, handler, hand, net, logVars>>

-----------------------------------------------------------------------------
(* The daemon.                                                             *)

\* Recv, Printf; after the close of the log the line is lost.
Receive ==
  /\ receiving
  /\ net # <<>>
  /\ net' = Tail(net)
  /\ log' = IF logOpen THEN Append(log, Head(net)) ELSE log
  /\ UNCHANGED <<workVars, call, wire, broker, subVars, receiving, logOpen>>

\* Recv fails: the connection breaks, or the session's context is done.
EndReceive ==
  /\ receiving
  /\ receiving' = FALSE
  /\ net' = <<>>
  /\ UNCHANGED <<workVars, call, wire, broker, subVars, logOpen, log>>

\* The session is over and the drain with it; a job that lost its client may
\* still run, and others may never have begun.
CloseLog ==
  /\ logOpen
  /\ logOpen' = FALSE
  /\ UNCHANGED <<workVars, call, wire, broker, subVars, net, receiving, log>>

-----------------------------------------------------------------------------
Moves(w) == Send(w) \/ PushEvents(w) \/ EndClose(w)

SubscribeMoves ==
  Subscribe \/ CheckActive \/ Get \/ GetTimeout \/ Yield

Next ==
  \/ \E w \in Work :
       \/ Connect(w) \/ ProgressUpdate(w) \/ BeginClose(w) \/ Kill(w)
       \/ BreakCall(w) \/ Moves(w)
  \/ SubscribeMoves \/ Deactivate
  \/ Receive \/ EndReceive \/ CloseLog

Spec == Init /\ [][Next]_vars

\* Threads that can run do; get returns the head of a queue that stays filled.
Fairness ==
  /\ \A w \in Work : WF_vars(Send(w)) /\ WF_vars(PushEvents(w)) /\ WF_vars(EndClose(w))
  /\ WF_vars(SubscribeMoves)
  /\ WF_vars(Receive)

-----------------------------------------------------------------------------
(* Properties.                                                             *)

Item == Work \X Nat

TypeOK ==
  /\ posted \in [Work -> Nat] /\ \A w \in Work : posted[w] <= Events[w]
  /\ proc \in [Work -> {"none", "run", "closing", "closed", "failed", "killed"}]
  /\ call \in [Work -> {"none", "open", "done", "broken"}]
  /\ queue \in [Work -> Seq(Item)] /\ wire \in [Work -> Seq(Item)]
  /\ broker \in Seq(Item) /\ net \in Seq(Item) /\ log \in Seq(Item)
  /\ hand \in Seq(Item) /\ Len(hand) <= 1
  /\ handler \in {"none", "check", "get", "yield", "ended"}
  /\ active \in BOOLEAN /\ receiving \in BOOLEAN /\ logOpen \in BOOLEAN

\* The events of w in s: their numbers, and that they are in order, each once.
IsEvent(w, e) == e[1] = w /\ e[2] # 0

Numbers(w, s) == {s[i][2] : i \in {j \in DOMAIN s : IsEvent(w, s[j])}}

Rising(w, s) ==
  \A i, j \in DOMAIN s :
    i < j /\ IsEvent(w, s[i]) /\ IsEvent(w, s[j]) => s[i][2] < s[j][2]

\* What is on its way to the log, the nearest to it first.
Path(w) == log \o net \o hand \o broker \o wire[w] \o queue[w]

\* While the subscription and the log last, an event is lost only by its own
\* work's broken call or killed process: events sent before the subscription
\* is served, or while it has nothing to do, wait in the broker.
NothingLost ==
  receiving /\ logOpen =>
    \A w \in Work : call[w] # "broken" /\ proc[w] # "killed" =>
      Numbers(w, Path(w)) = 1..posted[w] /\ Rising(w, Path(w))

\* The log is a lossy queue of the works' events.
Fifo == INSTANCE LossyFifo WITH posted <- posted, log <- log
LogIsFifo == Fifo!Spec

\* A work that closes gets an answer or an error, unless it is killed; for this
\* nobody needs to subscribe.  If it gets its answer every event of it is logged,
\* unless the session is over or its subscription broken first.
EventsArrive ==
  \A w \in Work :
    proc[w] = "closing" ~>
      \/ proc[w] \in {"failed", "killed"}
      \/ /\ proc[w] = "closed"
         /\ \/ ~receiving \/ ~logOpen
            \/ \A n \in 1..posted[w] : <<w, n>> \in ToSet(log)
=============================================================================
