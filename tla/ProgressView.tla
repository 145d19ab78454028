--------------------------- MODULE ProgressView ---------------------------
(***************************************************************************)
(* The screen of a command that follows a session (progress_render.go      *)
(* tailAPILogUntilDone, handleBar, setStepSnapshot, redraw,                *)
(* pollStepStatus): one goroutine reads the lines of the api log, another  *)
(* asks the daemon once per second for the works of the current step       *)
(* (stepSnapshot in cli/daemon.go), and both redraw.                       *)
(*                                                                         *)
(* Every work sets one bar; the n-th value that it gives it is n.          *)
(* missed is a history variable.                                           *)
(***************************************************************************)
EXTENDS Naturals, Sequences, SequencesExt, FiniteSets

CONSTANTS
  Work,
  StepOf,    \* the step of each work, from 1
  MaxValue,  \* bound on the values a work gives its bar
  MaxLost    \* bound on the polls that are refused or time out

\* Assumed of the instances that are checked.
Bounds ==
  IsFiniteSet(Work) /\ StepOf \in [Work -> Nat \ {0}] /\ MaxValue \in Nat /\ MaxLost \in Nat

Steps == Max({StepOf[w] : w \in Work} \cup {0})

VARIABLES
  step,     \* CurrentStep + 1
  status,   \* of each work
  given,    \* the last value of each bar
  log,      \* the bar lines of the api log
  session,  \* "run", then "done" once the marker is written
  view,     \* "closed", "on", and "over" when the command has returned
  pos,      \* lines read
  order,    \* the works whose bars are shown, from the top
  bar,      \* entries: the value shown for each work, or 0
  replies,  \* snapshots on their way
  lost,     \* polls without an answer
  screen,   \* the snapshot behind the step lines
  missed    \* works whose last line was not read from the start of the command,
            \* or whose bar was taken off by a snapshot older than the work

daemonVars == <<step, status, given, log, session>>
readVars   == <<view, pos>>
pollVars   == <<replies, lost, screen, missed>>
vars == <<daemonVars, readVars, order, bar, pollVars>>

Ended == {"done", "failed"}

\* stepSnapshot: the works of the current step.
Snapshot ==
  [step |-> step,
   works |-> [w \in {v \in Work : StepOf[v] = step} |-> status[w]]]

RunningIn(snapshot) ==
  {w \in DOMAIN snapshot.works : snapshot.works[w] = "running"}

Blank == [step |-> 0, works |-> <<>>]

Init ==
  /\ step = 0
  /\ status = [w \in Work |-> "queued"]
  /\ given = [w \in Work |-> 0]
  /\ log = <<>>
  /\ session = "run"
  /\ view = "closed"
  /\ pos = 0
  /\ order = <<>>
  /\ bar = [w \in Work |-> 0]
  /\ replies = {}
  /\ lost = 0
  /\ screen = Blank
  /\ missed = {}

-----------------------------------------------------------------------------
(* The daemon.                                                             *)

BeginStep ==
  /\ session = "run" /\ step < Steps
  /\ \A w \in Work : StepOf[w] <= step => status[w] = "done"
  /\ step' = step + 1
  /\ UNCHANGED <<status, given, log, session>>

MarkWorkRunning(w) ==
  /\ StepOf[w] = step /\ status[w] = "queued"
  /\ status' = [status EXCEPT ![w] = "running"]
  /\ UNCHANGED <<step, given, log, session>>

SetBar(w) ==
  /\ status[w] = "running" /\ given[w] < MaxValue
  /\ given' = [given EXCEPT ![w] = @ + 1]
  /\ UNCHANGED <<step, status, log, session>>

MarkWorkDone(w) ==
  /\ status[w] = "running"
  /\ \E s \in Ended : status' = [status EXCEPT ![w] = s]
  /\ UNCHANGED <<step, given, log, session>>

Logged(w) == Max({0} \cup {log[i][2] : i \in {j \in DOMAIN log : log[j][1] = w}})

\* The broker keeps the last value only, and it reaches the log late.
LogBar(w) ==
  /\ session = "run" /\ Logged(w) < given[w]
  /\ \E v \in (Logged(w) + 1)..given[w] : log' = Append(log, <<w, v>>)
  /\ UNCHANGED <<step, status, given, session>>

\* After a step, the last or not, however much has been drained.
WriteMarker ==
  /\ session = "run"
  /\ \A w \in Work : StepOf[w] <= step => status[w] \in Ended
  /\ session' = "done"
  /\ UNCHANGED <<step, status, given, log>>

Daemon ==
  /\ \/ BeginStep \/ WriteMarker
     \/ \E w \in Work : MarkWorkRunning(w) \/ SetBar(w) \/ MarkWorkDone(w) \/ LogBar(w)
  /\ UNCHANGED <<readVars, order, bar, pollVars>>

-----------------------------------------------------------------------------
(* The reader.                                                             *)

\* openTailAt: all of the log, or its last 4 KB from the next line on.
OpenTailAt ==
  /\ view = "closed"
  /\ view' = "on"
  /\ pos' \in 0..(IF log = <<>> THEN 0 ELSE Len(log) - 1)
  /\ missed' = {log[i][1] : i \in 1..pos'}
  /\ UNCHANGED <<daemonVars, order, bar, replies, lost, screen>>

\* Seeded fault: every line is put at the end of the order.
HandleBarAgain ==
  /\ view = "on" /\ pos < Len(log)
  /\ LET w == log[pos + 1][1] IN
       /\ bar' = [bar EXCEPT ![w] = log[pos + 1][2]]
       /\ order' = Append(order, w)
  /\ pos' = pos + 1
  /\ UNCHANGED <<daemonVars, view, pollVars>>

\* Seeded fault: a bar that was taken off does not come back.
HandleBarOnce ==
  /\ view = "on" /\ pos < Len(log)
  /\ LET w == log[pos + 1][1]
         known == w \in ToSet(order) \/ \A i \in 1..pos : log[i][1] # w IN
       /\ bar' = IF known THEN [bar EXCEPT ![w] = log[pos + 1][2]] ELSE bar
       /\ order' = IF w \in ToSet(order) \/ ~known THEN order ELSE Append(order, w)
       /\ missed' = missed \ {w}
  /\ pos' = pos + 1
  /\ UNCHANGED <<daemonVars, view, replies, lost, screen>>

\* handleBar: a new entry goes to the end of the order.
HandleBar ==
  /\ view = "on" /\ pos < Len(log)
  /\ LET w == log[pos + 1][1] IN
       /\ bar' = [bar EXCEPT ![w] = log[pos + 1][2]]
       /\ order' = IF bar[w] = 0 THEN Append(order, w) ELSE order
  /\ pos' = pos + 1
  /\ missed' = missed \ {log[pos + 1][1]}
  /\ UNCHANGED <<daemonVars, view, replies, lost, screen>>

\* The end of the log, with the marker there: nothing is written any more.
ReadEnd ==
  /\ view = "on" /\ pos = Len(log) /\ session = "done"
  /\ view' = "over"
  /\ UNCHANGED <<daemonVars, pos, order, bar, pollVars>>

-----------------------------------------------------------------------------
(* The poller.                                                             *)

\* Seeded fault: a tick does not wait for the one before.
TickAgain ==
  /\ view = "on" /\ Cardinality(replies) < 2
  /\ replies' = replies \cup {Snapshot}
  /\ UNCHANGED <<daemonVars, readVars, order, bar, lost, screen, missed>>

\* One poll after the other, until the reader has ended.
Tick ==
  /\ view = "on" /\ replies = {}
  /\ replies' = {Snapshot}
  /\ UNCHANGED <<daemonVars, readVars, order, bar, lost, screen, missed>>

\* No answer within the 5s, or an error: the screen stays.
LoseReply ==
  /\ replies # {} /\ lost < MaxLost
  /\ replies' = {} /\ lost' = lost + 1
  /\ UNCHANGED <<daemonVars, readVars, order, bar, screen, missed>>

Shows(snapshot) ==
  /\ screen' = snapshot
  /\ replies' = replies \ {snapshot}
  /\ missed' = missed \cup
       {w \in ToSet(order) \ RunningIn(snapshot) :
          \/ snapshot.step < StepOf[w]
          \/ snapshot.step = StepOf[w] /\ snapshot.works[w] = "queued"}
  /\ UNCHANGED <<daemonVars, readVars, lost>>

\* The elements of a sequence that are in S, in their order: the one at the first
\* position of such an element, at the second, and so on.
Only(seq, S) ==
  LET at == {i \in DOMAIN seq : seq[i] \in S}
      Place(i) == Cardinality({j \in at : j <= i})
  IN [n \in 1..Cardinality(at) |-> seq[CHOOSE i \in at : Place(i) = n]]

\* Seeded fault: the bars of earlier steps are not looked at.
SetStepSnapshotKeeping ==
  \E snapshot \in replies :
    LET kept == {w \in Work : StepOf[w] # snapshot.step} \cup RunningIn(snapshot) IN
    /\ order' = Only(order, kept)
    /\ bar' = [w \in Work |-> IF w \in kept THEN bar[w] ELSE 0]
    /\ Shows(snapshot)

\* setStepSnapshot: the bars of works that do not run go.
SetStepSnapshot ==
  \E snapshot \in replies :
    LET kept == RunningIn(snapshot) IN
    /\ order' = Only(order, kept)
    /\ bar' = [w \in Work |-> IF w \in kept THEN bar[w] ELSE 0]
    /\ Shows(snapshot)

-----------------------------------------------------------------------------
Next ==
  Daemon \/ OpenTailAt \/ HandleBar \/ ReadEnd \/ Tick \/ LoseReply \/ SetStepSnapshot

Spec == Init /\ [][Next]_vars

\* The command runs, its polls are answered or time out, and what the broker
\* has of a bar reaches the log.
Fairness ==
  /\ WF_vars(OpenTailAt) /\ WF_vars(HandleBar) /\ WF_vars(ReadEnd)
  /\ WF_vars(Tick) /\ WF_vars(SetStepSnapshot)
  /\ \A w \in Work : WF_vars(LogBar(w) /\ UNCHANGED <<readVars, order, bar, pollVars>>)

-----------------------------------------------------------------------------
(* Properties.                                                             *)

\* The order names exactly the entries, each once: redraw dereferences the
\* entry of every key in it, and a key that is there twice moves the cursor up
\* too far.
TypeOK ==
  /\ step \in 0..Steps
  /\ status \in [Work -> {"queued", "running"} \cup Ended]
  /\ given \in [Work -> 0..MaxValue]
  /\ log \in Seq(Work \X (1..MaxValue))
  /\ session \in {"run", "done"} /\ view \in {"closed", "on", "over"}
  /\ pos \in 0..Len(log)
  /\ order \in Seq(Work) /\ IsInjective(order)
  /\ bar \in [Work -> 0..MaxValue]
  /\ ToSet(order) = {w \in Work : bar[w] # 0}
  /\ lost \in 0..MaxLost /\ missed \subseteq Work

Rank(s) == CASE s = "queued" -> 0 [] s = "running" -> 1 [] s \in Ended -> 2

\* The step lines never go back, to an earlier step or to an earlier state of a
\* work, whatever polls are late or lost.
StepLinesAdvance ==
  [][/\ screen'.step >= screen.step
     /\ screen'.step = screen.step /\ screen.step > 0 =>
          \A w \in DOMAIN screen.works :
            Rank(screen'.works[w]) >= Rank(screen.works[w])]_vars

\* The bar of a work that has ended goes, though lines of it may still come
\* after the snapshot that took it off; or the command ends before.
GhostsGo ==
  \A w \in Work : status[w] \in Ended /\ bar[w] # 0 ~> bar[w] = 0 \/ view = "over"

\* The last value of a work that runs on gets on the screen, with two exceptions:
\* it lies before the last 4 KB at which the command has started to read, or the
\* bar was taken off by a snapshot that is older than the work.  Then it is not
\* shown until the work gives it another value.
LastValueShown ==
  \A w \in Work : view = "on" /\ status[w] = "running" /\ given[w] = MaxValue ~>
    bar[w] = MaxValue \/ status[w] \in Ended \/ w \in missed
=============================================================================
