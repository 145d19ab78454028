# TLA+ models of manta-pipeline

manta-pipeline runs user pipelines on a Ray cluster. A command line client
talks over a unix socket to one background daemon per project directory; the
daemon starts or joins the cluster, keeps an ssh tunnel to it, starts a broker
on it as a Ray job, and runs *sessions*: the works of a pipeline, in steps, each
work a Ray job. The works report events and progress bars to the broker, the
daemon streams them into log files, and clients follow these files.

This directory models that program in TLA+, checks the models with TLC and
proves theorems about the core with TLAPS. Paths below are relative to `src/`.

## 1. Inventory

| component | code | state | operations | what is hard | what makes it correct |
|---|---|---|---|---|---|
| sessions | `cli/daemon.go` 43-88, 141-277, 814-1185 | `daemonStatus.sessions`: status, current step, works, recorded submission ids; goroutines; Ray's jobs | run, stop, stopall, the worker, one goroutine per work | cancellation at any point, jobs heard late by Ray, clients lost or killed, parallel works failing | steps do not overlap, the verdict is last and true, every job can be stopped, a session ends |
| work graph | `cli/pipeline.go` 150-213, `cli/run.go` | the parsed pipeline | `build` validates, `run` resolves a target | names shared between stages, repeated references, manual works, references across stages | exactly the good graphs are accepted; steps are complete, ordered, never empty |
| daemon lifecycle | `cli/daemon.go` 90-139, 457-788, 1187-1260, `cli/tunnel.go` | phase, phase list, tunnel, broker client and job id, `disconnectOnly` | startup in three modes, teardown, tunnel loop, shutdown, disconnect, signals | four goroutines share the status; startup and teardown overlap; timeouts | a ready daemon has a client; the cluster survives a disconnect; the daemon ends |
| lifecycle view | `cli/lifecycle_view.go`, `cli/commands.go` 24-159 | last snapshot | poll, give up | stale snapshots, the daemon gone between polls | what is reported is true, and something is reported |
| control socket | `cli/daemon.go` 379-455, 500-506, 637 | the socket path | spawn, remove, listen, remove | check and act by several processes | one daemon owns the socket |
| broker | `cli/embed/mantapipeline/broker_server.py` | event queues, bars, parameters, state | push, subscribe, register, get, set | streams that break, threads of a pool of 16 | events in order, the last bar arrives, calls are served |
| work library | `work_daemon.py`, `api.py` (same directory) | event queue, bar throttle | push, bar, params, state, close | a close racing throttled bars on two threads | events and last bars are sent before the work ends |
| session log, followers | `cli/daemon.go` 1008-1050, `cli/progress_render.go` 50-131, `cli/commands.go` 509-527 | log files, `.done` | drain, follow | the marker racing the last lines; a daemon that dies | a follower shows everything and ends |
| progress view | `cli/progress_render.go` 41-48, 133-234, 331-355 | bars and steps shown | update, poll | stale steps | the final view is the final state |
| build stamp | `cli/commands.go` 332-373, 411-424 | the pipeline file and `mantafile.hash` | build, run, load | edits during a build, a build cut off between its two files | a run that does not warn runs the current pipeline |
| configuration, command line, installation, generated stubs | `cli/pipeline.go` 46-146, `cli/main.go`, `cli/brokerpb`, `*_pb2*.py`, scripts | none | parse, print | none | not modelled |

How they interact: clients send a line to the daemon's socket, and a handler
goroutine answers it from `daemonStatus`, or calls into sessions (run, stop,
stopall) or lifecycle (shutdown, disconnect). Sessions wait for the lifecycle's
`brokerReady`, and their contexts are children of the daemon's. Sessions and
works meet at the broker. The lifecycle view polls the daemon's snapshot.

The hazards that follow from this, each at its line and with the properties
that would catch it, are listed in `PROJECT.json`.

## 2. Plan

Done:

1. `Sessions` with its abstract specification `StagedRun`, and `SessionsProofs`.
2. `WorkGraph`, whose result is what `Sessions` assumes of its plans, with
   `WorkGraphProofs`.
3. `DaemonLifecycle`, and `LifecycleView` composed with it, with
   `DaemonLifecycleProofs` about both.
4. The way from a work through the broker to the log: `EventPath`, which
   implements `LossyFifo`, with `EventPathProofs`; `BarPath`, which implements
   `BarRegister`, with `BarPathProofs`; and `BrokerPool`, the broker's threads,
   with theorems at the end of `EventPathProofs`.
5. `SessionLog`, the log, its marker and its followers, with `SessionLogProofs`.
6. `ControlSocket` with `ControlSocketProofs`.
7. `ProgressView`, with theorems at the end of `SessionLogProofs`, and
   `BuildStamp` with `BuildStampProofs`.

Every safety property, every action property and every refinement that a passing
run checks is also a theorem (section 6); liveness is checked only (section 7).

## 3. Modules

### Sessions

State is per session (a function over `Session`), named as in the code.
`pc` is the place of `runSessionWorker`, `wpc` that of the goroutine of each
work (`runOne`, `submitWork`); `job` is Ray's view of a submission, `requested`
while Ray has not yet taken it up. Each critical section of `daemonStatus.mu`
is one action, and so is each external call.

| actions | code |
|---|---|
| `StartSession` | `startSession`; may start under a done context, as `select` picks at random |
| `CancelSession`, `CancelAllSessions`, `StopRayJob` | `cancelSession`, `cancelAllSessions`; the ids are copied under the lock, and each `ray job stop` comes later, with no effect on a job Ray does not have yet |
| `InitWorks`, `Subscribe`, `Prepare`, `StepCancelled`, `BeginStep`, `EndStep`, `FinishSession`, `Unwind` | `runSessionWorker` from the top to its deferred calls |
| `MarkWorkRunning` ... `MarkWorkDone` | `runOne`, `submitWork`, `streamToLogger`, `runWorkLocally` |
| `PostJob`, `AcceptJob`, `EndJob` | Ray and its submit client, from how the code calls them |
| `BrokerReady`, `CancelDaemon`, `ExitDaemon` | what the daemon's lifecycle does to sessions, at any moment |

A submit client whose context is done is killed by killing `uv`; the python
process below it may survive and keep the output pipe open (`orphaned`), which
keeps `streamToLogger` waiting. A client may fail while its job runs on.

`StagedRun` is what a session promises its readers in three variables: plans,
statuses, work statuses. `Sessions` implements it under the identity on these.

What a plan is, steps that are not empty and disjoint, is `IsPlan` of the module
`Plan`: `Sessions` assumes it of `Plans`, and `WorkGraph` has it as what
`resolveWorks` returns.

### WorkGraph

One action is one level of Kahn's algorithm: the order inside a level is that of
a Go map and cannot be seen in the result. `validateGraph` counts by name over
all stages (so works of the same name are merged), `stageSteps` by stage
without manual works; the uses of a name are counted as often as the list has
it, as the code does. `ResolveWork` and `ResolveStages` are the branches of
`resolveWorks`. `PipelinesAssumption` says what the parser makes: a pipeline is a
list of stages, each of finitely many works with a list of references.

### DaemonLifecycle

Four goroutines: `boot` (the startup), `main` (waits, reads the flags once,
tears down), the tunnel loop, and one `handler` per connection, which answers
"ok" before it sets `disconnectOnly` and cancels the context. Main does not wait
for the tunnel loop: ssh may be there yet when the process has ended. `phases` is the
list of phases by name: ending a phase of another list does nothing, as in
`endPhase`. The phase names `ray start --head` and `ray up <cluster>` are both
`ray start`, `ray stop` is `ray down`. `link`, `cluster` and `broker` are the
world: the ports are forwarded, Ray runs, the broker listens.

### LifecycleView

Extends `DaemonLifecycle` with one client: flow "up" (`up`, `connect`), "down"
(`down`, `disconnect`) or "log" (`up --plain`, `connect --plain`). A poll is an
atomic read of the snapshot, which the code takes under the mutex, or gets no
answer: because the daemon is gone (`Gone`), or, with `Slow`, because a daemon
that is there does not answer within the 5s of `sendClientCommand` (`Late`). The
code takes both alike. The two runs that show a disagreement have `Slow` FALSE, so
that what they show does not depend on it.

### SessionLog

One session's api log. The daemon's side is `startSession` and the goroutine of
the session from the opening of the log to its deferred calls: `Drain`,
`CloseLog`, `WriteMarker`, in this order; what lies between is one step,
`EndWork` (it is `Sessions`). The two receiving goroutines append lines while
the log is open. A client asks for a session, or joins one (`progress`), opens
the log at its end (`OpenTailAt`, the last 4 KB), and alternates between
`ReadLine`, `ReadEOF` and `StatMarker`; after the marker it reads once more.
The daemon may exit at any moment.

### EventPath and LossyFifo

An event is a work and a number. `posted`, `queue`, `call` and `wire` are a
work's side (`progress_update`, `_push_stream`, `close`), `broker`, `handler`
and `hand` the broker's (`PushEvents`, and `Subscribe` cut at its check of the
context, its `get` and its `yield`), `net`, `receiving` and `log` the daemon's.
Calls break, processes are killed, the daemon stops receiving and closes the
log at any moment. One session is enough: queues are per session.

`LossyFifo` is what the reader of a log may rely on: the events of a work appear
in order, each at most once, some perhaps not. `EventPath` implements it under
the identity on `posted` and `log`. `NothingLost` looks at the whole way: a work
whose call and process are sound has exactly its events `1..posted` on it, in
order and each once.

### BarPath and BarRegister

One work and its bars: the throttle of `progress_bar`, the executor of two
threads, of which the event stream holds one for as long as it lasts (`Free`),
the flush in `close`, the broker's table with a set of dirty names per
subscriber, and the handler that copies under the lock and yields without it.
`BarRegister` is the abstract specification: the log shows samples of the
values that the broker has held, never an older one after a newer one.

Sends that fail, or that two threads make for the same bar at once, may leave
an older value with the broker (`_send_bar` looks at no result, and `close`
flushes a bar while an earlier send may be under way). `failed` and `crossed`
record them, and `LastIsHeld` excepts them.

### BrokerPool

The executor of `main` in `broker_server.py`, scaled down: calls queue for a
thread and hold it. A subscription holds one until its session's context is done
and an instant more (`Release`). A work's `PushEvents` holds one until the work
closes or its process ends, whatever has become of its session: `StopSession`
ends the session's context and the works that were not submitted, and what was
submitted goes on until it closes or is killed (`Kill` is also what `ray job
stop` comes to, if it names the job in time). The answers to parameters and state
let a work go on; bars do not, except in `close`, which waits for them (`EndPush`,
`EndWork`). All works of a session are taken to be in one parallel step, the
most that can be open at once, and any number of sessions runs at a time.

Nothing in the code keeps the open streams below the 16 threads, and if they hold
all of them each work waits for another (below). What the properties claim is that
this is the only way to be stuck. `Crowd` counts the streams that may be open for
long. `SpareThread`: while `Crowd < Pool` a thread is free, or held by a handler
that returns without another call, whatever was stopped, killed or left. And
`SessionsEnd`: unless the crowd stays for good, a session whose works end, ends.

### ControlSocket

Several daemons and commands around one path. `path` is the listener that the
file names: the file of a daemon that was killed is stale and a dial to it
fails. `RemoveSocket` and `Listen` are two steps, as are `CloseListener` (Go
unlinks the file) and `Exit` (the deferred `os.Remove`, whoever the file belongs
to by then). `Terminate` is the SIGTERM of `teardown`: it ends the context of a
daemon that listens, kills one that has no handler yet (before `daemon.go` 475),
and of one that has, but does not listen yet, is remembered in `signalled`: such
a daemon goes on to remove, listen and then stop, though `RemoveFile` may take its
file away. `UpsInTurn` and `Prompt` are what the properties of the command pair
`up` and `down` need: no `up` is given while another one starts a daemon (other
commands may be), and a daemon listens and exits within the 5s that clients
wait. `TeardownEnds` assumes neither.

### ProgressView

The reader goroutine applies the lines of bars, the poller the snapshots of
steps. A snapshot is taken by the daemon at the tick and applied at some later
time; it may be lost. `missed` records the works whose bar a snapshot older than
the work has taken off. `Only` is the filter of the order in `setStepSnapshot`,
defined by the positions that it keeps, so that the proofs can look into it;
`MCFollowers` asserts that it is `SelectSeq`.

### BuildStamp

`build` parses `mantafile.toml`, writes the pipeline, reads the file again and
writes its hash; `run` compares, and the daemon loads. Each write is a
truncation and then the contents.

### MC modules

`MCSessions`, `MCWorkGraph`, `MCDaemonLifecycle` and `MCLifecycleView` hold the
values of the constants. `MCFollowers`, `MCBroker` and `MCCommands` each check
several components in one run. Those share no variable: a behaviour in which one
moves and the others rest shows everything there is to see of it, and interleaving
them would only multiply the states. A variable `part` says which one moves.
The specification states no fairness there; each liveness property has the
fairness of its own component as a premise. `MCFollowers` extends `SessionLog`,
`MCBroker` extends `BarPath` and `MCCommands` extends `ControlSocket`; the other
components are instances. `EventPath`, `BarPath`, `BrokerPool`, `ProgressView` and
`BuildStamp` are instances there, most of them with several values of their
constants, and state what they need of them as an operator, `Bounds`: the
theorems assume it, and the MC modules assert it of the values that they use.

## 4. Runs

| run | checks | bounds and why they are enough |
|---|---|---|
| `sessions` | type, `StepOrder`, `TerminalQuiet`, `DoneMeansSucceeded`, `JobTracked`, `ParamsBeforeJob`, `NoPostAfterEnd`, `StagedRunSpec`, `SessionEnds` | one session (sessions share nothing but the daemon's context), two parallel remote works before a local one, or the local one alone: a barrier, a parallel step and both kinds of work; for `SessionEnds` jobs end |
| `sessions_stop` | `StopEndsSession` | two sessions of one job, so that `stop` of one and `stopall` differ; jobs may run for ever |
| `workgraph` | type, `ValidateExact`, `StepsArePlan`, `StepsOrdered`, `StepsEarly` | every pair of stages over two names with four lists each and manual works (names shared between the stages, repeated references, circles across stages), and every stage over three names with ten lists each (chains, forks, joins, circles of three, root, an unknown name) |
| `lifecycle` | type, `ReadyHasClient`, `TunnelOutlivesBroker`, `ConnectedLeavesCluster`, `DaemonEnds` | three modes, two connections (a shutdown may race a disconnect), signals and failures at any moment |
| `view` | `ReadyHasBroker`, `WatcherReturns` | three modes and flows, one connection; clients do not interact |
| `followers` | `EndedHasAll`, `SessionFollowersEnd`; `OrderIsEntries`, `StepLinesAdvance`, `GhostsGo`, `LastValueShown` | log: two clients, so that one joins the session of the other, four lines with a tail of two, so that a client may miss the head; screen: two works in two steps, two values per bar, one lost poll, the least in which a snapshot is older than the bar it takes off |
| `broker` | `EventsKept`, `LogIsFifo`, `ClosedEventsArrive`; `LastIsHeld`, `HeldInOrder`, `LogIsRegister`, `LastBarsArrive`; `SessionsEnd` | events: two works with one each (a loss of one is not to touch the other), or one work with two (order); bars: one of three values (sent, pending, last), or two that compete for threads and copies; threads: two sessions of one work at any times, with three threads: one session beside its work, or beside a work that the other has left, takes all of them |
| `commands` | `OneReachable`, `EveryUpEnds`; `TeardownEnds`; `UnwarnedIsCurrent` | three commands, with three daemons if each starts one in turn, or with two that race, of which a teardown signals one or both: a daemon started, killed or stopped, and started again beside the first; two builds, two runs, three versions |

Deadlock is not checked where the system really may stop: sessions that are
over, a daemon that has exited. `WorkGraph` stutters in its final states and is
checked for deadlock.

`OrderIsEntries`, `EventsKept`, `LastBarsArrive`, `SessionsEnd`, `TeardownEnds`
and `UnwarnedIsCurrent` of the MC modules take the type invariant of their component
in, and `SessionsEnd` also takes `SpareThread` in; the type invariant of
`SessionLog` is a theorem.

Runs that find a disagreement between the code and its text:

| run | what it shows |
|---|---|
| `workgraph_cross` | steps are not ordered by a reference from an earlier stage to a later one (`run.go` 45-46 and 122-124) |
| `lifecycle_disconnect` | a disconnect answered "ok" after a signal or a failed startup may not keep the cluster (`daemon.go` 588-592, 1251-1256; `commands.go` 122) |
| `view_failure` | a `ray down` that fails just before the daemon exits is reported as "Pipeline stopped." (`lifecycle_view.go` 85 and 105-126) |
| `view_stopping` | "running" overwrites "stopping", and `up --plain` reports success for a daemon in teardown (`daemon.go` 582; `commands.go` 128-129) |

Definitions commented *Seeded fault* are variants of an action with a plausible
bug. No specification uses them: replacing the action by its variant must make
the property named with it in `PROJECT.json` fail, which shows that the property
can.

Further disagreements that the models show when an assumption is dropped, and
that no run of its own exhibits:

- 14 parallel works of one session, or fewer in several sessions or beside works
  that a stop has left, hold all 16 threads of the broker (`broker_server.py`
  123); each then waits for an answer to `params`, `get_state` or `set_state`, and
  none closes. `BrokerPool` reaches it with `Pool` = 4 and two works of one
  session: a session ends no more, and without its premise `SessionsEnd` fails.
- Two `up` at once start two daemons, the first of which can no longer be
  reached, and whose exit removes the file of the second (`commands.go` 24,
  `daemon.go` 500, 506): `OneReachable` without `UpsInTurn`.
- `teardown` prints "ok" and "teardown complete." (`commands.go` 726, 751)
  while the daemon that it has signalled is still in its own teardown, and
  removes its socket file, so that the next `up` starts a second one:
  `OneReachable` with `"teardown"` among the commands.
- An edit of `mantafile.toml` between the two readings of `build`
  (`commands.go` 333, 359) is stamped as built: `UnwarnedIsCurrent` without
  `Quiet`.

## 5. Fairness

- `Sessions!Fairness`: the Go scheduler runs each goroutine that can run, RPCs
  and `ray` commands return, Ray answers a submission. A process is only
  expected to return once its job has ended (a local script: by itself).
  `FairSpec` lets jobs run for ever; `JobsEndSpec` adds that each ends, which
  `SessionEnds` needs, since the code has no timeout on a job.
- `SessionEnds` and `StopEndsSession` except the daemon's exit: it waits for no
  session, so their `.done` markers may then be missing.
- `StopEndsSession` assumes what the code needs: each job ran when its id was
  copied. A job Ray accepts after its `ray job stop` runs on, and an orphaned
  client may hold the session as long.
- `DaemonLifecycle!FairSpec`: startup, main and handlers run. Each wait of the
  startup has a timeout in the code and external commands are taken to return.
  Nothing is asked of ssh, Ray, the broker or clients.
- `LifecycleView!ViewFairSpec`: the client goes on polling; its own deadline
  is not used, so `WatcherReturns` shows that it never has to wait for it.
- `SessionLog!Fairness`: the session's goroutine runs, except that the works
  may last for ever; followers read on. Streams owe nothing, since the drain
  has a timeout.
- `EventPath!Fairness`, `BarPath!Fairness`: threads run, and calls that do not
  break get on. A process owes nothing before it closes.
- `BrokerPool!Fairness`: the same, and user code comes to its end: strong
  fairness of `Close`, since a work may ask again and again before. Nothing is
  asked of stops, kills and bars.
- `ControlSocket!Fairness`: processes run, a daemon that was signalled looks at its
  context once it listens (`daemon.go` 585), and a teardown ends; nothing is asked
  of users or crashes.
- `ProgressView!Fairness`: reader and poller run, and what the broker holds of
  a bar reaches the log, which `LastBarsArrive` shows.

## 6. Proofs

`SessionsProofs` proves, for any sets of sessions and works and any set of
plans that satisfy `PlansAssumption` and `LocalWorkAssumption`:

| theorem | property |
|---|---|
| `TypeCorrect` | `TypeOK` |
| `Invariance` | the inductive invariant `Inv` |
| `BarrierHolds`, `VerdictIsLast`, `DoneIsTrue`, `JobsAreTracked`, `ParamsFirst` | `StepOrder`, `TerminalQuiet`, `DoneMeansSucceeded`, `JobTracked`, `ParamsBeforeJob` |
| `NoLatePost` | `NoPostAfterEnd` |
| `Refinement` | `StagedRunSpec`: `Sessions` implements `StagedRun` |

None of the safety properties is inductive. `Inv` adds what the goroutines'
places imply: `WorkerInv` (the worker's place, status and step agree),
`PlaceInv` (only works of the current step are between "begin" and "returned",
earlier ones have returned without an error, later ones have not begun) and
`WorkInv` (for each place of a runner, what is true of its status, its recorded
id, its parameters and its job). Sessions do not touch each other, so the proof
goes session by session: a frame lemma for the other sessions, `RunnerInv` and
`WorkerStepInv` for the goroutines, `JobInv` for Ray, `StartInv` for the start.
The assumption on plans, `IsPlan`, is the first conjunct of what `ResolvesAll`
proves of the result of `WorkGraph`.

`WorkGraphProofs` proves, for any set of pipelines (`PipelinesAssumption`) of any
size and shape, `TypeCorrect`, `BuildIsExact` (`ValidateExact`), `ResolvesAll`
(`StepsArePlan`), `RunsInOrder` (`StepsOrdered`) and `RunsEarly` (`StepsEarly`).
Kahn's algorithm keeps two facts in both of its uses (`KahnInv`): the in-degree
of a node counts its edges from nodes that are not done (`Counted`), and no node
of a set in which each has an edge from another ever comes to zero
(`OffCircles`). When the queue is empty the nodes above zero are such a set, so
that all nodes have been dequeued exactly when there is no cycle; the reverse
needs the counting of `processed` (`ValidateInv`). A graph that `build` accepted
has no cycle in the scope of a stage either, which is why `stageSteps` leaves
out nothing. `PlacedInv` says that the steps hold the stages that are finished
and the dequeued part of the current one; `FreedInv`, that what is in the queue
was freed by the last step, from which `StepsEarly` follows.

`DaemonLifecycleProofs` proves, for any subset of the three modes
(`ModeAssumption`) and any set of connections, `TypeCorrect` (`TypeOK`),
`TunnelOutlives` (`TunnelOutlivesBroker`), `ReadyFindsClient`
(`ReadyHasClient`) and `ClusterIsLeft` (`ConnectedLeavesCluster`). Its invariant
`Inv` says where the goroutines are: `TunnelInv` where main is once the tunnel's
context is done, `ReadyInv` where the startup is once there is a connection,
`KeepInv` that past the reachable cluster the flag of a connecting daemon can
only have been unset by a shutdown. The type is proved in three parts, one step
per action. `WatchedDaemon` then shows that `ViewSpec` implements the daemon's
`Spec`, so that these theorems hold of a daemon that is watched, and
`ReadyIsTrue` (`ReadyHasBroker`) follows: "ready" is said of a snapshot in which
the daemon ran, and the channel that was closed by then stays closed.

`SessionLogProofs` proves, for any set of clients and any bounds, `TypeCorrect`,
`EndedSawAll` (`EndedHasAll`), `LogFound` (`LogIsFound`: a client that was told
of a session finds its log) and `MarkerIsLast` (`MarkedLogIsFinal`: a log with a
marker does not change). `PlaceInv` ties the session's place to its verdict and
its files: the marker is there only in the last place, past the close of the
log. `FollowInv` says what a follower knows where it is: it is at its last
reading only if it has seen the marker. Since nothing is written after it, the
end that this reading comes to is the end of the log. The module ends with what
such a command shows: `LinesAdvance` (`StepLinesAdvance` of `ProgressView`, taken
as an instance), for any works and steps. `PollInv` says that there is one poll
at a time, that a snapshot, on its way or shown, is of works that have not gone
back since, and that what is shown is no newer than what is on its way.
`OrderNamesEntries` is `OrderIsEntries`, the type invariant of `ProgressView`,
which is inductive, for any instance with `Bounds`. Its lemmas are about data:
`OnlyKeeps`, that a filter of a sequence has the elements that are in the set, and
none twice if the sequence has none twice, by the bijection between the
positions that it keeps and their ranks;
and `MaxIsLargest`, that a finite set of numbers has a largest one, by a least
counterexample.

`ControlSocketProofs` proves, for any sets of daemons and clients, `TypeCorrect`
and `OneDaemonInTurn`: `OneReachable`, for commands `up` and `down` of which no
`up` is given while another starts a daemon (`UpsInTurn`), with daemons that are
prompt. `DaemonInv` says that at most one daemon is on its way to the socket or
there, and that none serves while another one may still remove the file;
`CommandInv`, that a daemon on its way has a command that waits for it, so that no
other `up` can begin.

`EventPathProofs` proves, for any set of works and any numbers of events
(`Bounds`), `TypeCorrect`, `NothingIsLost` (`NothingLost`) and `LogIsLossy`: that
`EventPath` implements `LossyFifo`. Neither is inductive: what makes a line of
the log come after the lines before it is the order of everything that is still
on its way. `OrderInv` says, for each work, that its events rise at each of the
six places (log, stream, handler, broker, call, queue) and that those at a place
are below all that are behind it; each action moves an event across one border.
`ItemsInv` keeps the works apart and the None of a work out of the broker,
`HandlerInv` ties the event in the handler's hand to its place and the context
to the receiver, and `KeptInv` says that a sound work's events are all
somewhere. For the refinement, a `Receive` that writes is a `Deliver` (the
number of the event is above `Latest`, since it was behind the log), a
`ProgressUpdate` is a `Report`, and every other step stutters.

The module ends with the broker's threads (`BrokerPool`, taken as an instance),
for any finite sets of sessions and works and any number of threads (`Bounds`):
`ThreadsType` and `ThreadToSpare` (`SpareThread`). `ThreadsInv` says that a call
is made once and has one thread (`Queued`), and that no call is there before its
session or its work has come to it (`MadeInTurn`), which is why it is not made
twice. A call that is not `Passing` is a subscription of a
running session or the `PushEvents` of a connected work: `HeldFew` counts these
as `Crowd`, so that fewer than `Pool` of them cannot hold every thread.

`BarPathProofs` proves, for any finite set of bars and any values (`Bounds`),
`TypeCorrect`, `NeverBackwards` (`HeldInOrder`), `CloseDelivers` (`LastIsHeld`)
and `LogSamples`: that `BarPath` implements `BarRegister`. Its invariant says that
what the throttle holds back is newer than all it let pass (`BelowInv`), that no
value is in two places (`OnceInv`), that the values of a bar that no two sends
have crossed on are on their way in order, and none has crossed before the event
stream gives its thread back (`OrderInv`), that the newest value is somewhere
unless a send failed, and held when the executor is idle (`KeptInv`), and that
copies of the table reach the log in the order in which they were made
(`SampleInv`).

`BuildStampProofs` proves, for any sets of builds and runs and any versions
(`Bounds`), `TypeCorrect` and, if there is one build at a time and no edit beside
it (`Quiet`), `UnwarnedRunsCurrent` (`UnwarnedIsCurrent`): `StampInv`, that what
a hash or a run is about is no newer than the pipeline unless that is torn, and
`BuildInv`, that it is then written anew from the current version.

`Bounds` is an assumption on constants only; every theorem that uses it says so.

## 7. Only model-checked

Liveness (`SessionEnds`, `StopEndsSession`, `DaemonEnds`, `WatcherReturns`,
`SessionFollowersEnd`, `GhostsGo`, `LastValueShown`, `ClosedEventsArrive`,
`LastBarsArrive`, `SessionsEnd`, `EveryUpEnds`, `TeardownEnds`) is out of the prover's reach.
So is the step from `SpareThread` to `SessionsEnd`: the theorem says that a thread
is free or comes free, TLC that the sessions end.

## 8. Abstractions and what is left out

- Session and submission ids are drawn from two random bytes; the models take
  draws to differ.
- The drain of the broker streams and the log files are one step of `Unwind` in
  `Sessions`; `SessionLog` has them in detail. Lines, events and bars are known
  by their number.
- Of the broker, the contents of parameters and state are left out: each call
  reads or assigns one entry under the lock. Its maps by session are never
  emptied; the models are bounded.
- The executor's order is kept, gRPC delivers a stream in order and a call at
  most once; a broken call loses what was on its way.
- A bar whose maximum changes, and the drawing of the screen, are up to the bar
  library, which is not in the repository.
- `tag` of `api.py` (62) replaces the process's `WorkDaemon` when it decorates a
  function called in the process of an entrypoint; the example calls such
  functions remotely only, and the decorators are not modelled.
- Commands that print what the daemon answers (`status`, `steps`, `sessions`,
  `logs`) and the parsing of arguments change no state.
- A cluster or broker the daemon did not start is considered in connect mode.
- A handler that has answered "ok" but not yet set the flag is gone when the
  process ends.
- `ray` commands succeed or fail as a whole, except that a failed `ray up`, a
  killed submission and a lost client may have had their effect.
- Parsing, printing, argument handling, installation scripts and generated
  stubs hold no state that more than one step touches.
