------------------------------ MODULE Sessions ------------------------------
(***************************************************************************)
(* The sessions of one manta daemon (cli/daemon.go).                       *)
(*                                                                         *)
(* `manta-pipeline run` starts a session: a worker goroutine that executes *)
(* the resolved steps one after the other, the works of a step in parallel *)
(* goroutines, each work as a Ray job followed by a `ray job submit`       *)
(* client process (or as a local process).  `stop` and `stopall` cancel    *)
(* sessions and stop their Ray jobs from yet another goroutine; the        *)
(* daemon's own context cancels all of them; and the process may end while *)
(* any of this is under way.                                               *)
(*                                                                         *)
(* Session identifiers and submission identifiers are random hex strings;  *)
(* two draws are taken to differ, so a session is named by its id and a    *)
(* submission by its session and work.                                     *)
(***************************************************************************)
EXTENDS Naturals, Sequences, FiniteSets, Plan

CONSTANTS
  Session,    \* ids that startSession may draw (the bound on started sessions)
  Work,       \* work contexts, pipeline.stage.name
  Plans,      \* the step lists that resolveWorks may return
  LocalWork   \* works with LocalMode set, in a daemon that has a cluster

\* As StepsArePlan of WorkGraph has it.
ASSUME PlansAssumption == \A p \in Plans : IsPlan(p, Work)
ASSUME LocalWorkAssumption == LocalWork \subseteq Work

VARIABLES
  ready,        \* the brokerReady channel is closed
  ctxDone,      \* the daemon's context is cancelled
  exited,       \* the daemon process has ended
  steps,        \* per session, the resolved steps
  status,       \* runnerSession.Status; "none" when not in daemonStatus.sessions
  currentStep,  \* runnerSession.CurrentStep, counted from 1 (0 before the first)
  workStatus,   \* WorkRunState.Status; "none" before initWorks
  rayJobIDs,    \* runnerSession.rayJobIDs, each id standing for its work
  cancelled,    \* the session's context is done
  pc,           \* where runSessionWorker is
  wpc,          \* where the goroutine of each work is (runOne, submitWork)
  errs,         \* works whose submitWork returned an error
  params,       \* per work: "unset", "set" on the broker, or "lost" (RPC error)
  stopping,     \* `ray job stop` calls queued by stopRayJobs
  job,          \* Ray's view of each submitted job
  doneFile      \* the .done marker of the session exists

daemonVars == <<ready, ctxDone, exited>>
workVars   == <<workStatus, wpc, errs, rayJobIDs, params>>
vars == <<daemonVars, steps, status, currentStep, workVars, cancelled, pc,
          stopping, job, doneFile>>

WorkerPcs == {"none", "init", "subscribe", "prepare", "check", "wait",
              "unwind", "gone"}
RunnerPcs == {"idle", "begin", "register", "add", "exec", "attached",
              "orphaned", "remove", "mark", "returned"}

Terminal == {"done", "failed"}
Ended    == {"succeeded", "failed", "stopped"}

WorkStates == {"none", "pending", "running", "done", "failed"}
JobStates  == {"absent", "requested", "running"} \cup Ended

StepOf(s)  == steps[s][currentStep[s]]
Planned(s) == UNION {steps[s][i] : i \in 1..Len(steps[s])}

Init ==
  /\ ready = FALSE
  /\ ctxDone = FALSE
  /\ exited = FALSE
  /\ steps = [s \in Session |-> <<>>]
  /\ status = [s \in Session |-> "none"]
  /\ currentStep = [s \in Session |-> 0]
  /\ workStatus = [s \in Session |-> [w \in Work |-> "none"]]
  /\ rayJobIDs = [s \in Session |-> {}]
  /\ cancelled = [s \in Session |-> FALSE]
  /\ pc = [s \in Session |-> "none"]
  /\ wpc = [s \in Session |-> [w \in Work |-> "idle"]]
  /\ errs = [s \in Session |-> {}]
  /\ params = [s \in Session |-> [w \in Work |-> "unset"]]
  /\ stopping = [s \in Session |-> {}]
  /\ job = [s \in Session |-> [w \in Work |-> "absent"]]
  /\ doneFile = [s \in Session |-> FALSE]

-----------------------------------------------------------------------------
(* The daemon around the sessions.                                         *)

\* startBroker publishes the broker client, then closes brokerReady.
BrokerReady ==
  /\ ~exited /\ ~ready
  /\ ready' = TRUE
  /\ UNCHANGED <<ctxDone, exited, steps, status, currentStep, workVars,
                 cancelled, pc, stopping, job, doneFile>>

\* A signal, a failed start or a shutdown/disconnect command cancels the
\* daemon's context, and with it the context of every session.
CancelDaemon ==
  /\ ~exited /\ ~ctxDone
  /\ ctxDone' = TRUE
  /\ cancelled' = [s \in Session |-> cancelled[s] \/ pc[s] # "none"]
  /\ UNCHANGED <<ready, exited, steps, status, currentStep, workVars, pc,
                 stopping, job, doneFile>>

\* runDaemon returns, or the process is killed: every goroutine is gone.  It
\* waits for no session.  Ray and the client processes go on.
ExitDaemon ==
  /\ ~exited
  /\ exited' = TRUE
  /\ UNCHANGED <<ready, ctxDone, steps, status, currentStep, workVars,
                 cancelled, pc, stopping, job, doneFile>>

\* A "run" command.  The wait for brokerReady and ctx.Done picks either when
\* both are ready, so a session may start under a context already cancelled.
StartSession(s, p) ==
  /\ ~exited /\ ready
  /\ pc[s] = "none"
  /\ steps' = [steps EXCEPT ![s] = p]
  /\ status' = [status EXCEPT ![s] = "running"]
  /\ cancelled' = [cancelled EXCEPT ![s] = ctxDone]
  /\ pc' = [pc EXCEPT ![s] = "init"]
  /\ UNCHANGED <<daemonVars, currentStep, workVars, stopping, job, doneFile>>

\* Seeded fault: stop records a verdict of its own, which no reader knows.
CancelSessionMarks(s) ==
  /\ ~exited
  /\ status[s] = "running"
  /\ cancelled' = [cancelled EXCEPT ![s] = TRUE]
  /\ status' = [status EXCEPT ![s] = "cancelled"]
  /\ stopping' = [stopping EXCEPT ![s] = @ \cup rayJobIDs[s]]
  /\ UNCHANGED <<daemonVars, steps, currentStep, workVars, pc, job, doneFile>>

\* A "stop <id>" command; it is an error, without effect, unless the session
\* is running.
CancelSession(s) ==
  /\ ~exited
  /\ status[s] = "running"
  /\ cancelled' = [cancelled EXCEPT ![s] = TRUE]
  /\ stopping' = [stopping EXCEPT ![s] = @ \cup rayJobIDs[s]]
  /\ UNCHANGED <<daemonVars, steps, status, currentStep, workVars, pc, job,
                 doneFile>>

\* A "stopall" command: one critical section over all sessions.
CancelAllSessions ==
  /\ ~exited
  /\ \E s \in Session : status[s] = "running"
  /\ cancelled' = [s \in Session |-> cancelled[s] \/ status[s] = "running"]
  /\ stopping' = [s \in Session |->
             IF status[s] = "running" THEN stopping[s] \cup rayJobIDs[s]
                                      ELSE stopping[s]]
  /\ UNCHANGED <<daemonVars, steps, status, currentStep, workVars, pc, job,
                 doneFile>>

\* Seeded fault: `ray job stop` is called without the submission id.
StopRayJobUnnamed(s, w) ==
  /\ w \in stopping[s]
  /\ stopping' = [stopping EXCEPT ![s] = @ \ {w}]
  /\ UNCHANGED <<daemonVars, steps, status, currentStep, workVars, cancelled,
                 pc, job, doneFile>>

\* stopRayJobs runs `ray job stop` and ignores its outcome: the call has no
\* effect on a job that Ray does not have (yet) or that has ended.  A command
\* that was started outlives the daemon.
StopRayJob(s, w) ==
  /\ w \in stopping[s]
  /\ stopping' = [stopping EXCEPT ![s] = @ \ {w}]
  /\ job' = [job EXCEPT ![s][w] = IF @ = "running" THEN "stopped" ELSE @]
  /\ UNCHANGED <<daemonVars, steps, status, currentStep, workVars, cancelled,
                 pc, doneFile>>

-----------------------------------------------------------------------------
(* runSessionWorker.                                                       *)

At(s, label) == ~exited /\ pc[s] = label

\* setSessionStatus(id, "failed"); return
Fail(s) ==
  /\ status' = [status EXCEPT ![s] = "failed"]
  /\ pc' = [pc EXCEPT ![s] = "unwind"]

\* Open the api log, then record every planned work as pending.
InitWorks(s) ==
  /\ At(s, "init")
  /\ \/ Fail(s) /\ UNCHANGED workStatus
     \/ /\ workStatus' = [workStatus EXCEPT ![s] =
             [w \in Work |-> IF w \in Planned(s) THEN "pending" ELSE "none"]]
        /\ pc' = [pc EXCEPT ![s] = "subscribe"]
        /\ UNCHANGED status
  /\ UNCHANGED <<daemonVars, steps, currentStep, wpc, errs, rayJobIDs, params,
                 cancelled, stopping, job, doneFile>>

\* Seeded fault: subscribing is retried until it succeeds.
SubscribeForever(s) ==
  /\ At(s, "subscribe")
  /\ ~cancelled[s]
  /\ pc' = [pc EXCEPT ![s] = "prepare"]
  /\ UNCHANGED <<daemonVars, steps, status, currentStep, workVars, cancelled,
                 stopping, job, doneFile>>

\* Subscribe and SubscribeProgressBars, each tried 20 times; every try fails
\* on a cancelled context.
Subscribe(s) ==
  /\ At(s, "subscribe")
  /\ \/ Fail(s)
     \/ /\ ~cancelled[s]
        /\ pc' = [pc EXCEPT ![s] = "prepare"]
        /\ UNCHANGED status
  /\ UNCHANGED <<daemonVars, steps, currentStep, workVars, cancelled, stopping,
                 job, doneFile>>

\* The work directory: mkdir, `cp` under the session's context, the package.
Prepare(s) ==
  /\ At(s, "prepare")
  /\ \/ Fail(s)
     \/ /\ ~cancelled[s]
        /\ pc' = [pc EXCEPT ![s] = "check"]
        /\ UNCHANGED status
  /\ UNCHANGED <<daemonVars, steps, currentStep, workVars, cancelled, stopping,
                 job, doneFile>>

MoreSteps(s) == currentStep[s] < Len(steps[s])

\* The top of the step loop finds the context done.
StepCancelled(s) ==
  /\ At(s, "check")
  /\ MoreSteps(s)
  /\ cancelled[s]
  /\ Fail(s)
  /\ UNCHANGED <<daemonVars, steps, currentStep, workVars, cancelled, stopping,
                 job, doneFile>>

\* Otherwise it announces the step and starts one goroutine per work (a step
\* of one work runs in the worker itself).
BeginStep(s) ==
  /\ At(s, "check")
  /\ MoreSteps(s)
  /\ ~cancelled[s]
  /\ currentStep' = [currentStep EXCEPT ![s] = @ + 1]
  /\ wpc' = [wpc EXCEPT ![s] =
       [w \in Work |-> IF w \in steps[s][currentStep[s] + 1]
                       THEN "begin" ELSE wpc[s][w]]]
  /\ pc' = [pc EXCEPT ![s] = "wait"]
  /\ UNCHANGED <<daemonVars, steps, status, workStatus, errs, rayJobIDs, params,
                 cancelled, stopping, job, doneFile>>

\* Seeded faults: the step ends with its first work; or with its first failure.
AnyReturned(s) == \E w \in StepOf(s) : wpc[s][w] = "returned"
FailFast(s) ==
  \/ \E w \in StepOf(s) : w \in errs[s] /\ wpc[s][w] = "returned"
  \/ \A w \in StepOf(s) : wpc[s][w] = "returned"

\* What wg.Wait waits for.
StepReturned(s) == \A w \in StepOf(s) : wpc[s][w] = "returned"

\* Seeded fault: the results of the works are only logged.
EndStepLogging(s) ==
  /\ At(s, "wait")
  /\ StepReturned(s)
  /\ pc' = [pc EXCEPT ![s] = "check"]
  /\ UNCHANGED <<daemonVars, steps, status, currentStep, workVars, cancelled,
                 stopping, job, doneFile>>

\* After the wait, one failed work fails the session.
EndStep(s) ==
  /\ At(s, "wait")
  /\ StepReturned(s)
  /\ IF StepOf(s) \cap errs[s] # {}
     THEN Fail(s)
     ELSE pc' = [pc EXCEPT ![s] = "check"] /\ UNCHANGED status
  /\ UNCHANGED <<daemonVars, steps, currentStep, workVars, cancelled, stopping,
                 job, doneFile>>

\* The loop is over; the context is not looked at again.
FinishSession(s) ==
  /\ At(s, "check")
  /\ ~MoreSteps(s)
  /\ status' = [status EXCEPT ![s] = "done"]
  /\ pc' = [pc EXCEPT ![s] = "unwind"]
  /\ UNCHANGED <<daemonVars, steps, currentStep, workVars, cancelled, stopping,
                 job, doneFile>>

\* The deferred calls: drain the broker streams (at most 5s), close the logs,
\* write the .done marker, cancel the session's context.
Unwind(s) ==
  /\ At(s, "unwind")
  /\ doneFile' = [doneFile EXCEPT ![s] = TRUE]
  /\ cancelled' = [cancelled EXCEPT ![s] = TRUE]
  /\ pc' = [pc EXCEPT ![s] = "gone"]
  /\ UNCHANGED <<daemonVars, steps, status, currentStep, workVars, stopping,
                 job>>

-----------------------------------------------------------------------------
(* runOne and submitWork, one goroutine per work of the current step.      *)

RunnerAt(s, w, label) == ~exited /\ wpc[s][w] = label

Goto(s, w, label) == wpc' = [wpc EXCEPT ![s][w] = label]

\* A remote work has a submission id to forget; a local one has none.
AfterProcess(w) == IF w \in LocalWork THEN "mark" ELSE "remove"

\* Seeded fault: the parameters are not registered.
MarkWorkRunningOnly(s, w) ==
  /\ RunnerAt(s, w, "begin")
  /\ workStatus' = [workStatus EXCEPT ![s][w] = "running"]
  /\ Goto(s, w, IF w \in LocalWork THEN "exec" ELSE "add")
  /\ UNCHANGED <<daemonVars, steps, status, currentStep, errs, rayJobIDs,
                 params, cancelled, pc, stopping, job, doneFile>>

MarkWorkRunning(s, w) ==
  /\ RunnerAt(s, w, "begin")
  /\ workStatus' = [workStatus EXCEPT ![s][w] = "running"]
  /\ Goto(s, w, "register")
  /\ UNCHANGED <<daemonVars, steps, status, currentStep, errs, rayJobIDs,
                 params, cancelled, pc, stopping, job, doneFile>>

\* RegisterParams; an error (certain on a cancelled context) is only logged.
RegisterParams(s, w) ==
  /\ RunnerAt(s, w, "register")
  /\ \E r \in IF cancelled[s] THEN {"lost"} ELSE {"set", "lost"} :
       params' = [params EXCEPT ![s][w] = r]
  /\ Goto(s, w, IF w \in LocalWork THEN "exec" ELSE "add")
  /\ UNCHANGED <<daemonVars, steps, status, currentStep, workStatus, errs,
                 rayJobIDs, cancelled, pc, stopping, job, doneFile>>

\* Seeded fault: the submission id is drawn but not recorded.
AddNoRayJob(s, w) ==
  /\ RunnerAt(s, w, "add")
  /\ Goto(s, w, "exec")
  /\ UNCHANGED <<daemonVars, steps, status, currentStep, workStatus, errs,
                 rayJobIDs, params, cancelled, pc, stopping, job, doneFile>>

AddRayJob(s, w) ==
  /\ RunnerAt(s, w, "add")
  /\ rayJobIDs' = [rayJobIDs EXCEPT ![s] = @ \cup {w}]
  /\ Goto(s, w, "exec")
  /\ UNCHANGED <<daemonVars, steps, status, currentStep, workStatus, errs,
                 params, cancelled, pc, stopping, job, doneFile>>

\* exec.CommandContext(...).Start refuses a done context; it may also fail by
\* itself.
StartProcess(s, w) ==
  /\ RunnerAt(s, w, "exec")
  /\ \/ /\ ~cancelled[s]
        /\ Goto(s, w, "attached")
        /\ UNCHANGED errs
     \/ /\ errs' = [errs EXCEPT ![s] = @ \cup {w}]
        /\ Goto(s, w, AfterProcess(w))
  /\ UNCHANGED <<daemonVars, steps, status, currentStep, workStatus, rayJobIDs,
                 params, cancelled, pc, stopping, job, doneFile>>

\* Seeded fault: the client is run with --no-wait.
ExitNoWait(s, w) == w \in LocalWork \/ job[s][w] \notin {"absent", "requested"}

\* When the process may end with exit status 0: a local script at any time,
\* `ray job submit` only after its job succeeded.
ExitOK(s, w) == w \in LocalWork \/ job[s][w] = "succeeded"

\* A process nobody killed ends, the output pipe closes, cmd.Wait returns.  A
\* script, or a client that loses the dashboard, may fail at any time.
ProcessExit(s, w) ==
  /\ RunnerAt(s, w, "attached")
  /\ \/ ExitOK(s, w) /\ UNCHANGED errs
     \/ errs' = [errs EXCEPT ![s] = @ \cup {w}]
  /\ Goto(s, w, AfterProcess(w))
  /\ UNCHANGED <<daemonVars, steps, status, currentStep, workStatus, rayJobIDs,
                 params, cancelled, pc, stopping, job, doneFile>>

\* The context is done: `uv` is killed.  The python process under it may die
\* with it, which closes the pipe, or survive and hold the pipe open.
KillProcess(s, w) ==
  /\ RunnerAt(s, w, "attached")
  /\ cancelled[s]
  /\ errs' = [errs EXCEPT ![s] = @ \cup {w}]
  /\ \E next \in {AfterProcess(w), "orphaned"} : Goto(s, w, next)
  /\ UNCHANGED <<daemonVars, steps, status, currentStep, workStatus, rayJobIDs,
                 params, cancelled, pc, stopping, job, doneFile>>

\* The survivor ends: a local script by itself, a submit client once its job
\* has ended or because it lost the dashboard.
OrphanExit(s, w) ==
  /\ RunnerAt(s, w, "orphaned")
  /\ Goto(s, w, AfterProcess(w))
  /\ UNCHANGED <<daemonVars, steps, status, currentStep, workStatus, errs,
                 rayJobIDs, params, cancelled, pc, stopping, job, doneFile>>

RemoveRayJob(s, w) ==
  /\ RunnerAt(s, w, "remove")
  /\ rayJobIDs' = [rayJobIDs EXCEPT ![s] = @ \ {w}]
  /\ Goto(s, w, "mark")
  /\ UNCHANGED <<daemonVars, steps, status, currentStep, workStatus, errs,
                 params, cancelled, pc, stopping, job, doneFile>>

MarkWorkDone(s, w) ==
  /\ RunnerAt(s, w, "mark")
  /\ workStatus' = [workStatus EXCEPT ![s][w] =
                      IF w \in errs[s] THEN "failed" ELSE "done"]
  /\ Goto(s, w, "returned")
  /\ UNCHANGED <<daemonVars, steps, status, currentStep, errs, rayJobIDs,
                 params, cancelled, pc, stopping, job, doneFile>>

-----------------------------------------------------------------------------
(* Ray.                                                                    *)

\* The client posts its request; a client outlives the daemon.
PostJob(s, w) ==
  /\ wpc[s][w] \in {"attached", "orphaned"}
  /\ w \notin LocalWork
  /\ job[s][w] = "absent"
  /\ job' = [job EXCEPT ![s][w] = "requested"]
  /\ UNCHANGED <<daemonVars, steps, status, currentStep, workVars, cancelled,
                 pc, stopping, doneFile>>

\* Ray takes the request up, whatever became of the client meanwhile.
AcceptJob(s, w) ==
  /\ job[s][w] = "requested"
  /\ job' = [job EXCEPT ![s][w] = "running"]
  /\ UNCHANGED <<daemonVars, steps, status, currentStep, workVars, cancelled,
                 pc, stopping, doneFile>>

EndJob(s, w) ==
  /\ job[s][w] = "running"
  /\ \E r \in {"succeeded", "failed"} : job' = [job EXCEPT ![s][w] = r]
  /\ UNCHANGED <<daemonVars, steps, status, currentStep, workVars, cancelled,
                 pc, stopping, doneFile>>

-----------------------------------------------------------------------------
Worker(s) ==
  \/ InitWorks(s) \/ Subscribe(s) \/ Prepare(s) \/ StepCancelled(s)
  \/ BeginStep(s) \/ EndStep(s) \/ FinishSession(s) \/ Unwind(s)

Runner(s, w) ==
  \/ MarkWorkRunning(s, w) \/ RegisterParams(s, w) \/ AddRayJob(s, w)
  \/ StartProcess(s, w) \/ ProcessExit(s, w) \/ KillProcess(s, w)
  \/ OrphanExit(s, w) \/ RemoveRayJob(s, w) \/ MarkWorkDone(s, w)

Next ==
  \/ BrokerReady \/ CancelDaemon \/ ExitDaemon \/ CancelAllSessions
  \/ \E s \in Session :
       \/ \E p \in Plans : StartSession(s, p)
       \/ CancelSession(s)
       \/ Worker(s)
       \/ \E w \in Work :
            \/ Runner(s, w) \/ StopRayJob(s, w)
            \/ PostJob(s, w) \/ AcceptJob(s, w) \/ EndJob(s, w)

Spec == Init /\ [][Next]_vars

-----------------------------------------------------------------------------
(* Fairness.  The Go scheduler runs every goroutine that can run, RPCs and  *)
(* `ray` commands return, Ray answers a submission.  A process is expected  *)
(* to end only once its job is over (a local script: by itself).            *)

ProcessReturns(s, w) ==
  /\ w \in LocalWork \/ job[s][w] \in Ended
  /\ ProcessExit(s, w) \/ OrphanExit(s, w)

Goroutine(s, w) ==
  \/ MarkWorkRunning(s, w) \/ RegisterParams(s, w) \/ AddRayJob(s, w)
  \/ StartProcess(s, w) \/ KillProcess(s, w) \/ RemoveRayJob(s, w)
  \/ MarkWorkDone(s, w)

Fairness ==
  \A s \in Session :
    /\ WF_vars(Worker(s))
    /\ \A w \in Work :
         /\ WF_vars(Goroutine(s, w))
         /\ WF_vars(ProcessReturns(s, w))
         /\ WF_vars(PostJob(s, w))
         /\ WF_vars(AcceptJob(s, w))
         /\ WF_vars(~exited /\ StopRayJob(s, w))

\* Jobs run for as long as they like, possibly for ever.
FairSpec == Spec /\ Fairness

\* Every job ends.
JobsEndSpec == FairSpec /\ \A s \in Session, w \in Work : WF_vars(EndJob(s, w))

-----------------------------------------------------------------------------
(* Properties.                                                             *)

DaemonType ==
  /\ ready \in BOOLEAN /\ ctxDone \in BOOLEAN /\ exited \in BOOLEAN
  /\ cancelled \in [Session -> BOOLEAN]
  /\ doneFile \in [Session -> BOOLEAN]

WorkerType ==
  /\ steps \in [Session -> Plans \cup {<<>>}]
  /\ status \in [Session -> {"none", "running"} \cup Terminal]
  /\ currentStep \in [Session -> Nat]
  /\ pc \in [Session -> WorkerPcs]

RunnerType ==
  /\ workStatus \in [Session -> [Work -> WorkStates]]
  /\ wpc \in [Session -> [Work -> RunnerPcs]]
  /\ errs \in [Session -> SUBSET Work]
  /\ rayJobIDs \in [Session -> SUBSET Work]

RayType ==
  /\ params \in [Session -> [Work -> {"unset", "set", "lost"}]]
  /\ stopping \in [Session -> SUBSET Work]
  /\ job \in [Session -> [Work -> JobStates]]

TypeOK == DaemonType /\ WorkerType /\ RunnerType /\ RayType

\* The barrier between steps: a work has left "pending" only if every work of
\* every earlier step is done.
StepOrder ==
  \A s \in Session : \A i, j \in 1..Len(steps[s]) : j < i =>
    \A w \in steps[s][i], v \in steps[s][j] :
      workStatus[s][w] \in {"running", "done", "failed"} =>
        workStatus[s][v] = "done"

\* A session that has reported its verdict is over: no work is still running
\* and no submission is still listed for `stop`.
TerminalQuiet ==
  \A s \in Session : status[s] \in Terminal =>
    /\ rayJobIDs[s] = {}
    /\ \A w \in Work : workStatus[s][w] # "running"

\* "done" is said only of a session whose every planned work is done, and
\* every remote one by a Ray job that succeeded, cancelled or not.
DoneMeansSucceeded ==
  \A s \in Session : status[s] = "done" =>
    \A w \in Planned(s) :
      /\ workStatus[s][w] = "done"
      /\ w \in LocalWork \/ job[s][w] = "succeeded"

\* A job that Ray runs, or is about to, is one that `stop` would name, or its
\* work's failure is already decided.  This is what recording the submission id
\* before the submission is for.
JobTracked ==
  \A s \in Session, w \in Work : job[s][w] \in {"requested", "running"} =>
    w \in rayJobIDs[s] \/ w \in errs[s]

\* A job never runs ahead of its RegisterParams call: the broker has the
\* parameters, or the call has failed.
ParamsBeforeJob ==
  \A s \in Session, w \in Work :
    job[s][w] # "absent" => params[s][w] # "unset"

\* Once a session has reported its verdict, no client of it posts a job, not
\* even one that survived being killed.
NoPostAfterEnd ==
  [][\A s \in Session, w \in Work :
       status[s] \in Terminal /\ job[s][w] = "absent" => job'[s][w] = "absent"
    ]_vars

\* The session refines the promise of a staged run.
StagedRun == INSTANCE StagedRun
StagedRunSpec == StagedRun!Spec

\* If jobs end, every started session ends with its .done marker, unless the
\* daemon ends first.
SessionEnds ==
  \A s \in Session : status[s] = "running" ~> doneFile[s] \/ exited

\* The session is cancelled, and each submit client at work has a job that has
\* ended or that a queued `ray job stop` is about to reach.
StopReaches(s) ==
  /\ status[s] = "running" /\ cancelled[s]
  /\ \A w \in Work \ LocalWork : wpc[s][w] \in {"attached", "orphaned"} =>
       \/ job[s][w] \in Ended
       \/ job[s][w] = "running" /\ w \in stopping[s]

\* `stop` ends a session even when its jobs would run for ever, provided that
\* Ray had them all when their ids were copied; unless the daemon ends first.
StopEndsSession ==
  \A s \in Session : StopReaches(s) ~> doneFile[s] \/ exited
=============================================================================
