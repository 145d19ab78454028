--------------------------- MODULE SessionsProofs ---------------------------
(* Theorems about Sessions, for any sets of sessions, works and plans.       *)
EXTENDS Sessions, TLAPS

\* The daemon's own flags, and the context and marker of each session.
LEMMA DaemonTypeStep == DaemonType /\ [Next]_vars => DaemonType'
<1> SUFFICES ASSUME DaemonType, [Next]_vars
             PROVE  DaemonType'
  OBVIOUS
<1> USE DEF DaemonType
<1>1. CASE BrokerReady \/ CancelDaemon \/ ExitDaemon \/ CancelAllSessions
  <2>1. CASE BrokerReady \/ ExitDaemon
    BY <2>1 DEF BrokerReady, ExitDaemon
  <2>2. CASE CancelDaemon
    BY <2>2 DEF CancelDaemon
  <2>3. CASE CancelAllSessions
    BY <2>3 DEF CancelAllSessions, daemonVars
  <2> QED
    BY <1>1, <2>1, <2>2, <2>3
<1>2. ASSUME NEW s \in Session, NEW p \in Plans, StartSession(s, p)
      PROVE  DaemonType'
  BY <1>2 DEF StartSession, daemonVars
<1>3. ASSUME NEW s \in Session, CancelSession(s)
      PROVE  DaemonType'
  BY <1>3 DEF CancelSession, daemonVars
<1>4. ASSUME NEW s \in Session, Worker(s)
      PROVE  DaemonType'
  <2>1. CASE Unwind(s)
    BY <2>1 DEF Unwind, daemonVars
  <2>2. CASE ~Unwind(s)
    <3>1. UNCHANGED <<ready, ctxDone, exited, cancelled, doneFile>>
      BY <1>4, <2>2 DEF Worker, InitWorks, Subscribe, Prepare, StepCancelled,
         BeginStep, EndStep, FinishSession, daemonVars
    <3> QED
      BY <3>1
  <2> QED
    BY <2>1, <2>2
<1>5. ASSUME NEW s \in Session, NEW w \in Work,
             Runner(s, w) \/ StopRayJob(s, w) \/ PostJob(s, w)
               \/ AcceptJob(s, w) \/ EndJob(s, w)
      PROVE  DaemonType'
  <2>1. UNCHANGED <<ready, ctxDone, exited, cancelled, doneFile>>
    BY <1>5 DEF Runner, MarkWorkRunning, RegisterParams, AddRayJob,
       StartProcess, ProcessExit, KillProcess, OrphanExit, RemoveRayJob,
       MarkWorkDone, StopRayJob, PostJob, AcceptJob, EndJob, daemonVars
  <2> QED
    BY <2>1
<1>6. CASE UNCHANGED vars
  BY <1>6 DEF vars, daemonVars
<1> QED
  BY <1>1, <1>2, <1>3, <1>4, <1>5, <1>6 DEF Next

\* What runSessionWorker keeps.
LEMMA WorkerTypeStep == WorkerType /\ [Next]_vars => WorkerType'
<1> SUFFICES ASSUME WorkerType, [Next]_vars
             PROVE  WorkerType'
  OBVIOUS
<1> USE DEF WorkerType, WorkerPcs, Terminal
<1>1. ASSUME NEW s \in Session, NEW p \in Plans, StartSession(s, p)
      PROVE  WorkerType'
  BY <1>1 DEF StartSession
<1>2. ASSUME NEW s \in Session, Worker(s)
      PROVE  WorkerType'
  <2>1. \E l \in WorkerPcs : pc' = [pc EXCEPT ![s] = l]
    BY <1>2 DEF Worker, InitWorks, Subscribe, Prepare, StepCancelled,
       BeginStep, EndStep, FinishSession, Unwind, Fail
  <2>2. UNCHANGED status \/ \E r \in Terminal : status' = [status EXCEPT ![s] = r]
    BY <1>2 DEF Worker, InitWorks, Subscribe, Prepare, StepCancelled,
       BeginStep, EndStep, FinishSession, Unwind, Fail
  <2>3. UNCHANGED currentStep \/ currentStep' = [currentStep EXCEPT ![s] = @ + 1]
    BY <1>2 DEF Worker, InitWorks, Subscribe, Prepare, StepCancelled,
       BeginStep, EndStep, FinishSession, Unwind
  <2>4. UNCHANGED steps
    BY <1>2 DEF Worker, InitWorks, Subscribe, Prepare, StepCancelled,
       BeginStep, EndStep, FinishSession, Unwind
  <2>5. pc' \in [Session -> WorkerPcs] BY <2>1
  <2>6. status' \in [Session -> {"none", "running"} \cup Terminal] BY <2>2
  <2>7. currentStep' \in [Session -> Nat] BY <2>3
  <2> QED
    BY <2>4, <2>5, <2>6, <2>7
<1>3. CASE UNCHANGED <<steps, status, currentStep, pc>>
  BY <1>3
<1>4. ASSUME NEW s \in Session, NEW w \in Work,
             Runner(s, w) \/ StopRayJob(s, w) \/ PostJob(s, w)
               \/ AcceptJob(s, w) \/ EndJob(s, w)
      PROVE  UNCHANGED <<steps, status, currentStep, pc>>
  BY <1>4 DEF Runner, MarkWorkRunning, RegisterParams, AddRayJob,
     StartProcess, ProcessExit, KillProcess, OrphanExit, RemoveRayJob,
     MarkWorkDone, StopRayJob, PostJob, AcceptJob, EndJob
<1>5. CASE BrokerReady \/ CancelDaemon \/ ExitDaemon \/ CancelAllSessions
             \/ UNCHANGED vars
  BY <1>3, <1>5
     DEF BrokerReady, CancelDaemon, ExitDaemon, CancelAllSessions, vars
<1>6. ASSUME NEW s \in Session, CancelSession(s)
      PROVE  WorkerType'
  BY <1>3, <1>6 DEF CancelSession
<1> QED
  BY <1>1, <1>2, <1>3, <1>4, <1>5, <1>6 DEF Next

\* What the goroutines of the works keep.
LEMMA RunnerTypeStep == RunnerType /\ [Next]_vars => RunnerType'
<1> SUFFICES ASSUME RunnerType, [Next]_vars
             PROVE  RunnerType'
  OBVIOUS
<1> USE DEF RunnerType, RunnerPcs
<1>1. CASE UNCHANGED <<workStatus, wpc, errs, rayJobIDs>>
  BY <1>1
<1>2. ASSUME NEW s \in Session, Worker(s)
      PROVE  RunnerType'
  <2>1. CASE InitWorks(s)
    <3>1. \/ workStatus' = workStatus
          \/ \E f \in [Work -> WorkStates] :
               workStatus' = [workStatus EXCEPT ![s] = f]
      BY <2>1 DEF InitWorks, WorkStates
    <3>2. workStatus' \in [Session -> [Work -> WorkStates]]
      BY <3>1
    <3> QED
      BY <2>1, <3>2 DEF InitWorks
  <2>2. CASE BeginStep(s)
    BY <2>2 DEF BeginStep
  <2>3. CASE ~InitWorks(s) /\ ~BeginStep(s)
    BY <1>1, <1>2, <2>3 DEF Worker, Subscribe, Prepare, StepCancelled, EndStep,
       FinishSession, Unwind, workVars
  <2> QED
    BY <2>1, <2>2, <2>3
<1>3. ASSUME NEW s \in Session, NEW w \in Work, Runner(s, w)
      PROVE  RunnerType'
  <2>1. \E l \in RunnerPcs : Goto(s, w, l)
    BY <1>3 DEF Runner, MarkWorkRunning, RegisterParams, AddRayJob,
       StartProcess, ProcessExit, KillProcess, OrphanExit, RemoveRayJob,
       MarkWorkDone, AfterProcess
  <2>2. wpc' \in [Session -> [Work -> RunnerPcs]]
    BY <2>1 DEF Goto
  <2>3. errs' \in [Session -> SUBSET Work]
    <3>1. \/ errs' = errs
          \/ errs' = [errs EXCEPT ![s] = @ \cup {w}]
      BY <1>3 DEF Runner, MarkWorkRunning, RegisterParams, AddRayJob,
         StartProcess, ProcessExit, KillProcess, OrphanExit, RemoveRayJob,
         MarkWorkDone
    <3> QED
      BY <3>1
  <2>4. rayJobIDs' \in [Session -> SUBSET Work]
    <3>1. \/ rayJobIDs' = rayJobIDs
          \/ rayJobIDs' = [rayJobIDs EXCEPT ![s] = @ \cup {w}]
          \/ rayJobIDs' = [rayJobIDs EXCEPT ![s] = @ \ {w}]
      BY <1>3 DEF Runner, MarkWorkRunning, RegisterParams, AddRayJob,
         StartProcess, ProcessExit, KillProcess, OrphanExit, RemoveRayJob,
         MarkWorkDone
    <3> QED
      BY <3>1
  <2>5. workStatus' # workStatus =>
          \E v \in WorkStates : workStatus' = [workStatus EXCEPT ![s][w] = v]
    BY <1>3 DEF WorkStates, Runner, MarkWorkRunning, RegisterParams, AddRayJob,
       StartProcess, ProcessExit, KillProcess, OrphanExit, RemoveRayJob,
       MarkWorkDone
  <2>6. workStatus' \in [Session -> [Work -> WorkStates]]
    <3>1. CASE workStatus' = workStatus
      BY <3>1
    <3>2. CASE workStatus' # workStatus
      <4> PICK v \in WorkStates : workStatus' = [workStatus EXCEPT ![s][w] = v]
        BY <2>5, <3>2
      <4> QED
        OBVIOUS
    <3> QED
      BY <3>1, <3>2
  <2> QED
    BY <2>2, <2>3, <2>4, <2>6
<1>4. ASSUME NEW s \in Session,
             \/ CancelSession(s)
             \/ \E p \in Plans : StartSession(s, p)
             \/ \E w \in Work : StopRayJob(s, w) \/ PostJob(s, w)
                                 \/ AcceptJob(s, w) \/ EndJob(s, w)
      PROVE  UNCHANGED <<workStatus, wpc, errs, rayJobIDs>>
  BY <1>4 DEF CancelSession, StartSession, StopRayJob, PostJob, AcceptJob,
     EndJob, workVars
<1>5. CASE BrokerReady \/ CancelDaemon \/ ExitDaemon \/ CancelAllSessions
             \/ UNCHANGED vars
  BY <1>1, <1>5
     DEF BrokerReady, CancelDaemon, ExitDaemon, CancelAllSessions, vars, workVars
<1> QED
  BY <1>1, <1>2, <1>3, <1>4, <1>5 DEF Next

\* What the broker and Ray keep for the works, and the queued stop commands.
LEMMA RayTypeStep == RayType /\ RunnerType /\ [Next]_vars => RayType'
<1> SUFFICES ASSUME RayType, RunnerType, [Next]_vars
             PROVE  RayType'
  OBVIOUS
<1> USE DEF RayType
<1>1. CASE UNCHANGED <<params, stopping, job>>
  BY <1>1
<1>2. ASSUME NEW s \in Session, CancelSession(s)
      PROVE  RayType'
  BY <1>2 DEF CancelSession, workVars, RunnerType
<1>3. CASE CancelAllSessions
  BY <1>3 DEF CancelAllSessions, workVars, RunnerType
<1>4. ASSUME NEW s \in Session, NEW w \in Work, Runner(s, w)
      PROVE  RayType'
  <2>1. CASE RegisterParams(s, w)
    BY <2>1 DEF RegisterParams
  <2>2. CASE ~RegisterParams(s, w)
    BY <1>1, <1>4, <2>2 DEF Runner, MarkWorkRunning, AddRayJob, StartProcess,
       ProcessExit, KillProcess, OrphanExit, RemoveRayJob, MarkWorkDone
  <2> QED
    BY <2>1, <2>2
<1>5. ASSUME NEW s \in Session, NEW w \in Work,
             StopRayJob(s, w) \/ PostJob(s, w) \/ AcceptJob(s, w)
               \/ EndJob(s, w)
      PROVE  RayType'
  <2>1. \E v \in JobStates : job' = [job EXCEPT ![s][w] = v]
    BY <1>5 DEF StopRayJob, PostJob, AcceptJob, EndJob, JobStates, Ended
  <2>2. job' \in [Session -> [Work -> JobStates]]
    BY <2>1
  <2>3. params' = params /\ stopping' \in [Session -> SUBSET Work]
    BY <1>5 DEF StopRayJob, PostJob, AcceptJob, EndJob, workVars
  <2> QED
    BY <2>2, <2>3
<1>6. ASSUME NEW s \in Session,
             Worker(s) \/ \E p \in Plans : StartSession(s, p)
      PROVE  UNCHANGED <<params, stopping, job>>
  BY <1>6 DEF StartSession, Worker, InitWorks, Subscribe, Prepare,
     StepCancelled, BeginStep, EndStep, FinishSession, Unwind, workVars
<1>7. CASE BrokerReady \/ CancelDaemon \/ ExitDaemon \/ UNCHANGED vars
  BY <1>1, <1>7 DEF BrokerReady, CancelDaemon, ExitDaemon, vars, workVars
<1> QED
  BY <1>1, <1>2, <1>3, <1>4, <1>5, <1>6, <1>7 DEF Next

LEMMA TypeInit == Init => TypeOK
<1> SUFFICES ASSUME Init
             PROVE  TypeOK
  OBVIOUS
<1>1. DaemonType
  BY DEF Init, DaemonType
<1>2. WorkerType
  BY DEF Init, WorkerType, WorkerPcs, Terminal
<1>3. RunnerType
  BY DEF Init, RunnerType, RunnerPcs, WorkStates
<1>4. RayType
  BY DEF Init, RayType, JobStates
<1> QED
  BY <1>1, <1>2, <1>3, <1>4 DEF TypeOK

LEMMA TypeStep == TypeOK /\ [Next]_vars => TypeOK'
  BY DaemonTypeStep, WorkerTypeStep, RunnerTypeStep, RayTypeStep DEF TypeOK

\* Every reachable state is well-typed.
THEOREM TypeCorrect == Spec => []TypeOK
  BY TypeInit, TypeStep, PTL DEF Spec

-----------------------------------------------------------------------------
(* The inductive invariant.                                                *)

\* The status says where the worker is, and the step counter is in range.
WorkerInv(s) ==
  /\ status[s] = "none" <=> pc[s] = "none"
  /\ status[s] \in Terminal <=> pc[s] \in {"unwind", "gone"}
  /\ pc[s] # "none" => steps[s] \in Plans
  /\ pc[s] = "none" => steps[s] = <<>>
  /\ currentStep[s] \in 0..Len(steps[s])
  /\ pc[s] \in {"none", "init", "subscribe", "prepare"} => currentStep[s] = 0
  /\ pc[s] = "wait" => currentStep[s] > 0
  /\ status[s] = "done" => currentStep[s] = Len(steps[s])
  /\ pc[s] \in {"none", "init"} => \A w \in Work : workStatus[s][w] = "none"

\* Where the goroutine of a work of step i can be: done with before the
\* current step, not started after it, started in it.
PlaceInv(s) ==
  \A i \in 1..Len(steps[s]) : \A w \in steps[s][i] :
    /\ i < currentStep[s] => wpc[s][w] = "returned" /\ w \notin errs[s]
    /\ i > currentStep[s] => wpc[s][w] = "idle"
    /\ i = currentStep[s] /\ pc[s] = "wait" => wpc[s][w] # "idle"
    /\ i = currentStep[s] /\ pc[s] # "wait" => wpc[s][w] = "returned"
    /\ i = currentStep[s] /\ (pc[s] = "check" \/ status[s] = "done") =>
         w \notin errs[s]
    /\ pc[s] \in {"subscribe", "prepare", "check", "wait"}
         /\ wpc[s][w] \in {"idle", "begin"} => workStatus[s][w] = "pending"

\* What the goroutine of a work has done, by where it is.
WorkInv(s, w) ==
  /\ w \notin Planned(s) => wpc[s][w] = "idle"
  /\ wpc[s][w] \in {"idle", "begin"} => workStatus[s][w] \in {"none", "pending"}
  /\ wpc[s][w] \notin {"idle", "begin", "returned"} =>
       workStatus[s][w] = "running"
  /\ wpc[s][w] = "returned" =>
       workStatus[s][w] = IF w \in errs[s] THEN "failed" ELSE "done"
  /\ wpc[s][w] \in {"idle", "begin", "register", "add", "exec", "attached"} =>
       w \notin errs[s]
  /\ wpc[s][w] = "orphaned" => w \in errs[s]
  /\ w \in rayJobIDs[s] => w \notin LocalWork
  /\ w \in rayJobIDs[s] =>
       wpc[s][w] \in {"exec", "attached", "orphaned", "remove"}
  /\ w \notin LocalWork /\ wpc[s][w] \in {"exec", "attached", "orphaned", "remove"}
       => w \in rayJobIDs[s]
  /\ wpc[s][w] \in {"add", "remove"} => w \notin LocalWork
  /\ job[s][w] # "absent" => w \notin LocalWork
  /\ job[s][w] # "absent" =>
       wpc[s][w] \in {"attached", "orphaned", "remove", "mark", "returned"}
  /\ wpc[s][w] \notin {"idle", "begin", "register"} => params[s][w] # "unset"
  /\ wpc[s][w] \in {"remove", "mark", "returned"} =>
       w \in LocalWork \/ w \in errs[s] \/ job[s][w] = "succeeded"

SessionInv(s) == WorkerInv(s) /\ PlaceInv(s) /\ \A w \in Work : WorkInv(s, w)

Inv == TypeOK /\ \A s \in Session : SessionInv(s)

\* The invariant of a session is about its own state only.
LEMMA OwnState ==
  ASSUME NEW s \in Session, SessionInv(s),
         UNCHANGED <<steps[s], status[s], currentStep[s], pc[s], workStatus[s],
                     wpc[s], errs[s], rayJobIDs[s], params[s], job[s]>>
  PROVE  SessionInv(s)'
<1>1. WorkerInv(s)'
  BY DEF SessionInv, WorkerInv
<1>2. PlaceInv(s)'
  BY DEF SessionInv, PlaceInv
<1>3. ASSUME NEW w \in Work
      PROVE  WorkInv(s, w)'
  BY DEF SessionInv, WorkInv, Planned
<1> QED
  BY <1>1, <1>2, <1>3 DEF SessionInv

\* What every step of a work's goroutine leaves alone.
LEMMA RunnerFrame ==
  ASSUME TypeOK, NEW s \in Session, NEW w \in Work, Runner(s, w)
  PROVE  /\ UNCHANGED <<steps, status, currentStep, pc, job>>
         /\ wpc[s][w] \notin {"idle", "returned"}
         /\ \E l \in RunnerPcs \ {"idle", "begin"} : Goto(s, w, l)
         /\ errs' = errs \/ errs' = [errs EXCEPT ![s] = @ \cup {w}]
         /\ \A t \in Session : t # s =>
              UNCHANGED <<workStatus[t], rayJobIDs[t], params[t]>>
         /\ \A v \in Work \ {w} :
              /\ UNCHANGED <<workStatus[s][v], params[s][v]>>
              /\ v \in rayJobIDs'[s] <=> v \in rayJobIDs[s]
<1> USE DEF Runner, MarkWorkRunning, RegisterParams, AddRayJob, StartProcess,
            ProcessExit, KillProcess, OrphanExit, RemoveRayJob, MarkWorkDone
<1>1. UNCHANGED <<steps, status, currentStep, pc, job>>
  OBVIOUS
<1>2. wpc[s][w] \notin {"idle", "returned"}
  BY DEF RunnerAt
<1>3. \E l \in RunnerPcs \ {"idle", "begin"} : Goto(s, w, l)
  BY DEF AfterProcess, RunnerPcs
<1>4. errs' = errs \/ errs' = [errs EXCEPT ![s] = @ \cup {w}]
  OBVIOUS
<1>5. \A t \in Session : t # s => UNCHANGED workStatus[t]
  BY DEF TypeOK, RunnerType
<1>6. \A t \in Session : t # s => UNCHANGED rayJobIDs[t]
  BY DEF TypeOK, RunnerType
<1>7. \A t \in Session : t # s => UNCHANGED params[t]
  BY DEF TypeOK, RayType
<1>8. \A v \in Work \ {w} : UNCHANGED workStatus[s][v]
  BY DEF TypeOK, RunnerType
<1>9. \A v \in Work \ {w} : UNCHANGED params[s][v]
  BY DEF TypeOK, RayType
<1>10. \A v \in Work \ {w} : v \in rayJobIDs'[s] <=> v \in rayJobIDs[s]
  BY DEF TypeOK, RunnerType
<1> QED
  BY <1>1, <1>2, <1>3, <1>4, <1>5, <1>6, <1>7, <1>8, <1>9, <1>10

\* A plan is made of non-empty, disjoint steps of works.
LEMMA PlanShape ==
  ASSUME NEW p \in Plans
  PROVE  /\ Len(p) \in Nat
         /\ \A i \in 1..Len(p) : p[i] \subseteq Work /\ p[i] # {}
         /\ \A i, j \in 1..Len(p) : i # j => p[i] \cap p[j] = {}
  BY PlansAssumption DEF IsPlan

LEMMA RunnerInv ==
  ASSUME Inv, NEW s \in Session, NEW w \in Work, Runner(s, w)
  PROVE  \A t \in Session : SessionInv(t)'
<1> USE DEF Inv
<1>1. PICK l \in RunnerPcs \ {"idle", "begin"} : Goto(s, w, l)
  BY RunnerFrame
<1>2. /\ wpc'[s][w] = l
      /\ \A v \in Work \ {w} : UNCHANGED wpc[s][v]
      /\ \A t \in Session \ {s} : UNCHANGED <<wpc[t], errs[t]>>
      /\ errs'[s] \in {errs[s], errs[s] \cup {w}}
  <2>1. wpc' = [wpc EXCEPT ![s][w] = l]
    BY <1>1 DEF Goto
  <2>2. wpc \in [Session -> [Work -> RunnerPcs]]
    BY DEF TypeOK, RunnerType
  <2>3. errs \in [Session -> SUBSET Work]
    BY DEF TypeOK, RunnerType
  <2>4. errs' = errs \/ errs' = [errs EXCEPT ![s] = @ \cup {w}]
    BY RunnerFrame
  <2>5. /\ \A t \in Session \ {s} : UNCHANGED errs[t]
        /\ errs'[s] \in {errs[s], errs[s] \cup {w}}
    BY <2>3, <2>4
  <2>6. /\ wpc'[s][w] = l
        /\ \A v \in Work \ {w} : UNCHANGED wpc[s][v]
        /\ \A t \in Session \ {s} : UNCHANGED wpc[t]
    BY <2>1, <2>2
  <2> QED
    BY <2>5, <2>6
<1>3. ASSUME NEW t \in Session, t # s
      PROVE  SessionInv(t)'
  <2>1. UNCHANGED <<steps[t], status[t], currentStep[t], pc[t], workStatus[t],
                    wpc[t], errs[t], rayJobIDs[t], params[t], job[t]>>
    BY <1>2, <1>3, RunnerFrame
  <2> QED
    BY <2>1, OwnState
<1>4. WorkerInv(s) /\ PlaceInv(s) /\ WorkInv(s, w)
  BY DEF SessionInv
<1>5. /\ wpc[s][w] \notin {"idle", "returned"}
      /\ UNCHANGED <<steps, status, currentStep, pc, job>>
  BY RunnerFrame
<1>6. w \in Planned(s)
  BY <1>4, <1>5 DEF WorkInv
<1>7. pc[s] = "wait"
  <2>1. PICK i \in 1..Len(steps[s]) : w \in steps[s][i]
    BY <1>6 DEF Planned
  <2>2. i = currentStep[s]
    BY <1>4, <1>5, <2>1 DEF PlaceInv, WorkerInv
  <2> QED
    BY <1>4, <1>5, <2>1, <2>2 DEF PlaceInv
<1>8. WorkerInv(s)'
  BY <1>4, <1>5, <1>7 DEF WorkerInv
<1>9. PlaceInv(s)'
  <2> SUFFICES ASSUME NEW i \in 1..Len(steps[s]), NEW v \in steps[s][i]
               PROVE  /\ i < currentStep[s] =>
                           wpc'[s][v] = "returned" /\ v \notin errs'[s]
                      /\ i > currentStep[s] => wpc'[s][v] = "idle"
                      /\ i = currentStep[s] => wpc'[s][v] # "idle"
                      /\ wpc'[s][v] \in {"idle", "begin"} =>
                           workStatus'[s][v] = "pending"
    BY <1>4, <1>5, <1>7 DEF PlaceInv, WorkerInv, Terminal
  <2>1. v = w => i = currentStep[s]
    BY <1>4, <1>5 DEF PlaceInv, WorkerInv
  <2>2. wpc'[s][w] \notin {"idle", "begin"}
    BY <1>2
  <2>3. v \in Work
    BY <1>4, <1>7, PlanShape DEF WorkerInv
  <2>4. v # w => /\ UNCHANGED <<wpc[s][v], workStatus[s][v]>>
                 /\ v \in errs'[s] <=> v \in errs[s]
    BY <1>2, <2>3, RunnerFrame
  <2> QED
    BY <1>4, <1>7, <2>1, <2>2, <2>4 DEF PlaceInv, WorkerInv
<1>10. ASSUME NEW v \in Work, v # w
       PROVE  WorkInv(s, v)'
  BY <1>2, <1>5, <1>10, RunnerFrame DEF SessionInv, WorkInv, Planned
<1>11. WorkInv(s, w)'
  <2>1. WorkInv(s, w) /\ w \in Planned(s) /\ UNCHANGED steps
    BY <1>4, <1>5, <1>6
  <2>11. w \notin LocalWork <=> AfterProcess(w) = "remove"
    BY DEF AfterProcess
  <2>12. w \in LocalWork <=> AfterProcess(w) = "mark"
    BY DEF AfterProcess
  <2> USE <2>1 DEF WorkInv, Planned
  <2>2. CASE MarkWorkRunning(s, w)
    BY <2>2 DEF RunnerAt, Goto, TypeOK, RunnerType, RayType,
         MarkWorkRunning
  <2>3. CASE RegisterParams(s, w)
    BY <2>3 DEF RunnerAt, Goto, TypeOK, RunnerType, RayType,
         RegisterParams
  <2>4. CASE AddRayJob(s, w)
    BY <2>4 DEF RunnerAt, Goto, TypeOK, RunnerType, RayType,
         AddRayJob
  <2>5. CASE StartProcess(s, w)
    <3>1. /\ wpc[s][w] = "exec"
          /\ UNCHANGED <<workStatus, rayJobIDs, params>>
          /\ \/ wpc'[s][w] = "attached" /\ UNCHANGED errs
             \/ wpc'[s][w] = AfterProcess(w) /\ w \in errs'[s]
      BY <2>5 DEF RunnerAt, Goto, TypeOK, RunnerType, RayType,
         StartProcess
    <3> QED
      BY <1>5, <2>11, <2>12, <3>1
  <2>6. CASE ProcessExit(s, w)
    <3>1. /\ wpc[s][w] = "attached"
          /\ UNCHANGED <<workStatus, rayJobIDs, params>>
          /\ wpc'[s][w] = AfterProcess(w)
      BY <2>6 DEF RunnerAt, Goto, TypeOK, RunnerType, RayType,
         ProcessExit
    <3>2. w \in LocalWork \/ w \in errs'[s] \/ job[s][w] = "succeeded"
      BY <2>6 DEF RunnerAt, Goto, TypeOK, RunnerType, RayType,
         ProcessExit, ExitOK
    <3> QED
      BY <1>5, <2>11, <2>12, <3>1, <3>2
  <2>7. CASE KillProcess(s, w)
    <3>1. /\ wpc[s][w] = "attached"
          /\ UNCHANGED <<workStatus, rayJobIDs, params>>
          /\ wpc'[s][w] \in {AfterProcess(w), "orphaned"}
      BY <2>7 DEF RunnerAt, Goto, TypeOK, RunnerType, RayType,
         KillProcess
    <3>2. w \in errs'[s]
      BY <2>7 DEF RunnerAt, Goto, TypeOK, RunnerType, RayType,
         KillProcess
    <3> QED
      BY <1>5, <2>11, <2>12, <3>1, <3>2
  <2>8. CASE OrphanExit(s, w)
    <3>1. /\ wpc[s][w] = "orphaned"
          /\ UNCHANGED <<workStatus, rayJobIDs, params, errs>>
          /\ wpc'[s][w] = AfterProcess(w)
      BY <2>8 DEF RunnerAt, Goto, TypeOK, RunnerType, RayType,
         OrphanExit
    <3> QED
      BY <1>5, <2>11, <2>12, <3>1
  <2>9. CASE RemoveRayJob(s, w)
    BY <2>9 DEF RunnerAt, Goto, TypeOK, RunnerType, RayType,
         RemoveRayJob
  <2>10. CASE MarkWorkDone(s, w)
    BY <2>10 DEF RunnerAt, Goto, TypeOK, RunnerType, RayType,
         MarkWorkDone
  <2> QED
    BY <2>2, <2>3, <2>4, <2>5, <2>6, <2>7, <2>8, <2>9, <2>10 DEF Runner
<1> QED
  BY <1>3, <1>8, <1>9, <1>10, <1>11 DEF SessionInv

\* A step of the worker of one session leaves the others alone.
LEMMA WorkerFrame ==
  ASSUME TypeOK, NEW s \in Session, Worker(s)
  PROVE  /\ UNCHANGED <<steps, errs, rayJobIDs, params, job>>
         /\ \A t \in Session \ {s} :
              UNCHANGED <<status[t], currentStep[t], pc[t], workStatus[t], wpc[t]>>
<1> USE DEF Worker, InitWorks, Subscribe, Prepare, StepCancelled, BeginStep,
            EndStep, FinishSession, Unwind, Fail, workVars, TypeOK
<1>1. UNCHANGED <<steps, errs, rayJobIDs, params, job>>
  OBVIOUS
<1>2. \A t \in Session \ {s} : UNCHANGED <<status[t], currentStep[t], pc[t]>>
  BY DEF WorkerType
<1>3. \A t \in Session \ {s} : UNCHANGED <<workStatus[t], wpc[t]>>
  BY DEF RunnerType
<1> QED
  BY <1>1, <1>2, <1>3

LEMMA WorkerStepInv ==
  ASSUME Inv, NEW s \in Session, Worker(s)
  PROVE  \A t \in Session : SessionInv(t)'
<1> USE DEF Inv
<1>1. ASSUME NEW t \in Session, t # s
      PROVE  SessionInv(t)'
  BY <1>1, WorkerFrame, OwnState
<1>2. /\ UNCHANGED <<steps, errs, rayJobIDs, params, job>>
      /\ WorkerInv(s) /\ PlaceInv(s) /\ \A w \in Work : WorkInv(s, w)
  BY WorkerFrame DEF SessionInv
<1>3. /\ status \in [Session -> {"none", "running"} \cup Terminal]
      /\ pc \in [Session -> WorkerPcs]
      /\ currentStep \in [Session -> Nat]
      /\ workStatus \in [Session -> [Work -> WorkStates]]
      /\ wpc \in [Session -> [Work -> RunnerPcs]]
  BY DEF TypeOK, WorkerType, RunnerType
<1>4. /\ steps[s] \in Plans
      /\ Len(steps[s]) \in Nat
      /\ \A i \in 1..Len(steps[s]) : steps[s][i] \subseteq Work
      /\ \A i, j \in 1..Len(steps[s]) :
           i # j => steps[s][i] \cap steps[s][j] = {}
  <2>1. pc[s] # "none"
    BY <1>3 DEF Worker, At, InitWorks, Subscribe, Prepare, StepCancelled,
       BeginStep, EndStep, FinishSession, Unwind
  <2> QED
    BY <1>2, <2>1, PlanShape DEF WorkerInv
<1>5. CASE InitWorks(s)
  <2>1. pc[s] = "init" /\ UNCHANGED <<wpc, currentStep>>
    BY <1>5 DEF InitWorks, At
  <2>2. \/ /\ status'[s] = "failed" /\ pc'[s] = "unwind"
           /\ UNCHANGED workStatus
        \/ /\ status'[s] = status[s] /\ pc'[s] = "subscribe"
           /\ \A w \in Work :
                workStatus'[s][w] = IF w \in Planned(s) THEN "pending" ELSE "none"
    BY <1>3, <1>5 DEF InitWorks, Fail
  <2>3. WorkerInv(s)'
    BY <1>2, <2>1, <2>2 DEF WorkerInv, Terminal
  <2>4. PlaceInv(s)'
    BY <1>2, <1>4, <2>1, <2>2 DEF PlaceInv, WorkerInv, Planned
  <2>5. ASSUME NEW w \in Work
        PROVE  wpc[s][w] = "idle"
    <3>1. CASE w \in Planned(s)
      <4>1. PICK i \in 1..Len(steps[s]) : w \in steps[s][i]
        BY <3>1 DEF Planned
      <4>2. i > currentStep[s]
        BY <1>2, <1>4, <2>1 DEF WorkerInv
      <4> QED
        BY <1>2, <4>1, <4>2 DEF PlaceInv
    <3>2. CASE w \notin Planned(s)
      BY <1>2, <3>2 DEF WorkInv
    <3> QED
      BY <3>1, <3>2
  <2>6. ASSUME NEW w \in Work
        PROVE  WorkInv(s, w)'
    <3>1. workStatus'[s][w] \in {"none", "pending"}
      BY <1>2, <2>1, <2>2 DEF WorkerInv
    <3> QED
      BY <1>2, <2>1, <2>5, <3>1 DEF WorkInv, Planned
  <2> QED
    BY <1>1, <2>3, <2>4, <2>6 DEF SessionInv
<1>6. CASE BeginStep(s)
  <2>1. /\ pc[s] = "check" /\ pc'[s] = "wait"
        /\ MoreSteps(s)
        /\ currentStep'[s] = currentStep[s] + 1
        /\ UNCHANGED <<status, workStatus>>
    BY <1>3, <1>6 DEF BeginStep, At
  <2>2. \A w \in Work : wpc'[s][w] =
          IF w \in steps[s][currentStep[s] + 1] THEN "begin" ELSE wpc[s][w]
    BY <1>3, <1>6 DEF BeginStep
  <2>3. currentStep[s] + 1 \in 1..Len(steps[s])
    BY <1>2, <1>4, <2>1 DEF WorkerInv, MoreSteps
  <2>4. WorkerInv(s)'
    BY <1>2, <1>4, <2>1, <2>3 DEF WorkerInv, Terminal
  <2>5. PlaceInv(s)'
    <3> SUFFICES ASSUME NEW i \in 1..Len(steps[s]), NEW w \in steps[s][i]
                 PROVE  /\ i < currentStep[s] + 1 =>
                             wpc'[s][w] = "returned" /\ w \notin errs[s]
                        /\ i > currentStep[s] + 1 => wpc'[s][w] = "idle"
                        /\ i = currentStep[s] + 1 => wpc'[s][w] = "begin"
                        /\ wpc'[s][w] \in {"idle", "begin"} =>
                             workStatus[s][w] = "pending"
      BY <1>2, <2>1 DEF PlaceInv, WorkerInv, Terminal
    <3>1. w \in Work
      BY <1>4
    <3>2. w \in steps[s][currentStep[s] + 1] <=> i = currentStep[s] + 1
      BY <1>4, <2>3
    <3> QED
      BY <1>2, <2>1, <2>2, <3>1, <3>2 DEF PlaceInv, WorkerInv
  <2>6. ASSUME NEW w \in Work
        PROVE  WorkInv(s, w)'
    <3>1. CASE w \in steps[s][currentStep[s] + 1]
      <4>1. wpc[s][w] = "idle" /\ workStatus[s][w] = "pending"
        <5>1. currentStep[s] + 1 > currentStep[s]
          BY <1>3
        <5> QED
          BY <1>2, <2>1, <2>3, <3>1, <5>1 DEF PlaceInv
      <4>2. w \in Planned(s)
        BY <2>3, <3>1 DEF Planned
      <4> QED
        BY <1>2, <2>1, <2>2, <3>1, <4>1, <4>2 DEF WorkInv, Planned
    <3>2. CASE w \notin steps[s][currentStep[s] + 1]
      BY <1>2, <2>1, <2>2, <3>2 DEF WorkInv, Planned
    <3> QED
      BY <3>1, <3>2
  <2> QED
    BY <1>1, <2>4, <2>5, <2>6 DEF SessionInv
<1>7. CASE ~InitWorks(s) /\ ~BeginStep(s)
  <2>1. UNCHANGED <<workStatus, wpc, currentStep>>
    BY <1>7 DEF Worker, Subscribe, Prepare, StepCancelled, EndStep,
       FinishSession, Unwind, workVars
  <2>2. \A w \in Work : WorkInv(s, w)'
    BY <1>2, <2>1 DEF WorkInv, Planned
  <2>3. \/ /\ pc[s] \in {"subscribe", "prepare", "check"}
           /\ status'[s] = "failed" /\ pc'[s] = "unwind"
        \/ pc[s] = "subscribe" /\ pc'[s] = "prepare" /\ status'[s] = status[s]
        \/ pc[s] = "prepare" /\ pc'[s] = "check" /\ status'[s] = status[s]
        \/ /\ pc[s] = "wait" /\ StepReturned(s)
           /\ \/ status'[s] = "failed" /\ pc'[s] = "unwind"
              \/ /\ StepOf(s) \cap errs[s] = {}
                 /\ pc'[s] = "check" /\ status'[s] = status[s]
        \/ /\ pc[s] = "check" /\ ~MoreSteps(s)
           /\ status'[s] = "done" /\ pc'[s] = "unwind"
        \/ pc[s] = "unwind" /\ pc'[s] = "gone" /\ status'[s] = status[s]
    BY <1>3, <1>7 DEF Worker, Subscribe, Prepare, StepCancelled, EndStep,
       FinishSession, Unwind, At, Fail
  <2>4. WorkerInv(s)'
    BY <1>2, <1>4, <2>1, <2>3 DEF WorkerInv, Terminal, MoreSteps
  <2>5. PlaceInv(s)'
    <3> SUFFICES ASSUME NEW i \in 1..Len(steps[s]), NEW w \in steps[s][i]
                 PROVE  /\ i = currentStep[s] => wpc[s][w] = "returned"
                        /\ i = currentStep[s] /\ pc'[s] = "wait" => FALSE
                        /\ i = currentStep[s] /\
                             (pc'[s] = "check" \/ status'[s] = "done") =>
                               w \notin errs[s]
      BY <1>2, <2>1, <2>3 DEF PlaceInv
    <3>1. i = currentStep[s] => steps[s][i] = StepOf(s)
      BY DEF StepOf
    <3>2. i # 0 /\ (i = currentStep[s] => pc[s] \notin {"subscribe", "prepare"})
      BY <1>2 DEF WorkerInv
    <3> QED
      BY <1>2, <2>3, <3>1, <3>2 DEF PlaceInv, WorkerInv, Terminal, StepReturned
  <2> QED
    BY <1>1, <2>2, <2>4, <2>5 DEF SessionInv
<1> QED
  BY <1>1, <1>5, <1>6, <1>7

\* Submissions: what Ray and its clients do, and `ray job stop`.
LEMMA JobInv ==
  ASSUME Inv, NEW s \in Session, NEW w \in Work,
         StopRayJob(s, w) \/ PostJob(s, w) \/ AcceptJob(s, w) \/ EndJob(s, w)
  PROVE  \A t \in Session : SessionInv(t)'
<1> USE DEF Inv
<1>1. UNCHANGED <<steps, status, currentStep, pc, workVars>>
  BY DEF StopRayJob, PostJob, AcceptJob, EndJob
<1>2. PICK j \in JobStates : job' = [job EXCEPT ![s][w] = j]
  BY DEF StopRayJob, PostJob, AcceptJob, EndJob, JobStates, Ended, TypeOK, RayType
<1>3. job \in [Session -> [Work -> JobStates]]
  BY DEF TypeOK, RayType
<1>4. /\ \A t \in Session \ {s} : UNCHANGED job[t]
      /\ \A v \in Work \ {w} : UNCHANGED job[s][v]
  BY <1>2, <1>3
<1>5. ASSUME NEW t \in Session, t # s
      PROVE  SessionInv(t)'
  BY <1>1, <1>4, <1>5, OwnState DEF workVars
<1>6. WorkerInv(s)' /\ PlaceInv(s)'
  BY <1>1 DEF SessionInv, WorkerInv, PlaceInv, workVars
<1>7. ASSUME NEW v \in Work, v # w
      PROVE  WorkInv(s, v)'
  BY <1>1, <1>4, <1>7 DEF SessionInv, WorkInv, Planned, workVars
<1>8. WorkInv(s, w)'
  <2>1. job[s][w] = "succeeded" => job'[s][w] = "succeeded"
    BY <1>3 DEF StopRayJob, PostJob, AcceptJob, EndJob
  <2>2. job[s][w] = "absent" /\ job'[s][w] # "absent" =>
          w \notin LocalWork /\ wpc[s][w] \in {"attached", "orphaned"}
    BY <1>3 DEF StopRayJob, PostJob, AcceptJob, EndJob
  <2> QED
    BY <1>1, <2>1, <2>2 DEF SessionInv, WorkInv, Planned, workVars
<1> QED
  BY <1>5, <1>6, <1>7, <1>8 DEF SessionInv

LEMMA StartInv ==
  ASSUME Inv, NEW s \in Session, NEW p \in Plans, StartSession(s, p)
  PROVE  \A t \in Session : SessionInv(t)'
<1> USE DEF Inv
<1>1. UNCHANGED <<currentStep, workVars, job>> /\ pc[s] = "none"
  BY DEF StartSession
<1>2. /\ steps'[s] = p /\ status'[s] = "running" /\ pc'[s] = "init"
      /\ \A t \in Session \ {s} : UNCHANGED <<steps[t], status[t], pc[t]>>
  BY DEF StartSession, TypeOK, WorkerType
<1>3. ASSUME NEW t \in Session, t # s
      PROVE  SessionInv(t)'
  BY <1>1, <1>2, <1>3, OwnState DEF workVars
<1>4. WorkerInv(s) /\ \A w \in Work : WorkInv(s, w) /\ w \notin Planned(s)
  BY <1>1 DEF SessionInv, WorkerInv, Planned
<1>5. WorkerInv(s)'
  BY <1>1, <1>2, <1>4, PlanShape DEF WorkerInv, Terminal, workVars
<1>6. currentStep[s] = 0 /\ \A w \in Work : wpc[s][w] = "idle"
  BY <1>1, <1>4 DEF WorkerInv, WorkInv
<1>7. PlaceInv(s)'
  BY <1>1, <1>2, <1>6, PlanShape DEF PlaceInv, workVars
<1>8. ASSUME NEW w \in Work
      PROVE  WorkInv(s, w)'
  BY <1>1, <1>4, <1>6 DEF WorkInv, workVars
<1> QED
  BY <1>3, <1>5, <1>7, <1>8 DEF SessionInv

\* Whatever the code does, the invariant stays.
THEOREM Invariance == Spec => []Inv
<1>1. Init => Inv
  <2> SUFFICES ASSUME Init
               PROVE  Inv
    OBVIOUS
  <2>1. ASSUME NEW s \in Session
        PROVE  WorkerInv(s) /\ PlaceInv(s)
    BY DEF Init, WorkerInv, PlaceInv, Terminal
  <2>2. ASSUME NEW s \in Session, NEW w \in Work
        PROVE  WorkInv(s, w)
    BY DEF Init, WorkInv
  <2>3. TypeOK
    BY TypeInit
  <2> QED
    BY <2>1, <2>2, <2>3 DEF Inv, SessionInv
<1>2. Inv /\ [Next]_vars => Inv'
  <2> SUFFICES ASSUME Inv, [Next]_vars
               PROVE  Inv'
    OBVIOUS
  <2>1. TypeOK'
    BY TypeStep DEF Inv
  <2>2. ASSUME NEW s \in Session, CancelSession(s)
        PROVE  UNCHANGED <<steps, status, currentStep, pc, workVars, job>>
    BY <2>2 DEF CancelSession
  <2>3. CASE UNCHANGED <<steps, status, currentStep, pc, workVars, job>>
    BY <2>1, <2>3, OwnState DEF Inv, workVars
  <2>4. CASE BrokerReady \/ CancelDaemon \/ ExitDaemon \/ CancelAllSessions
               \/ UNCHANGED vars
    BY <2>3, <2>4
       DEF BrokerReady, CancelDaemon, ExitDaemon, CancelAllSessions, vars
  <2> QED
    BY <2>1, <2>2, <2>3, <2>4, StartInv, WorkerStepInv, RunnerInv, JobInv
       DEF Next, Inv
<1> QED
  BY <1>1, <1>2, PTL DEF Spec

-----------------------------------------------------------------------------
(* What follows from the invariant.                                        *)

\* The steps of a session are sets of works.
LEMMA StepShape ==
  ASSUME Inv, NEW s \in Session
  PROVE  /\ Len(steps[s]) \in Nat
         /\ currentStep[s] \in Nat
         /\ \A i \in 1..Len(steps[s]) : steps[s][i] \subseteq Work
<1>1. steps[s] \in Plans \cup {<<>>} /\ currentStep[s] \in Nat
  BY DEF Inv, TypeOK, WorkerType
<1> QED
  BY <1>1, PlanShape

\* The barrier between the steps, for any plan: no work leaves "pending" while
\* a work of an earlier step is not done.
THEOREM BarrierHolds == Spec => []StepOrder
<1>1. Inv => StepOrder
  <2> SUFFICES ASSUME Inv,
                      NEW s \in Session,
                      NEW i \in 1..Len(steps[s]), NEW j \in 1..Len(steps[s]),
                      j < i,
                      NEW w \in steps[s][i], NEW v \in steps[s][j],
                      workStatus[s][w] \in {"running", "done", "failed"}
               PROVE  workStatus[s][v] = "done"
    BY DEF StepOrder
  <2>1. w \in Work /\ v \in Work
    BY StepShape
  <2>2. PlaceInv(s) /\ WorkInv(s, w) /\ WorkInv(s, v)
    BY <2>1 DEF Inv, SessionInv
  <2>3. wpc[s][w] # "idle"
    BY <2>2 DEF WorkInv
  <2>4. j < currentStep[s]
    BY <2>2, <2>3, StepShape DEF PlaceInv
  <2>5. wpc[s][v] = "returned" /\ v \notin errs[s]
    BY <2>2, <2>4 DEF PlaceInv
  <2> QED
    BY <2>2, <2>5 DEF WorkInv
<1> QED
  BY <1>1, Invariance, PTL

\* A work whose goroutine is at work belongs to the step the worker waits for.
LEMMA AtWork ==
  ASSUME Inv, NEW s \in Session, NEW w \in Work,
         wpc[s][w] \notin {"idle", "returned"}
  PROVE  pc[s] = "wait"
<1>1. PlaceInv(s) /\ WorkInv(s, w)
  BY DEF Inv, SessionInv
<1>2. PICK i \in 1..Len(steps[s]) : w \in steps[s][i]
  BY <1>1 DEF WorkInv, Planned
<1> QED
  BY <1>1, <1>2, StepShape DEF PlaceInv

\* After the verdict nothing of the session is running or listed for `stop`.
THEOREM VerdictIsLast == Spec => []TerminalQuiet
<1>1. Inv => TerminalQuiet
  <2> SUFFICES ASSUME Inv, NEW s \in Session, status[s] \in Terminal
               PROVE  /\ rayJobIDs[s] = {}
                      /\ \A w \in Work : workStatus[s][w] # "running"
    BY DEF TerminalQuiet
  <2>1. pc[s] # "wait"
    BY DEF Inv, SessionInv, WorkerInv
  <2>2. \A w \in Work : wpc[s][w] \in {"idle", "returned"} /\ WorkInv(s, w)
    BY <2>1, AtWork DEF Inv, SessionInv
  <2>3. rayJobIDs[s] \subseteq Work
    BY DEF Inv, TypeOK, RunnerType
  <2> QED
    BY <2>2, <2>3 DEF WorkInv
<1> QED
  BY <1>1, Invariance, PTL

\* A session said to be done has done every work, the remote ones on Ray.
THEOREM DoneIsTrue == Spec => []DoneMeansSucceeded
<1>1. Inv => DoneMeansSucceeded
  <2> SUFFICES ASSUME Inv, NEW s \in Session, status[s] = "done",
                      NEW w \in Planned(s)
               PROVE  /\ workStatus[s][w] = "done"
                      /\ w \in LocalWork \/ job[s][w] = "succeeded"
    BY DEF DoneMeansSucceeded
  <2>1. PICK i \in 1..Len(steps[s]) : w \in steps[s][i]
    BY DEF Planned
  <2>2. w \in Work
    BY <2>1, StepShape
  <2>3. WorkerInv(s) /\ PlaceInv(s) /\ WorkInv(s, w)
    BY <2>2 DEF Inv, SessionInv
  <2>4. i <= currentStep[s]
    BY <2>3, StepShape DEF WorkerInv, Terminal
  <2>5. wpc[s][w] = "returned" /\ w \notin errs[s]
    BY <2>1, <2>3, <2>4, StepShape DEF PlaceInv, WorkerInv, Terminal
  <2> QED
    BY <2>3, <2>5 DEF WorkInv
<1> QED
  BY <1>1, Invariance, PTL

\* A job on Ray is known to `stop`, unless its work has failed already.
THEOREM JobsAreTracked == Spec => []JobTracked
<1>1. Inv => JobTracked
  BY DEF Inv, SessionInv, WorkInv, JobTracked
<1> QED
  BY <1>1, Invariance, PTL

\* No job starts before its parameters were registered, or lost.
THEOREM ParamsFirst == Spec => []ParamsBeforeJob
<1>1. Inv => ParamsBeforeJob
  BY DEF Inv, SessionInv, WorkInv, ParamsBeforeJob
<1> QED
  BY <1>1, Invariance, PTL

\* After the verdict no client of the session posts a job.
THEOREM NoLatePost == Spec => NoPostAfterEnd
<1>1. Inv /\ [Next]_vars =>
        \A s \in Session, w \in Work :
          status[s] \in Terminal /\ job[s][w] = "absent" => job'[s][w] = "absent"
  <2> SUFFICES ASSUME Inv, [Next]_vars,
                      NEW s \in Session, NEW w \in Work,
                      status[s] \in Terminal, job[s][w] = "absent"
               PROVE  job'[s][w] = "absent"
    OBVIOUS
  <2>1. job \in [Session -> [Work -> JobStates]]
    BY DEF Inv, TypeOK, RayType
  <2>2. wpc[s][w] \in {"idle", "returned"}
    BY AtWork DEF Inv, SessionInv, WorkerInv
  <2>3. ASSUME NEW t \in Session, NEW v \in Work,
               StopRayJob(t, v) \/ AcceptJob(t, v) \/ EndJob(t, v)
        PROVE  job'[s][w] = "absent"
    BY <2>1, <2>3 DEF StopRayJob, AcceptJob, EndJob
  <2>4. ASSUME NEW t \in Session, NEW v \in Work, PostJob(t, v)
        PROVE  job'[s][w] = "absent"
    BY <2>1, <2>2, <2>4 DEF PostJob
  <2>5. ASSUME NEW t \in Session, NEW v \in Work, Runner(t, v)
        PROVE  UNCHANGED job
    BY <2>5, RunnerFrame DEF Inv
  <2>6. ASSUME NEW t \in Session,
               \/ CancelSession(t) \/ Worker(t)
               \/ \E p \in Plans : StartSession(t, p)
        PROVE  UNCHANGED job
    BY <2>6, WorkerFrame DEF Inv, CancelSession, StartSession
  <2>7. CASE BrokerReady \/ CancelDaemon \/ ExitDaemon \/ CancelAllSessions
               \/ UNCHANGED vars
    BY <2>7
       DEF BrokerReady, CancelDaemon, ExitDaemon, CancelAllSessions, vars
  <2> QED
    BY <2>3, <2>4, <2>5, <2>6, <2>7 DEF Next
<1> QED
  BY <1>1, Invariance, PTL DEF Spec, NoPostAfterEnd

-----------------------------------------------------------------------------
(* A session is a staged run.                                              *)

\* The verdict of a worker is a conclusion, its first records are a plan.
LEMMA WorkerRefines ==
  ASSUME Inv, NEW s \in Session, Worker(s)
  PROVE  \/ StagedRun!Plan(s) \/ StagedRun!Conclude(s)
         \/ UNCHANGED StagedRun!vars
<1> USE DEF Inv
<1>1. WorkerInv(s) /\ PlaceInv(s) /\ \A w \in Work : WorkInv(s, w)
  BY DEF SessionInv
<1>2. UNCHANGED steps
  BY WorkerFrame
<1>3. CASE InitWorks(s) /\ workStatus' # workStatus
  <2>1. /\ pc[s] = "init" /\ UNCHANGED status
        /\ workStatus' = [workStatus EXCEPT ![s] =
             [w \in Work |-> IF w \in Planned(s) THEN "pending" ELSE "none"]]
    BY <1>3 DEF InitWorks, At
  <2>2. status[s] = "running"
    BY <1>1, <2>1 DEF WorkerInv, TypeOK, WorkerType, Terminal
  <2>3. \A w \in Work : workStatus[s][w] = "none"
    BY <1>1, <2>1 DEF WorkerInv
  <2>4. StagedRun!Plan(s)
    BY <1>2, <2>1, <2>2, <2>3
       DEF StagedRun!Plan, StagedRun!Planned, StagedRun!StepSet, Planned
  <2> QED
    BY <2>4
<1>4. CASE status' # status /\ ~(InitWorks(s) /\ workStatus' # workStatus)
  <2>1. /\ UNCHANGED workStatus
        /\ pc[s] # "none" /\ pc[s] \notin {"unwind", "gone"}
        /\ pc[s] = "wait" => StepReturned(s)
        /\ \/ status' = [status EXCEPT ![s] = "failed"]
           \/ FinishSession(s)
    BY <1>4 DEF Worker, InitWorks, Subscribe, Prepare, StepCancelled,
       BeginStep, EndStep, FinishSession, Unwind, At, Fail, workVars
  <2>2. status[s] = "running"
    BY <1>1, <2>1 DEF WorkerInv, TypeOK, WorkerType, Terminal
  <2>3. ASSUME NEW w \in Work
        PROVE  workStatus[s][w] # "running"
    <3>1. WorkInv(s, w)
      BY <1>1
    <3>2. CASE pc[s] # "wait"
      BY <3>1, <3>2, AtWork DEF WorkInv
    <3>3. CASE pc[s] = "wait"
      <4>1. w \in Planned(s) => wpc[s][w] \in {"idle", "returned"}
        BY <1>1, <2>1, <3>3, StepShape
           DEF Planned, PlaceInv, StepReturned, StepOf
      <4> QED
        BY <3>1, <4>1 DEF WorkInv
    <3> QED
      BY <3>2, <3>3
  <2>4. CASE status' = [status EXCEPT ![s] = "failed"]
    BY <1>2, <2>1, <2>2, <2>3, <2>4 DEF StagedRun!Conclude
  <2>5. CASE FinishSession(s)
    <3>1. /\ status' = [status EXCEPT ![s] = "done"]
          /\ pc[s] = "check" /\ ~MoreSteps(s)
      BY <2>5 DEF FinishSession, At
    <3>2. ASSUME NEW w \in Planned(s)
          PROVE  workStatus[s][w] = "done"
      <4>1. PICK i \in 1..Len(steps[s]) : w \in steps[s][i]
        BY DEF Planned
      <4>2. i <= currentStep[s]
        BY <3>1, StepShape DEF MoreSteps
      <4>3. wpc[s][w] = "returned" /\ w \notin errs[s]
        BY <1>1, <3>1, <4>1, <4>2, StepShape DEF PlaceInv
      <4> QED
        BY <1>1, <4>1, <4>3, StepShape DEF WorkInv
    <3> QED
      BY <1>2, <2>1, <2>2, <2>3, <3>1, <3>2
         DEF StagedRun!Conclude, StagedRun!Planned, StagedRun!StepSet, Planned
  <2> QED
    BY <2>1, <2>4, <2>5
<1>5. CASE status' = status /\ ~(InitWorks(s) /\ workStatus' # workStatus)
  <2>1. UNCHANGED workStatus
    BY <1>5 DEF Worker, Subscribe, Prepare, StepCancelled, BeginStep, EndStep,
       FinishSession, Unwind, workVars
  <2> QED
    BY <1>2, <1>5, <2>1 DEF StagedRun!vars
<1> QED
  BY <1>3, <1>4, <1>5

\* A work's goroutine begins a work that is due, and ends it.
LEMMA RunnerRefines ==
  ASSUME Inv, NEW s \in Session, NEW w \in Work, Runner(s, w)
  PROVE  \/ StagedRun!Begin(s, w) \/ StagedRun!End(s, w)
         \/ UNCHANGED StagedRun!vars
<1> USE DEF Inv
<1>1. WorkerInv(s) /\ PlaceInv(s) /\ WorkInv(s, w)
  BY DEF SessionInv
<1>2. UNCHANGED <<steps, status>> /\ wpc[s][w] \notin {"idle", "returned"}
  BY RunnerFrame
<1>3. status[s] = "running"
  BY <1>1, <1>2, AtWork DEF WorkerInv, TypeOK, WorkerType, Terminal
<1>4. CASE MarkWorkRunning(s, w)
  <2>1. /\ wpc[s][w] = "begin"
        /\ workStatus' = [workStatus EXCEPT ![s][w] = "running"]
    BY <1>4 DEF MarkWorkRunning, RunnerAt
  <2>2. PICK i \in 1..Len(steps[s]) : w \in steps[s][i]
    BY <1>1, <1>2 DEF WorkInv, Planned
  <2>3. workStatus[s][w] = "pending" /\ i <= currentStep[s]
    BY <1>1, <2>1, <2>2, AtWork, StepShape DEF PlaceInv
  <2>4. ASSUME NEW j \in 1..Len(steps[s]), j < i, NEW v \in steps[s][j]
        PROVE  workStatus[s][v] = "done"
    <3>1. v \in Work /\ WorkInv(s, v)
      BY StepShape DEF SessionInv
    <3>2. wpc[s][v] = "returned" /\ v \notin errs[s]
      BY <1>1, <2>3, <2>4, StepShape DEF PlaceInv
    <3> QED
      BY <3>1, <3>2 DEF WorkInv
  <2>5. StagedRun!Due(s, w)
    BY <2>2, <2>4 DEF StagedRun!Due, StagedRun!StepSet
  <2>6. StagedRun!Begin(s, w)
    BY <1>2, <1>3, <2>1, <2>3, <2>5 DEF StagedRun!Begin
  <2> QED
    BY <2>6
<1>5. CASE MarkWorkDone(s, w)
  <2>1. /\ wpc[s][w] = "mark"
        /\ \E r \in {"done", "failed"} :
             workStatus' = [workStatus EXCEPT ![s][w] = r]
    BY <1>5 DEF MarkWorkDone, RunnerAt
  <2>2. workStatus[s][w] = "running"
    BY <1>1, <2>1 DEF WorkInv
  <2>3. StagedRun!End(s, w)
    BY <1>2, <1>3, <2>1, <2>2 DEF StagedRun!End
  <2> QED
    BY <2>3
<1>6. CASE ~MarkWorkRunning(s, w) /\ ~MarkWorkDone(s, w)
  <2>1. UNCHANGED workStatus
    BY <1>6 DEF Runner, RegisterParams, AddRayJob, StartProcess, ProcessExit,
       KillProcess, OrphanExit, RemoveRayJob
  <2> QED
    BY <1>2, <2>1 DEF StagedRun!vars
<1> QED
  BY <1>4, <1>5, <1>6

\* The sessions of the daemon implement the staged run, whatever the plans, the
\* failures, the cancellations and the interleaving.
THEOREM Refinement == Spec => StagedRunSpec
<1>1. Init => StagedRun!Init
  BY DEF Init, StagedRun!Init
<1>2. Inv /\ [Next]_vars => [StagedRun!Next]_(StagedRun!vars)
  <2> SUFFICES ASSUME Inv, [Next]_vars
               PROVE  StagedRun!Next \/ UNCHANGED StagedRun!vars
    OBVIOUS
  <2>1. ASSUME NEW s \in Session, Worker(s)
        PROVE  StagedRun!Next \/ UNCHANGED StagedRun!vars
    BY <2>1, WorkerRefines DEF StagedRun!Next
  <2>2. ASSUME NEW s \in Session, NEW w \in Work, Runner(s, w)
        PROVE  StagedRun!Next \/ UNCHANGED StagedRun!vars
    BY <2>2, RunnerRefines DEF StagedRun!Next
  <2>3. ASSUME NEW s \in Session, NEW p \in Plans, StartSession(s, p)
        PROVE  StagedRun!Next
    <3>1. status[s] = "none"
      BY <2>3 DEF StartSession, Inv, SessionInv, WorkerInv
    <3>2. StagedRun!Start(s, p)
      BY <2>3, <3>1 DEF StartSession, StagedRun!Start, workVars
    <3> QED
      BY <3>2 DEF StagedRun!Next
  <2>4. ASSUME NEW s \in Session,
               \/ CancelSession(s)
               \/ \E w \in Work : StopRayJob(s, w) \/ PostJob(s, w)
                                   \/ AcceptJob(s, w) \/ EndJob(s, w)
        PROVE  UNCHANGED StagedRun!vars
    BY <2>4 DEF CancelSession, StopRayJob, PostJob, AcceptJob, EndJob,
       workVars, StagedRun!vars
  <2>5. CASE BrokerReady \/ CancelDaemon \/ ExitDaemon \/ CancelAllSessions
               \/ UNCHANGED vars
    BY <2>5 DEF BrokerReady, CancelDaemon, ExitDaemon, CancelAllSessions, vars,
       workVars, StagedRun!vars
  <2> QED
    BY <2>1, <2>2, <2>3, <2>4, <2>5 DEF Next
<1> QED
  BY <1>1, <1>2, Invariance, PTL DEF Spec, StagedRun!Spec, StagedRunSpec
=============================================================================
