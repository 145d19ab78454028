----------------------------- MODULE StagedRun -----------------------------
(***************************************************************************)
(* What a session promises whoever follows it by `status`, `steps` or      *)
(* `sessions`: works are shown pending, then running, then done or failed; *)
(* a work runs only after every work of every earlier step is done; and    *)
(* the verdict comes last, "done" only if every work is.                   *)
(***************************************************************************)
EXTENDS Naturals, Sequences

CONSTANTS
  Session,
  Work,
  Plans     \* the step lists a session may be given

VARIABLES
  steps,        \* per session, a sequence of sets of works
  status,       \* "none", "running", "done" or "failed"
  workStatus    \* "none", "pending", "running", "done" or "failed"

vars == <<steps, status, workStatus>>

StepSet(s) == 1..Len(steps[s])

Planned(s) == UNION {steps[s][i] : i \in StepSet(s)}

\* Every work of every step before the one that holds w is done.
Due(s, w) ==
  \E i \in StepSet(s) :
    /\ w \in steps[s][i]
    /\ \A j \in StepSet(s) : j < i =>
         \A v \in steps[s][j] : workStatus[s][v] = "done"

Init ==
  /\ steps = [s \in Session |-> <<>>]
  /\ status = [s \in Session |-> "none"]
  /\ workStatus = [s \in Session |-> [w \in Work |-> "none"]]

Start(s, p) ==
  /\ status[s] = "none"
  /\ status' = [status EXCEPT ![s] = "running"]
  /\ steps' = [steps EXCEPT ![s] = p]
  /\ UNCHANGED workStatus

Plan(s) ==
  /\ status[s] = "running"
  /\ \A w \in Work : workStatus[s][w] = "none"
  /\ workStatus' = [workStatus EXCEPT ![s] =
       [w \in Work |-> IF w \in Planned(s) THEN "pending" ELSE "none"]]
  /\ UNCHANGED <<steps, status>>

Begin(s, w) ==
  /\ status[s] = "running"
  /\ workStatus[s][w] = "pending"
  /\ Due(s, w)
  /\ workStatus' = [workStatus EXCEPT ![s][w] = "running"]
  /\ UNCHANGED <<steps, status>>

End(s, w) ==
  /\ status[s] = "running"
  /\ workStatus[s][w] = "running"
  /\ \E r \in {"done", "failed"} :
       workStatus' = [workStatus EXCEPT ![s][w] = r]
  /\ UNCHANGED <<steps, status>>

\* The verdict.
Conclude(s) ==
  /\ status[s] = "running"
  /\ \A w \in Work : workStatus[s][w] # "running"
  /\ \E r \in {"done", "failed"} :
       /\ r = "done" => \A w \in Planned(s) : workStatus[s][w] = "done"
       /\ status' = [status EXCEPT ![s] = r]
  /\ UNCHANGED <<steps, workStatus>>

Next ==
  \E s \in Session :
    \/ \E p \in Plans : Start(s, p)
    \/ Plan(s)
    \/ Conclude(s)
    \/ \E w \in Work : Begin(s, w) \/ End(s, w)

Spec == Init /\ [][Next]_vars
=============================================================================
