----------------------------- MODULE WorkGraph -----------------------------
(***************************************************************************)
(* From a mantafile to the steps of a run: `build` validates the graph of  *)
(* `after` references (validateGraph), `run` resolves a target to steps    *)
(* (resolveWorks, stageSteps).  Both are Kahn's algorithm by levels, the   *)
(* first over the names of all works of the pipeline, the second over the  *)
(* works of one stage that are not manual.                                 *)
(*                                                                         *)
(* A pipeline is the sequence of its stages, a stage a function from the   *)
(* names of its works.  A work is named by its stage's index and its name. *)
(* One action is one iteration of a loop over a level; the order inside a  *)
(* level is that of a Go map, and changes nothing.                         *)
(***************************************************************************)
EXTENDS Naturals, Sequences, FiniteSets, Plan

CONSTANTS
  Name,       \* names of works
  Ref,        \* what an `after` list may hold
  Root,       \* the reference "root", which stands for no work
  Pipelines   \* the pipelines considered

IsStage(st) ==
  /\ DOMAIN st \subseteq Name /\ IsFiniteSet(DOMAIN st)
  /\ \A n \in DOMAIN st : st[n] \in [after : Seq(Ref), manual : BOOLEAN]

IsPipeline(p) ==
  /\ p \in Seq({p[i] : i \in DOMAIN p})
  /\ \A i \in DOMAIN p : IsStage(p[i])

\* A mantafile is a finite text: it lists its stages, and the works of each.
ASSUME PipelinesAssumption == \A p \in Pipelines : IsPipeline(p)

VARIABLES
  pipeline,   \* the pipeline
  pc,         \* how far `build` and then `run` are
  edges,      \* the references the current loop counts
  inDegree,
  queue,
  processed,  \* the works validateGraph has dequeued
  target,     \* the stages `run` resolves, by index
  todo,       \* those still to be resolved
  steps       \* the result of resolveWorks, as sets of works

graphVars == <<edges, inDegree, queue>>
vars == <<pipeline, pc, graphVars, processed, target, todo, steps>>

Works(p) == UNION {{i} \X DOMAIN p[i] : i \in DOMAIN p}
Stage(w) == w[1]
NameOf(w) == w[2]
WorkOf(p, w) == p[Stage(w)][NameOf(w)]
AllNames(p) == {NameOf(w) : w \in Works(p)}

\* The occurrences of references in the `after` lists of the works W.
Uses(p, W) == UNION {{w} \X DOMAIN WorkOf(p, w).after : w \in W}
User(u) == u[1]
Dep(p, u) == WorkOf(p, User(u)).after[u[2]]
To(u) == NameOf(User(u))

\* The uses, by works of W, of a work named in N.
EdgesInto(p, W, N) == {u \in Uses(p, W) : Dep(p, u) # Root /\ Dep(p, u) \in N}

-----------------------------------------------------------------------------
(* Kahn's algorithm.                                                       *)

\* Start on the nodes N with the references E.
Kahn(N, E) ==
  LET degree == [n \in N |-> Cardinality({u \in E : To(u) = n})]
  IN  /\ edges' = E
      /\ inDegree' = degree
      /\ queue' = {n \in N : degree[n] = 0}

\* How many dependencies of n the level dequeues.
Freed(n) == Cardinality({u \in edges : To(u) = n /\ Dep(pipeline, u) \in queue})

\* Seeded fault: a dependent is queued without its in-degree being looked at.
LevelUnchecked ==
  /\ inDegree' = [n \in DOMAIN inDegree |-> inDegree[n] - Freed(n)]
  /\ queue' = {n \in DOMAIN inDegree : Freed(n) > 0}
  /\ UNCHANGED edges

\* Dequeue the whole level and lower the in-degree of what depends on it.
Level ==
  /\ inDegree' = [n \in DOMAIN inDegree |-> inDegree[n] - Freed(n)]
  /\ queue' = {n \in DOMAIN inDegree : Freed(n) > 0 /\ inDegree[n] = Freed(n)}
  /\ UNCHANGED edges

-----------------------------------------------------------------------------
Init ==
  /\ pipeline \in Pipelines
  /\ pc = "build"
  /\ edges = {}
  /\ inDegree = <<>>
  /\ queue = {}
  /\ processed = 0
  /\ target = <<>>
  /\ todo = <<>>
  /\ steps = <<>>

\* `after` references an unknown work.
Unknown(p) ==
  \E u \in Uses(p, Works(p)) : Dep(p, u) # Root /\ Dep(p, u) \notin AllNames(p)

StartValidation ==
  /\ pc = "build"
  /\ IF Unknown(pipeline)
     THEN pc' = "rejected" /\ UNCHANGED graphVars
     ELSE /\ Kahn(AllNames(pipeline),
                  EdgesInto(pipeline, Works(pipeline), AllNames(pipeline)))
          /\ pc' = "validate"
  /\ UNCHANGED <<pipeline, processed, target, todo, steps>>

ValidateLevel ==
  /\ pc = "validate"
  /\ queue # {}
  /\ processed' = processed + Cardinality(queue)
  /\ Level
  /\ UNCHANGED <<pipeline, pc, target, todo, steps>>

\* Seeded fault: the last work is not counted.
EndValidationShort ==
  /\ pc = "validate"
  /\ queue = {}
  /\ pc' = IF processed + 1 < Cardinality(AllNames(pipeline))
           THEN "rejected" ELSE "built"
  /\ UNCHANGED <<pipeline, graphVars, processed, target, todo, steps>>

\* Fewer works processed than there are names: a cycle.
EndValidation ==
  /\ pc = "validate"
  /\ queue = {}
  /\ pc' = IF processed < Cardinality(AllNames(pipeline))
           THEN "rejected" ELSE "built"
  /\ UNCHANGED <<pipeline, graphVars, processed, target, todo, steps>>

-----------------------------------------------------------------------------
(* resolveWorks, for each kind of target.                                  *)

\* <pipeline>[.<stage>].<work>: the first such work, manual or not.  A target
\* with an empty stage, i = 0, looks in every stage.
ResolveWork(i, n) ==
  /\ pc = "built"
  /\ LET found == {w \in Works(pipeline) : i \in {0, Stage(w)} /\ NameOf(w) = n}
     IN  IF found = {}
         THEN pc' = "failed" /\ UNCHANGED steps
         ELSE /\ pc' = "single"
              /\ steps' = <<{CHOOSE w \in found :
                               \A v \in found : Stage(w) <= Stage(v)}>>
  /\ UNCHANGED <<pipeline, graphVars, processed, target, todo>>

\* <pipeline>.<stage>, and <pipeline>: every stage in the order of the file.
Targets(p) == {<<i>> : i \in DOMAIN p} \cup {[i \in DOMAIN p |-> i]}

ResolveStages(t) ==
  /\ pc = "built"
  /\ target' = t
  /\ todo' = t
  /\ pc' = "stages"
  /\ UNCHANGED <<pipeline, graphVars, processed, steps>>

\* The works stageSteps takes from a stage.
Scope(p, i) == {w \in Works(p) : Stage(w) = i /\ ~WorkOf(p, w).manual}

\* Seeded fault: the references are not counted.
StartStageFlat ==
  /\ pc = "stages"
  /\ todo # <<>>
  /\ edges' = {}
  /\ inDegree' = [n \in {NameOf(w) : w \in Scope(pipeline, Head(todo))} |-> 0]
  /\ queue' = DOMAIN inDegree'
  /\ pc' = "stage"
  /\ UNCHANGED <<pipeline, processed, target, todo, steps>>

\* stageSteps: a reference outside the stage, or to a manual work, is no edge.
StartStage ==
  /\ pc = "stages"
  /\ todo # <<>>
  /\ LET W == Scope(pipeline, Head(todo))
         N == {NameOf(w) : w \in W}
     IN  Kahn(N, EdgesInto(pipeline, W, N))
  /\ pc' = "stage"
  /\ UNCHANGED <<pipeline, processed, target, todo, steps>>

\* Seeded fault: each work of a level gets a step of its own.
StageLevelSerial ==
  /\ pc = "stage"
  /\ queue # {}
  /\ \E n \in queue :
       LET freed == {u \in edges : Dep(pipeline, u) = n}
           degree == [m \in DOMAIN inDegree |->
                        inDegree[m] - Cardinality({u \in freed : To(u) = m})]
       IN  /\ steps' = Append(steps, {<<Head(todo), n>>})
           /\ inDegree' = degree
           /\ queue' = (queue \ {n}) \cup {To(u) : u \in {v \in freed : degree[To(v)] = 0}}
  /\ UNCHANGED <<pipeline, pc, edges, processed, target, todo>>

StageLevel ==
  /\ pc = "stage"
  /\ queue # {}
  /\ steps' = Append(steps, {Head(todo)} \X queue)
  /\ Level
  /\ UNCHANGED <<pipeline, pc, processed, target, todo>>

EndStage ==
  /\ pc = "stage"
  /\ queue = {}
  /\ todo' = Tail(todo)
  /\ pc' = "stages"
  /\ UNCHANGED <<pipeline, graphVars, processed, target, steps>>

\* Seeded fault: a target without a work to run is not refused.
EndResolveEmpty ==
  /\ pc = "stages"
  /\ todo = <<>>
  /\ pc' = "resolved"
  /\ UNCHANGED <<pipeline, graphVars, processed, target, todo, steps>>

EndResolve ==
  /\ pc = "stages"
  /\ todo = <<>>
  /\ pc' = IF steps = <<>> THEN "failed" ELSE "resolved"
  /\ UNCHANGED <<pipeline, graphVars, processed, target, todo, steps>>

-----------------------------------------------------------------------------
Final == {"rejected", "failed", "single", "resolved"}

Terminated ==
  /\ pc \in Final
  /\ UNCHANGED vars

Next ==
  \/ StartValidation \/ ValidateLevel \/ EndValidation
  \/ \E i \in 0..Len(pipeline), n \in Name : ResolveWork(i, n)
  \/ \E t \in Targets(pipeline) : ResolveStages(t)
  \/ StartStage \/ StageLevel \/ EndStage \/ EndResolve
  \/ Terminated

Spec == Init /\ [][Next]_vars

-----------------------------------------------------------------------------
(* Properties.                                                             *)

TypeOK ==
  /\ pipeline \in Pipelines
  /\ pc \in Final \cup {"build", "validate", "built", "stages", "stage"}
  /\ edges \subseteq Uses(pipeline, Works(pipeline))
  /\ DOMAIN inDegree \subseteq AllNames(pipeline)
  /\ \A n \in DOMAIN inDegree : inDegree[n] \in Nat
  /\ queue \subseteq DOMAIN inDegree
  /\ processed \in Nat
  /\ target \in Seq(DOMAIN pipeline) /\ todo \in Seq(DOMAIN pipeline)
  /\ steps \in Seq(SUBSET Works(pipeline))

\* Some names depend on each other in a circle: each of them is depended on
\* within the set.
Cyclic(p) ==
  \E S \in (SUBSET AllNames(p)) \ {{}} :
    \A n \in S : \E u \in Uses(p, Works(p)) :
      To(u) = n /\ Dep(p, u) # Root /\ Dep(p, u) \in S

\* `build` accepts a pipeline exactly when it names only known works and has no
\* cycle.
ValidateExact ==
  /\ pc = "rejected" => Unknown(pipeline) \/ Cyclic(pipeline)
  /\ pc \notin {"build", "validate", "rejected"} =>
       ~Unknown(pipeline) /\ ~Cyclic(pipeline)

InScope == UNION {Scope(pipeline, target[k]) : k \in DOMAIN target}

\* w names v, a work other than root, in its `after` list.
After(p, w, v) ==
  /\ NameOf(v) # Root
  /\ \E k \in DOMAIN WorkOf(p, w).after : WorkOf(p, w).after[k] = NameOf(v)

\* The result is a plan that a session can be started with (Plan), its steps
\* each of works of one stage.  A graph that `build` accepted needs no second
\* validation: the steps leave out no work of the scope, and take in no other.
StepsArePlan ==
  pc \in {"single", "resolved"} =>
    /\ IsPlan(steps, Works(pipeline))
    /\ \A k \in DOMAIN steps : \A v, w \in steps[k] : Stage(v) = Stage(w)
    /\ pc = "resolved" => UNION {steps[k] : k \in DOMAIN steps} = InScope

\* A work comes after the works of its stage that it names, and after every
\* work of an earlier stage.
StepsOrdered ==
  pc = "resolved" =>
    \A j, k \in DOMAIN steps : \A v \in steps[j], w \in steps[k] :
      (Stage(v) = Stage(w) /\ After(pipeline, w, v)) \/ Stage(v) < Stage(w)
        => j < k

\* No work waits longer than it must: it is in the first step of its stage, or
\* it names a work of the step before.
StepsEarly ==
  pc = "resolved" =>
    \A k \in DOMAIN steps : \A w \in steps[k] :
      k > 1 =>
        \/ \A v \in steps[k - 1] : Stage(v) # Stage(w)
        \/ \E v \in steps[k - 1] : After(pipeline, w, v)

\* Steps are ordered so that all dependencies of a step, in whatever stage, are
\* satisfied by prior steps.
DependenciesPrior ==
  pc = "resolved" =>
    \A k \in DOMAIN steps : \A w \in steps[k], v \in InScope :
      After(pipeline, w, v) => \E j \in 1..(k - 1) : v \in steps[j]
=============================================================================
