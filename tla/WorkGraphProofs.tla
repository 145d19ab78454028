-------------------------- MODULE WorkGraphProofs --------------------------
(***************************************************************************)
(* Proofs about WorkGraph, for any pipelines: Kahn's algorithm dequeues    *)
(* everything unless there is a cycle, so `build` accepts exactly the      *)
(* graphs without one, and the steps of a run are all works of its scope,  *)
(* each once, in an order that respects `after`, none later than it must.  *)
(***************************************************************************)
EXTENDS WorkGraph, FiniteSetTheorems, SequenceTheorems, WellFoundedInduction,
        TLAPS

\* The nodes with nothing left to wait for, and what n waits for once the nodes
\* X are done.
Zero(d) == {n \in DOMAIN d : d[n] = 0}
Waits(p, E, X, n) == {u \in E : To(u) = n /\ Dep(p, u) \notin X}

\* The edges into n, and those of them from nodes in q.
EdgesAt(E, n) == {u \in E : To(u) = n}
EdgesFrom(p, E, q, n) == {u \in E : To(u) = n /\ Dep(p, u) \in q}

\* The edges E are between the nodes of d, and d counts for each node those
\* that come from a node that is not done; what is at zero is done or queued.
Counted(p, E, d, q) ==
  /\ IsFiniteSet(E)
  /\ \A u \in E : To(u) \in DOMAIN d /\ Dep(p, u) \in DOMAIN d
  /\ q \subseteq Zero(d)
  /\ \A n \in DOMAIN d : d[n] = Cardinality(Waits(p, E, Zero(d) \ q, n))

\* Each node of S has an edge from a node of S: unless S is empty, it holds a
\* cycle.  No node of such a set ever reaches zero.
Circle(p, E, S) == \A n \in S : \E u \in E : To(u) = n /\ Dep(p, u) \in S

OffCircles(p, E, d) ==
  \A S \in SUBSET DOMAIN d : Circle(p, E, S) => S \cap Zero(d) = {}

\* The graph stageSteps works on.
ScopeNames(p, i) == {NameOf(w) : w \in Scope(p, i)}
ScopeEdges(p, i) == EdgesInto(p, Scope(p, i), ScopeNames(p, i))

\* Steps: what they hold, and the parts of the properties that hold while they
\* are made.
Placed(s) == UNION {s[k] : k \in DOMAIN s}

Filled(s) ==
  \A k \in DOMAIN s : s[k] # {} /\ \A v, w \in s[k] : Stage(v) = Stage(w)

Apart(s) == \A j, k \in DOMAIN s : j # k => s[j] \cap s[k] = {}

Ordered(p, s) ==
  \A j, k \in DOMAIN s : \A v \in s[j], w \in s[k] :
    (Stage(v) = Stage(w) /\ After(p, w, v)) \/ Stage(v) < Stage(w) => j < k

Early(p, s) ==
  \A k \in DOMAIN s : \A w \in s[k] :
    k > 1 => \/ \A v \in s[k - 1] : Stage(v) # Stage(w)
             \/ \E v \in s[k - 1] : After(p, w, v)

-----------------------------------------------------------------------------
(* The inductive invariant.                                                *)

KahnInv ==
  pc \in {"validate", "stage"} =>
    /\ Counted(pipeline, edges, inDegree, queue)
    /\ OffCircles(pipeline, edges, inDegree)

ValidateInv ==
  /\ pc = "build" => processed = 0
  /\ pc = "validate" =>
       /\ edges = EdgesInto(pipeline, Works(pipeline), AllNames(pipeline))
       /\ DOMAIN inDegree = AllNames(pipeline)
       /\ processed = Cardinality(Zero(inDegree) \ queue)

KnownInv == pc \notin {"build", "rejected"} => ~Unknown(pipeline)

\* How many stages of the target are finished, and their works.
Past == Len(target) - Len(todo)

PastWorks == UNION {Scope(pipeline, target[k]) : k \in 1..Past}

\* The stages of the target are in the order of the file, and todo is its rest.
TodoInv ==
  /\ \A j, k \in DOMAIN target : j < k => target[j] < target[k]
  /\ Len(todo) <= Len(target)
  /\ \A k \in DOMAIN todo : todo[k] = target[Past + k]
  /\ pc = "resolved" => todo = <<>>

StageInv ==
  pc = "stage" =>
    /\ todo # <<>>
    /\ edges = ScopeEdges(pipeline, Head(todo))
    /\ DOMAIN inDegree = ScopeNames(pipeline, Head(todo))

\* The steps hold the works of the finished stages, and of the current one the
\* nodes that are done; what is queued was freed by the last step.
PlacedInv ==
  pc \in {"stages", "stage", "resolved"} =>
    Placed(steps) =
      PastWorks \cup
        (IF pc = "stage" THEN {Head(todo)} \X (Zero(inDegree) \ queue) ELSE {})

FreedInv ==
  pc = "stage" /\ steps # <<>> =>
    \A n \in queue :
      \/ \A v \in steps[Len(steps)] : Stage(v) # Head(todo)
      \/ \E v \in steps[Len(steps)] : After(pipeline, <<Head(todo), n>>, v)

StepsInv ==
  /\ pc \in {"build", "validate", "built"} => steps = <<>>
  /\ pc \in {"single", "resolved"} => steps # <<>>
  /\ Filled(steps) /\ Apart(steps)
  /\ pc \in {"stages", "stage", "resolved"} =>
       Ordered(pipeline, steps) /\ Early(pipeline, steps)

Inv ==
  /\ TypeOK /\ KahnInv /\ ValidateInv /\ KnownInv /\ ValidateExact
  /\ TodoInv /\ StageInv /\ PlacedInv /\ FreedInv /\ StepsInv

-----------------------------------------------------------------------------
(* Everything about a pipeline is finite.                                  *)

LEMMA ImageFinite ==
  ASSUME NEW S, IsFiniteSet(S), NEW f
  PROVE  IsFiniteSet({f[x] : x \in S})
<1> DEFINE g == [x \in S |-> f[x]]
           T == {f[x] : x \in S}
<1>1. g \in Surjection(S, T)
  BY DEF Surjection
<1> QED
  BY <1>1, FS_Surjection

\* A finite union of finite sets, each given by a member of S.
LEMMA UnionFinite ==
  ASSUME NEW S, IsFiniteSet(S), NEW f, \A x \in S : IsFiniteSet(f[x])
  PROVE  IsFiniteSet(UNION {f[x] : x \in S})
<1>1. IsFiniteSet({f[x] : x \in S})
  BY ImageFinite
<1> QED
  BY <1>1, FS_UNION

LEMMA WorksFinite ==
  ASSUME NEW p, IsPipeline(p)
  PROVE  IsFiniteSet(Works(p)) /\ IsFiniteSet(AllNames(p))
<1> DEFINE f == [i \in DOMAIN p |-> {i} \X DOMAIN p[i]]
           g == [w \in Works(p) |-> NameOf(w)]
<1>1. IsFiniteSet(DOMAIN p)
  BY LenProperties, FS_Interval DEF IsPipeline
<1>2. ASSUME NEW i \in DOMAIN p
      PROVE  IsFiniteSet(f[i])
  BY FS_Singleton, FS_Product DEF IsPipeline, IsStage
<1> HIDE DEF f, g
<1>3. IsFiniteSet(UNION {f[i] : i \in DOMAIN p})
  BY <1>1, <1>2, UnionFinite
<1>4. Works(p) = UNION {f[i] : i \in DOMAIN p}
  BY DEF Works, f
<1>5. IsFiniteSet({g[w] : w \in Works(p)})
  BY <1>3, <1>4, ImageFinite
<1>6. AllNames(p) = {g[w] : w \in Works(p)}
  BY DEF AllNames, g
<1> QED
  BY <1>3, <1>4, <1>5, <1>6

LEMMA UsesFinite ==
  ASSUME NEW p, IsPipeline(p), NEW W \in SUBSET Works(p)
  PROVE  IsFiniteSet(Uses(p, W))
<1> DEFINE f == [w \in W |-> {w} \X DOMAIN WorkOf(p, w).after]
<1>1. IsFiniteSet(W)
  BY WorksFinite, FS_Subset
<1>2. ASSUME NEW w \in W
      PROVE  IsFiniteSet(f[w])
  <2>1. WorkOf(p, w).after \in Seq(Ref)
    BY DEF Works, WorkOf, Stage, NameOf, IsPipeline, IsStage
  <2>2. IsFiniteSet(DOMAIN WorkOf(p, w).after)
    BY <2>1, LenProperties, FS_Interval
  <2> QED
    BY <2>2, FS_Singleton, FS_Product
<1> HIDE DEF f
<1>3. IsFiniteSet(UNION {f[w] : w \in W})
  BY <1>1, <1>2, UnionFinite
<1>4. Uses(p, W) = UNION {f[w] : w \in W}
  BY DEF Uses, f
<1> QED
  BY <1>3, <1>4

-----------------------------------------------------------------------------
(* Kahn's algorithm.                                                       *)

\* A node at zero waits for nothing: its edges come from nodes that are done.
LEMMA ZeroIsReady ==
  ASSUME NEW p, NEW E, NEW d, NEW q, Counted(p, E, d, q),
         NEW u \in E, To(u) \in Zero(d)
  PROVE  Dep(p, u) \in Zero(d) \ q
<1> DEFINE X == Zero(d) \ q
<1>1. IsFiniteSet(Waits(p, E, X, To(u)))
  BY FS_Subset DEF Counted, Waits
<1>2. Cardinality(Waits(p, E, X, To(u))) = 0
  BY DEF Counted, Zero
<1>3. Waits(p, E, X, To(u)) = {}
  BY <1>1, <1>2, FS_EmptySet
<1> QED
  BY <1>3 DEF Waits

\* What Kahn starts with.
LEMMA KahnStarts ==
  ASSUME NEW p, NEW N, NEW E, IsFiniteSet(E),
         \A u \in E : To(u) \in N /\ Dep(p, u) \in N,
         NEW d, DOMAIN d = N, \A n \in N : d[n] = Cardinality(EdgesAt(E, n)),
         NEW q, q = {n \in N : d[n] = 0}
  PROVE  /\ Counted(p, E, d, q)
         /\ OffCircles(p, E, d)
         /\ \A n \in N : d[n] \in Nat
         /\ Zero(d) = q
<1>1. Zero(d) = q
  BY DEF Zero
<1>2. ASSUME NEW n \in N
      PROVE  /\ IsFiniteSet(Waits(p, E, {}, n))
             /\ d[n] = Cardinality(Waits(p, E, {}, n))
  <2>1. Waits(p, E, {}, n) = EdgesAt(E, n) /\ EdgesAt(E, n) \in SUBSET E
    BY DEF Waits, EdgesAt
  <2> QED
    BY <2>1, FS_Subset
<1>3. Counted(p, E, d, q)
  <2>1. Zero(d) \ q = {}
    BY <1>1
  <2> QED
    BY <1>1, <1>2, <2>1 DEF Counted
<1>4. OffCircles(p, E, d)
  <2> SUFFICES ASSUME NEW S \in SUBSET DOMAIN d, Circle(p, E, S),
                      NEW n \in S, n \in Zero(d)
               PROVE  FALSE
    BY DEF OffCircles
  <2>1. PICK u \in E : To(u) = n
    BY DEF Circle
  <2>2. Dep(p, u) \in Zero(d) \ q
    BY <2>1, <1>3, ZeroIsReady
  <2> QED
    BY <2>2, <1>1
<1>5. ASSUME NEW n \in N
      PROVE  d[n] \in Nat
  BY <1>2, FS_CardinalityType
<1> QED
  BY <1>1, <1>3, <1>4, <1>5

\* One level: what was queued is done, what it freed is queued.
LEMMA KahnGoes ==
  ASSUME NEW p, NEW E, NEW d, NEW q, Counted(p, E, d, q), OffCircles(p, E, d),
         NEW e, DOMAIN e = DOMAIN d,
         \A n \in DOMAIN d : e[n] = d[n] - Cardinality(EdgesFrom(p, E, q, n)),
         NEW r,
         r = {n \in DOMAIN d : /\ Cardinality(EdgesFrom(p, E, q, n)) > 0
                               /\ d[n] = Cardinality(EdgesFrom(p, E, q, n))}
  PROVE  /\ Counted(p, E, e, r)
         /\ OffCircles(p, E, e)
         /\ \A n \in DOMAIN d : e[n] \in Nat
         /\ Zero(e) \ r = Zero(d)
         /\ \A n \in r : \E u \in E : To(u) = n /\ Dep(p, u) \in q
<1> DEFINE X == Zero(d) \ q
           F(n) == EdgesFrom(p, E, q, n)
           c(n) == Cardinality(F(n))
<1>1. q \subseteq Zero(d) /\ X \cup q = Zero(d) /\ X \cap q = {}
  BY DEF Counted
<1>2. ASSUME NEW n \in DOMAIN d
      PROVE  /\ IsFiniteSet(F(n))
             /\ IsFiniteSet(Waits(p, E, X, n)) /\ d[n] = Cardinality(Waits(p, E, X, n))
             /\ d[n] \in Nat /\ c(n) \in Nat
  <2>1. F(n) \in SUBSET E /\ Waits(p, E, X, n) \in SUBSET E
    BY DEF Waits, EdgesFrom
  <2>2. IsFiniteSet(F(n)) /\ IsFiniteSet(Waits(p, E, X, n))
    BY <2>1, FS_Subset DEF Counted
  <2>3. d[n] = Cardinality(Waits(p, E, X, n))
    BY DEF Counted
  <2> QED
    BY <2>2, <2>3, FS_CardinalityType
<1>3. ASSUME NEW n \in DOMAIN d
      PROVE  /\ e[n] = Cardinality(Waits(p, E, Zero(d), n))
             /\ e[n] \in Nat
  <2>1. Waits(p, E, Zero(d), n) = Waits(p, E, X, n) \ F(n)
    BY <1>1 DEF Waits, EdgesFrom
  <2>2. Waits(p, E, X, n) \cap F(n) = F(n)
    BY <1>1 DEF Waits, EdgesFrom
  <2>3. /\ IsFiniteSet(Waits(p, E, X, n) \ F(n))
        /\ Cardinality(Waits(p, E, X, n) \ F(n)) =
             Cardinality(Waits(p, E, X, n)) - Cardinality(Waits(p, E, X, n) \cap F(n))
    <3> HIDE DEF F, X
    <3> QED
      BY <1>2, FS_Difference
  <2>4. /\ IsFiniteSet(Waits(p, E, Zero(d), n))
        /\ Cardinality(Waits(p, E, Zero(d), n)) = d[n] - c(n)
    <3> HIDE DEF F, X
    <3> QED
      BY <1>2, <2>1, <2>2, <2>3
  <2>5. e[n] = d[n] - c(n)
    OBVIOUS
  <2> QED
    BY <2>4, <2>5, FS_CardinalityType
<1>4. ASSUME NEW n \in Zero(d)
      PROVE  F(n) = {} /\ c(n) = 0
  <2>1. \A u \in F(n) : Dep(p, u) \in X
    BY ZeroIsReady DEF Zero, EdgesFrom
  <2>2. F(n) = {}
    BY <2>1, <1>1 DEF EdgesFrom
  <2> QED
    BY <2>2, FS_EmptySet
<1>5. r \subseteq Zero(e)
  <2> SUFFICES ASSUME NEW n \in r
               PROVE  n \in DOMAIN e /\ e[n] = 0
    BY DEF Zero
  <2>1. n \in DOMAIN d /\ d[n] = c(n) /\ e[n] = d[n] - c(n)
    OBVIOUS
  <2> QED
    BY <2>1, <1>2
<1>6. Zero(e) \ r = Zero(d)
  <2>1. ASSUME NEW n \in Zero(d)
        PROVE  n \in Zero(e) /\ n \notin r
    BY <1>4 DEF Zero
  <2>2. ASSUME NEW n \in Zero(e) \ r
        PROVE  n \in Zero(d)
    <3>1. n \in DOMAIN d /\ d[n] - c(n) = 0
      BY DEF Zero
    <3>2. d[n] \in Nat /\ c(n) \in Nat
      BY <3>1, <1>2
    <3>3. d[n] = c(n)
      BY <3>1, <3>2
    <3>4. ~(c(n) > 0)
      BY <3>1, <3>3
    <3>5. d[n] = 0
      BY <3>2, <3>3, <3>4
    <3> QED
      BY <3>1, <3>5 DEF Zero
  <2> QED
    BY <2>1, <2>2
<1>7. Counted(p, E, e, r)
  BY <1>3, <1>5, <1>6 DEF Counted
<1>8. OffCircles(p, E, e)
  <2> SUFFICES ASSUME NEW S \in SUBSET DOMAIN d, Circle(p, E, S),
                      NEW n \in S, n \in Zero(e)
               PROVE  FALSE
    BY DEF OffCircles
  <2>1. PICK u \in E : To(u) = n /\ Dep(p, u) \in S
    BY DEF Circle
  <2>2. Dep(p, u) \in Zero(e) \ r
    <3> HIDE DEF X, F
    <3> QED
      BY <2>1, <1>7, ZeroIsReady
  <2> QED
    BY <2>1, <2>2, <1>6 DEF OffCircles
<1>9. ASSUME NEW n \in r
      PROVE  \E u \in E : To(u) = n /\ Dep(p, u) \in q
  <2>1. F(n) # {}
    BY <1>2, FS_EmptySet
  <2> QED
    BY <2>1 DEF EdgesFrom
<1> QED
  BY <1>3, <1>6, <1>7, <1>8, <1>9

\* When the queue is empty, the nodes that were not reached hold a cycle.
LEMMA KahnEnds ==
  ASSUME NEW p, NEW E, NEW d, Counted(p, E, d, {})
  PROVE  Circle(p, E, DOMAIN d \ Zero(d))
<1> SUFFICES ASSUME NEW n \in DOMAIN d, n \notin Zero(d)
             PROVE  \E u \in E : To(u) = n /\ Dep(p, u) \in DOMAIN d \ Zero(d)
  BY DEF Circle
<1>1. Zero(d) \ {} = Zero(d)
  OBVIOUS
<1>2. d[n] # 0 /\ d[n] = Cardinality(Waits(p, E, Zero(d), n))
  BY <1>1 DEF Counted, Zero
<1>3. Waits(p, E, Zero(d), n) # {}
  BY <1>2, FS_EmptySet
<1> QED
  BY <1>3 DEF Waits, Counted


-----------------------------------------------------------------------------
(* The graphs it is run on.                                                *)

LEMMA UseShape ==
  ASSUME NEW p, NEW W, NEW u
  PROVE  u \in Uses(p, W) <=>
           \E w \in W : \E k \in DOMAIN WorkOf(p, w).after : u = <<w, k>>
BY DEF Uses

LEMMA ScopeShape ==
  ASSUME NEW p, NEW i
  PROVE  /\ Scope(p, i) \subseteq Works(p)
         /\ ScopeNames(p, i) \subseteq AllNames(p)
         /\ Scope(p, i) = {i} \X ScopeNames(p, i)
<1>1. \A w \in Works(p) : w = <<Stage(w), NameOf(w)>>
  BY DEF Works, Stage, NameOf
<1>2. Scope(p, i) \subseteq Works(p) /\ \A w \in Scope(p, i) : Stage(w) = i
  BY DEF Scope
<1>3. Scope(p, i) \subseteq {i} \X ScopeNames(p, i)
  BY <1>1, <1>2 DEF ScopeNames
<1>4. ASSUME NEW n \in ScopeNames(p, i)
      PROVE  <<i, n>> \in Scope(p, i)
  BY <1>1, <1>2 DEF ScopeNames
<1> QED
  BY <1>2, <1>3, <1>4 DEF ScopeNames, AllNames

\* The edges between works W are uses between their names.
LEMMA EdgesShape ==
  ASSUME NEW p, IsPipeline(p), NEW W \in SUBSET Works(p),
         NEW N, N = {NameOf(w) : w \in W},
         NEW E, E = EdgesInto(p, W, N)
  PROVE  /\ IsFiniteSet(E)
         /\ \A u \in E : To(u) \in N /\ Dep(p, u) \in N /\ Dep(p, u) # Root
         /\ E \subseteq Uses(p, Works(p))
<1>1. E \subseteq Uses(p, W)
  BY DEF EdgesInto
<1>2. \A u \in Uses(p, W) : User(u) \in W /\ u \in Uses(p, Works(p))
  BY UseShape DEF User
<1>3. IsFiniteSet(E)
  BY <1>1, UsesFinite, FS_Subset
<1>4. ASSUME NEW u \in E
      PROVE  To(u) \in N /\ Dep(p, u) \in N /\ Dep(p, u) # Root
  BY <1>1, <1>2 DEF To, EdgesInto
<1> QED
  BY <1>1, <1>2, <1>3, <1>4

\* A cycle of names is one of edges, and back.
LEMMA CyclicHasCircle ==
  ASSUME NEW p
  PROVE  Cyclic(p) <=>
           \E S \in (SUBSET AllNames(p)) \ {{}} :
             Circle(p, EdgesInto(p, Works(p), AllNames(p)), S)
<1> DEFINE E == EdgesInto(p, Works(p), AllNames(p))
<1>1. ASSUME NEW S \in SUBSET AllNames(p)
      PROVE  Circle(p, E, S) <=>
               \A n \in S : \E u \in Uses(p, Works(p)) :
                 To(u) = n /\ Dep(p, u) # Root /\ Dep(p, u) \in S
  BY DEF Circle, EdgesInto
<1> QED
  BY <1>1 DEF Cyclic

\* A cycle in a part of the graph is one of the whole.
LEMMA CircleGrows ==
  ASSUME NEW p, IsPipeline(p), NEW W \in SUBSET Works(p),
         NEW S \in SUBSET {NameOf(w) : w \in W}, S # {},
         Circle(p, EdgesInto(p, W, {NameOf(w) : w \in W}), S)
  PROVE  Cyclic(p)
<1> DEFINE N == {NameOf(w) : w \in W}
           E == EdgesInto(p, W, N)
<1>1. S \subseteq N /\ N \subseteq AllNames(p)
  BY DEF AllNames
<1>2. /\ \A u \in E : Dep(p, u) # Root
      /\ E \subseteq Uses(p, Works(p))
  BY EdgesShape
<1>3. \A n \in S : \E u \in E : To(u) = n /\ Dep(p, u) \in S
  BY DEF Circle
<1> HIDE DEF N, E
<1>4. \A n \in S : \E u \in Uses(p, Works(p)) :
        To(u) = n /\ Dep(p, u) # Root /\ Dep(p, u) \in S
  BY <1>2, <1>3
<1>5. S \in (SUBSET AllNames(p)) \ {{}}
  <2>1. S \in SUBSET AllNames(p)
    BY <1>1
  <2>2. S \notin {{}}
    OBVIOUS
  <2> QED
    BY <2>1, <2>2
<1> QED
  BY <1>4, <1>5 DEF Cyclic

\* In a stage, an edge is one work naming another.
LEMMA EdgeIsAfter ==
  ASSUME NEW p, NEW i, NEW u \in ScopeEdges(p, i)
  PROVE  After(p, <<i, To(u)>>, <<i, Dep(p, u)>>)
<1>1. u \in Uses(p, Scope(p, i)) /\ Dep(p, u) # Root
  BY DEF ScopeEdges, EdgesInto
<1>2. PICK w \in Scope(p, i) : \E k \in DOMAIN WorkOf(p, w).after : u = <<w, k>>
  BY <1>1, UseShape
<1>3. w = <<i, To(u)>>
  BY <1>2, ScopeShape DEF To, User, NameOf
<1>4. u[2] \in DOMAIN WorkOf(p, w).after /\ WorkOf(p, w).after[u[2]] = Dep(p, u)
  BY <1>2 DEF Dep, User
<1> QED
  BY <1>1, <1>2, <1>3, <1>4 DEF After, NameOf

LEMMA AfterIsEdge ==
  ASSUME NEW p, NEW i, NEW m \in ScopeNames(p, i), NEW n \in ScopeNames(p, i),
         After(p, <<i, m>>, <<i, n>>)
  PROVE  \E u \in ScopeEdges(p, i) : To(u) = m /\ Dep(p, u) = n
<1>1. n # Root
  BY DEF After, NameOf
<1>2. PICK k \in DOMAIN WorkOf(p, <<i, m>>).after : WorkOf(p, <<i, m>>).after[k] = n
  BY DEF After, NameOf
<1> DEFINE u == <<<<i, m>>, k>>
<1>3. <<i, m>> \in Scope(p, i)
  BY ScopeShape
<1>4. u \in Uses(p, Scope(p, i))
  BY <1>2, <1>3, UseShape
<1>5. To(u) = m /\ Dep(p, u) = n
  BY <1>2 DEF To, User, NameOf, Dep
<1> QED
  BY <1>1, <1>4, <1>5 DEF ScopeEdges, EdgesInto

-----------------------------------------------------------------------------
(* One more step.                                                          *)

LEMMA AppendParts ==
  ASSUME NEW Y, NEW s \in Seq(Y), NEW T
  PROVE  /\ Len(s) \in Nat
         /\ DOMAIN s = 1..Len(s)
         /\ Len(Append(s, T)) = Len(s) + 1
         /\ DOMAIN Append(s, T) = 1..(Len(s) + 1)
         /\ \A k \in 1..Len(s) : Append(s, T)[k] = s[k]
         /\ Append(s, T)[Len(s) + 1] = T
<1>1. s \in Seq(Y \cup {T}) /\ T \in Y \cup {T}
  BY SeqMonotonic
<1> QED
  BY <1>1, LenProperties, AppendProperties

LEMMA PlacedGrows ==
  ASSUME NEW Y, NEW s \in Seq(Y), NEW T
  PROVE  Placed(Append(s, T)) = Placed(s) \cup T
<1> DEFINE t == Append(s, T)
<1>1. \A k \in DOMAIN t : k = Len(s) + 1 \/ (k \in DOMAIN s /\ t[k] = s[k])
  BY AppendParts
<1>2. t[Len(s) + 1] = T /\ Len(s) + 1 \in DOMAIN t
  BY AppendParts
<1>3. \A k \in DOMAIN s : k \in DOMAIN t /\ t[k] = s[k]
  BY AppendParts
<1> HIDE DEF t
<1>4. Placed(t) \subseteq Placed(s) \cup T
  BY <1>1, <1>2 DEF Placed
<1>5. Placed(s) \cup T \subseteq Placed(t)
  BY <1>2, <1>3 DEF Placed
<1> QED
  BY <1>4, <1>5 DEF t

LEMMA FilledGrows ==
  ASSUME NEW Y, NEW s \in Seq(Y), Filled(s),
         NEW T, T # {}, \A v, w \in T : Stage(v) = Stage(w)
  PROVE  Filled(Append(s, T))
BY AppendParts DEF Filled

LEMMA ApartGrows ==
  ASSUME NEW Y, NEW s \in Seq(Y), Apart(s), NEW T, T \cap Placed(s) = {}
  PROVE  Apart(Append(s, T))
<1> DEFINE t == Append(s, T)
<1>1. \A k \in DOMAIN t : (k = Len(s) + 1 /\ t[k] = T) \/ (k \in DOMAIN s /\ t[k] = s[k])
  BY AppendParts
<1>2. \A k \in DOMAIN s : s[k] \cap T = {} /\ T \cap s[k] = {}
  BY DEF Placed
<1> HIDE DEF t
<1>3. ASSUME NEW j \in DOMAIN t, NEW k \in DOMAIN t, j # k
      PROVE  t[j] \cap t[k] = {}
  BY <1>1, <1>2, <1>3 DEF Apart
<1> QED
  BY <1>3 DEF Apart, t

LEMMA OrderedGrows ==
  ASSUME NEW p, NEW Y, NEW s \in Seq(Y), Ordered(p, s), NEW T,
         \A v \in T : \A w \in Placed(s) \cup T :
           ~(Stage(v) = Stage(w) /\ After(p, w, v)) /\ ~(Stage(v) < Stage(w))
  PROVE  Ordered(p, Append(s, T))
<1> DEFINE t == Append(s, T)
<1>1. /\ \A k \in DOMAIN t : (k = Len(s) + 1 /\ t[k] = T) \/ (k \in DOMAIN s /\ t[k] = s[k])
      /\ Len(s) \in Nat /\ DOMAIN s = 1..Len(s)
  BY AppendParts
<1>2. \A k \in DOMAIN s : s[k] \subseteq Placed(s)
  BY DEF Placed
<1> HIDE DEF t
<1>3. ASSUME NEW j \in DOMAIN t, NEW k \in DOMAIN t, NEW v \in t[j], NEW w \in t[k],
             (Stage(v) = Stage(w) /\ After(p, w, v)) \/ Stage(v) < Stage(w)
      PROVE  j < k
  <2>1. CASE j = Len(s) + 1 /\ t[j] = T
    <3>1. w \in Placed(s) \cup T
      BY <1>1, <1>2
    <3> QED
      BY <1>3, <2>1, <3>1
  <2>2. CASE j \in DOMAIN s /\ t[j] = s[j] /\ k = Len(s) + 1
    BY <1>1, <2>2
  <2>3. CASE j \in DOMAIN s /\ t[j] = s[j] /\ k \in DOMAIN s /\ t[k] = s[k]
    BY <1>3, <2>3 DEF Ordered
  <2> QED
    BY <1>1, <2>1, <2>2, <2>3
<1> QED
  BY <1>3 DEF Ordered, t

LEMMA EarlyGrows ==
  ASSUME NEW p, NEW Y, NEW s \in Seq(Y), Early(p, s), NEW T,
         \A w \in T : s # <<>> =>
           \/ \A v \in s[Len(s)] : Stage(v) # Stage(w)
           \/ \E v \in s[Len(s)] : After(p, w, v)
  PROVE  Early(p, Append(s, T))
<1> DEFINE t == Append(s, T)
<1>1. /\ \A k \in DOMAIN t : (k = Len(s) + 1 /\ t[k] = T) \/ (k \in DOMAIN s /\ t[k] = s[k])
      /\ \A k \in DOMAIN s : t[k] = s[k]
      /\ Len(s) \in Nat /\ DOMAIN s = 1..Len(s)
  BY AppendParts
<1> HIDE DEF t
<1>2. ASSUME NEW k \in DOMAIN t, NEW w \in t[k], k > 1
      PROVE  \/ \A v \in t[k - 1] : Stage(v) # Stage(w)
             \/ \E v \in t[k - 1] : After(p, w, v)
  <2>1. CASE k \in DOMAIN s /\ t[k] = s[k]
    <3>1. k - 1 \in DOMAIN s
      BY <1>1, <1>2, <2>1
    <3> QED
      BY <1>1, <1>2, <2>1, <3>1 DEF Early
  <2>2. CASE k = Len(s) + 1 /\ t[k] = T
    <3>1. k - 1 = Len(s) /\ Len(s) \in DOMAIN s
      BY <1>1, <1>2, <2>2
    <3>2. s # <<>> /\ t[k - 1] = s[Len(s)]
      BY <1>1, <3>1
    <3> QED
      BY <2>2, <3>2
  <2> QED
    BY <1>1, <2>1, <2>2
<1> QED
  BY <1>2 DEF Early, t


-----------------------------------------------------------------------------
(* The targets.                                                            *)

\* Among the works found one is of the first stage of all: CHOOSE has a choice.
LEMMA FirstFound ==
  ASSUME NEW p, IsPipeline(p), NEW found \in SUBSET Works(p), found # {}
  PROVE  \E w \in found : \A v \in found : Stage(w) <= Stage(v)
<1> DEFINE R == OpToRel(<, Nat)
           T == {Stage(w) : w \in found}
<1>1. DOMAIN p \subseteq Nat
  BY LenProperties DEF IsPipeline
<1>2. \A w \in Works(p) : Stage(w) \in Nat
  BY <1>1 DEF Works, Stage
<1>3. T \subseteq Nat /\ T # {}
  BY <1>2
<1>4. IsWellFoundedOn(R, Nat)
  BY NatLessThanWellFounded
<1> HIDE DEF R, T
<1>5. PICK x \in T : \A y \in T : <<y, x>> \notin R
  BY <1>3, <1>4, WFMin
<1>6. \A y \in T : ~(y < x)
  BY <1>3, <1>5 DEF R, OpToRel
<1>7. \A y \in T : x <= y
  BY <1>3, <1>6
<1> QED
  BY <1>7 DEF T

\* A target is a list of stages in the order of the file.
LEMMA TargetShape ==
  ASSUME NEW p, IsPipeline(p), NEW t \in Targets(p)
  PROVE  /\ t \in Seq(DOMAIN p)
         /\ \A j, k \in DOMAIN t : j < k => t[j] < t[k]
<1>1. Len(p) \in Nat /\ DOMAIN p = 1..Len(p)
  BY LenProperties DEF IsPipeline
<1>2. CASE t = [i \in DOMAIN p |-> i]
  <2>1. t \in [1..Len(p) -> DOMAIN p]
    BY <1>1, <1>2
  <2>2. t \in Seq(DOMAIN p)
    BY <1>1, <2>1
  <2> QED
    BY <1>2, <2>2
<1>3. CASE \E i \in DOMAIN p : t = <<i>>
  <2>1. PICK i \in DOMAIN p : t = <<i>>
    BY <1>3
  <2> QED
    BY <2>1
<1> QED
  BY <1>2, <1>3 DEF Targets

LEMMA TodoShape ==
  ASSUME TypeOK, TodoInv, todo # <<>>
  PROVE  /\ Past \in Nat /\ Past + 1 \in DOMAIN target
         /\ DOMAIN target = 1..Len(target)
         /\ Head(todo) = target[Past + 1]
         /\ Head(todo) \in DOMAIN pipeline /\ Head(todo) \in Nat
         /\ \A w \in PastWorks : Stage(w) \in Nat /\ Stage(w) < Head(todo)
<1>1. /\ Len(target) \in Nat /\ DOMAIN target = 1..Len(target)
      /\ Len(todo) \in Nat \ {0} /\ DOMAIN todo = 1..Len(todo)
  BY LenProperties, EmptySeq DEF TypeOK
<1>2. Head(todo) = todo[1] /\ Head(todo) \in DOMAIN pipeline
  BY HeadTailProperties DEF TypeOK
<1>3. DOMAIN pipeline \subseteq Nat
  BY PipelinesAssumption, LenProperties DEF IsPipeline, TypeOK
<1>4. Past \in Nat /\ Past + 1 \in DOMAIN target
  BY <1>1 DEF TodoInv, Past
<1>5. Head(todo) = target[Past + 1]
  BY <1>1, <1>2 DEF TodoInv, Past
<1>6. ASSUME NEW w \in PastWorks
      PROVE  Stage(w) \in Nat /\ Stage(w) < Head(todo)
  <2>1. PICK k \in 1..Past : w \in Scope(pipeline, target[k])
    BY DEF PastWorks
  <2>2. Stage(w) = target[k]
    BY <2>1 DEF Scope
  <2>3. k \in DOMAIN target /\ k < Past + 1
    BY <1>1, <1>4
  <2>4. target[k] < target[Past + 1]
    BY <1>4, <2>3 DEF TodoInv
  <2>5. target[k] \in DOMAIN pipeline
    BY <1>1, <2>3, ElementOfSeq DEF TypeOK
  <2> QED
    BY <1>3, <1>5, <2>2, <2>4, <2>5
<1> QED
  BY <1>1, <1>2, <1>3, <1>4, <1>5, <1>6


-----------------------------------------------------------------------------
(* The invariant is inductive.                                             *)

LEMMA InitInv == Init => Inv
<1> SUFFICES ASSUME Init
             PROVE  Inv
  OBVIOUS
<1>1. TypeOK
  BY EmptySeq DEF Init, TypeOK, Final
<1>2. KahnInv /\ ValidateInv /\ KnownInv /\ ValidateExact /\ StageInv /\ PlacedInv
  BY DEF Init, KahnInv, ValidateInv, KnownInv, ValidateExact, StageInv, PlacedInv
<1>3. TodoInv /\ FreedInv /\ StepsInv
  BY DEF Init, TodoInv, FreedInv, StepsInv, Filled, Apart
<1> QED
  BY <1>1, <1>2, <1>3 DEF Inv

LEMMA StutterInv == Inv /\ UNCHANGED vars => Inv'
<1> SUFFICES ASSUME Inv, UNCHANGED vars
             PROVE  Inv'
  OBVIOUS
<1>1. TypeOK' /\ KahnInv' /\ ValidateInv' /\ KnownInv' /\ ValidateExact'
  BY DEF Inv, vars, graphVars, TypeOK, KahnInv, ValidateInv, KnownInv, ValidateExact
<1>2. TodoInv' /\ StageInv' /\ PlacedInv' /\ FreedInv' /\ StepsInv'
  BY DEF Inv, vars, graphVars, TodoInv, StageInv, PlacedInv, FreedInv, StepsInv,
         Past, PastWorks
<1> QED
  BY <1>1, <1>2 DEF Inv

LEMMA StartValidationInv == Inv /\ StartValidation => Inv'
<1> SUFFICES ASSUME Inv, StartValidation
             PROVE  Inv'
  OBVIOUS
<1> DEFINE N == AllNames(pipeline)
           E == EdgesInto(pipeline, Works(pipeline), N)
<1>1. /\ pc = "build" /\ UNCHANGED <<pipeline, processed, target, todo, steps>>
      /\ pc' \in {"rejected", "validate"}
  BY DEF StartValidation
<1>2. TodoInv' /\ StageInv' /\ PlacedInv' /\ FreedInv' /\ StepsInv'
  BY <1>1 DEF Inv, TodoInv, StageInv, PlacedInv, FreedInv, StepsInv, Past
<1>3. CASE Unknown(pipeline)
  <2>1. pc' = "rejected" /\ UNCHANGED graphVars
    BY <1>3 DEF StartValidation
  <2>2. TypeOK'
    BY <1>1, <2>1 DEF Inv, TypeOK, graphVars, Final
  <2>3. KahnInv' /\ ValidateInv' /\ KnownInv' /\ ValidateExact'
    BY <1>1, <1>3, <2>1 DEF KahnInv, ValidateInv, KnownInv, ValidateExact
  <2> QED
    BY <1>2, <2>2, <2>3 DEF Inv
<1>4. CASE ~Unknown(pipeline)
  <2>1. /\ pc' = "validate" /\ edges' = E
        /\ inDegree' = [n \in N |-> Cardinality({u \in E : To(u) = n})]
        /\ queue' = {n \in N : inDegree'[n] = 0}
    BY <1>4 DEF StartValidation, Kahn
  <2>2. IsPipeline(pipeline)
    BY PipelinesAssumption DEF Inv, TypeOK
  <2>3. /\ IsFiniteSet(E) /\ E \subseteq Uses(pipeline, Works(pipeline))
        /\ \A u \in E : To(u) \in N /\ Dep(pipeline, u) \in N
    BY <2>2, EdgesShape DEF AllNames
  <2> HIDE DEF N, E
  <2>4. /\ Counted(pipeline, edges', inDegree', queue')
        /\ OffCircles(pipeline, edges', inDegree')
        /\ \A n \in N : inDegree'[n] \in Nat
        /\ Zero(inDegree') = queue'
    <3>1. /\ DOMAIN inDegree' = N
          /\ \A n \in N : inDegree'[n] = Cardinality(EdgesAt(E, n))
      BY <2>1 DEF EdgesAt
    <3>2. /\ IsFiniteSet(E) /\ queue' = {n \in N : inDegree'[n] = 0}
          /\ \A u \in E : To(u) \in N /\ Dep(pipeline, u) \in N
      BY <2>1, <2>3
    <3>3. /\ Counted(pipeline, E, inDegree', queue')
          /\ OffCircles(pipeline, E, inDegree')
          /\ \A n \in N : inDegree'[n] \in Nat
          /\ Zero(inDegree') = queue'
      BY <3>1, <3>2, KahnStarts
    <3> QED
      BY <2>1, <3>3
  <2>5. DOMAIN inDegree' = N /\ queue' \subseteq N
    BY <2>1
  <2>6. TypeOK'
    BY <1>1, <2>1, <2>3, <2>4, <2>5 DEF Inv, TypeOK, N
  <2>7. Cardinality(Zero(inDegree') \ queue') = 0 /\ processed = 0
    BY <1>1, <2>4, FS_EmptySet DEF Inv, ValidateInv
  <2>8. KahnInv' /\ ValidateInv'
    BY <1>1, <2>1, <2>4, <2>5, <2>7 DEF KahnInv, ValidateInv, N, E
  <2>9. KnownInv' /\ ValidateExact'
    BY <1>1, <1>4, <2>1 DEF KnownInv, ValidateExact
  <2> QED
    BY <1>2, <2>6, <2>8, <2>9 DEF Inv
<1> QED
  BY <1>3, <1>4

\* What Level does, in the terms of KahnGoes.
LEMMA LevelGoes ==
  ASSUME Counted(pipeline, edges, inDegree, queue),
         OffCircles(pipeline, edges, inDegree), Level
  PROVE  /\ edges' = edges /\ DOMAIN inDegree' = DOMAIN inDegree
         /\ queue' \subseteq DOMAIN inDegree
         /\ Counted(pipeline, edges', inDegree', queue')
         /\ OffCircles(pipeline, edges', inDegree')
         /\ \A n \in DOMAIN inDegree : inDegree'[n] \in Nat
         /\ Zero(inDegree') \ queue' = Zero(inDegree)
         /\ \A n \in queue' :
              \E u \in edges : To(u) = n /\ Dep(pipeline, u) \in queue
<1>1. \A n : Freed(n) = Cardinality(EdgesFrom(pipeline, edges, queue, n))
  BY DEF Freed, EdgesFrom
<1>2. /\ inDegree' = [n \in DOMAIN inDegree |-> inDegree[n] - Freed(n)]
      /\ queue' = {n \in DOMAIN inDegree : Freed(n) > 0 /\ inDegree[n] = Freed(n)}
      /\ edges' = edges
  BY DEF Level
<1>3. DOMAIN inDegree' = DOMAIN inDegree /\ queue' \subseteq DOMAIN inDegree
  BY <1>2
<1>4. /\ \A n \in DOMAIN inDegree : inDegree'[n] = 
            inDegree[n] - Cardinality(EdgesFrom(pipeline, edges, queue, n))
      /\ queue' = {n \in DOMAIN inDegree :
            /\ Cardinality(EdgesFrom(pipeline, edges, queue, n)) > 0
            /\ inDegree[n] = Cardinality(EdgesFrom(pipeline, edges, queue, n))}
  BY <1>1, <1>2
<1>5. /\ Counted(pipeline, edges, inDegree', queue')
      /\ OffCircles(pipeline, edges, inDegree')
      /\ \A n \in DOMAIN inDegree : inDegree'[n] \in Nat
      /\ Zero(inDegree') \ queue' = Zero(inDegree)
      /\ \A n \in queue' :
           \E u \in edges : To(u) = n /\ Dep(pipeline, u) \in queue
  BY <1>3, <1>4, KahnGoes
<1> QED
  BY <1>2, <1>3, <1>5

LEMMA ValidateLevelInv == Inv /\ ValidateLevel => Inv'
<1> SUFFICES ASSUME Inv, ValidateLevel
             PROVE  Inv'
  OBVIOUS
<1>1. /\ pc = "validate" /\ UNCHANGED <<pipeline, pc, target, todo, steps>>
      /\ processed' = processed + Cardinality(queue) /\ Level
  BY DEF ValidateLevel
<1>2. /\ Counted(pipeline, edges, inDegree, queue)
      /\ OffCircles(pipeline, edges, inDegree)
      /\ edges = EdgesInto(pipeline, Works(pipeline), AllNames(pipeline))
      /\ DOMAIN inDegree = AllNames(pipeline)
      /\ processed = Cardinality(Zero(inDegree) \ queue)
  BY <1>1 DEF Inv, KahnInv, ValidateInv
<1>3. /\ edges' = edges /\ DOMAIN inDegree' = DOMAIN inDegree
      /\ queue' \subseteq DOMAIN inDegree
      /\ Counted(pipeline, edges', inDegree', queue')
      /\ OffCircles(pipeline, edges', inDegree')
      /\ \A n \in DOMAIN inDegree : inDegree'[n] \in Nat
      /\ Zero(inDegree') \ queue' = Zero(inDegree)
  BY <1>1, <1>2, LevelGoes
<1>4. IsFiniteSet(Zero(inDegree) \ queue) /\ IsFiniteSet(queue)
  <2>1. IsFiniteSet(AllNames(pipeline))
    BY PipelinesAssumption, WorksFinite DEF Inv, TypeOK
  <2>2. /\ Zero(inDegree) \ queue \in SUBSET AllNames(pipeline)
        /\ queue \in SUBSET AllNames(pipeline)
    BY <1>2 DEF Zero, Counted
  <2> QED
    BY <2>1, <2>2, FS_Subset
<1>5. processed' = Cardinality(Zero(inDegree)) /\ processed' \in Nat
  <2> DEFINE D == Zero(inDegree) \ queue
  <2>1. D \cup queue = Zero(inDegree) /\ D \cap queue = {}
    BY <1>2 DEF Counted
  <2>2. Cardinality(D \cap queue) = 0
    BY <2>1, FS_EmptySet
  <2>3. Cardinality(D) \in Nat /\ Cardinality(queue) \in Nat
    BY <1>4, FS_CardinalityType
  <2> HIDE DEF D
  <2>4. Cardinality(D \cup queue) =
          Cardinality(D) + Cardinality(queue) - Cardinality(D \cap queue)
    BY <1>4, FS_Union DEF D
  <2>6. Cardinality(Zero(inDegree)) =
          Cardinality(D) + Cardinality(queue) - Cardinality(D \cap queue)
    BY <2>1, <2>4, Zenon
  <2>5. processed = Cardinality(D)
    BY <1>2 DEF D
  <2> QED
    BY <1>1, <2>2, <2>3, <2>5, <2>6
<1>6. TypeOK'
  BY <1>1, <1>3, <1>5 DEF Inv, TypeOK
<1>7. KahnInv' /\ ValidateInv' /\ KnownInv' /\ ValidateExact'
  BY <1>1, <1>2, <1>3, <1>5
     DEF Inv, KahnInv, ValidateInv, KnownInv, ValidateExact
<1>8. TodoInv' /\ StageInv' /\ PlacedInv' /\ FreedInv' /\ StepsInv'
  BY <1>1 DEF Inv, TodoInv, StageInv, PlacedInv, FreedInv, StepsInv, Past
<1> QED
  BY <1>6, <1>7, <1>8 DEF Inv

LEMMA EndValidationInv == Inv /\ EndValidation => Inv'
<1> SUFFICES ASSUME Inv, EndValidation
             PROVE  Inv'
  OBVIOUS
<1> DEFINE N == AllNames(pipeline)
           Z == Zero(inDegree)
<1>1. /\ pc = "validate" /\ queue = {}
      /\ UNCHANGED <<pipeline, graphVars, processed, target, todo, steps>>
      /\ pc' \in {"rejected", "built"}
      /\ pc' = "rejected" <=> processed < Cardinality(N)
  BY DEF EndValidation
<1>2. /\ Counted(pipeline, edges, inDegree, {})
      /\ OffCircles(pipeline, edges, inDegree)
      /\ edges = EdgesInto(pipeline, Works(pipeline), N)
      /\ DOMAIN inDegree = N
      /\ processed = Cardinality(Z)
  <2>1. Z \ {} = Z
    OBVIOUS
  <2> QED
    BY <1>1, <2>1 DEF Inv, KahnInv, ValidateInv
<1>3. /\ IsFiniteSet(N) /\ Z \subseteq N
      /\ Cardinality(N) \in Nat /\ Cardinality(Z) \in Nat
      /\ Cardinality(Z) <= Cardinality(N)
      /\ Cardinality(Z) = Cardinality(N) <=> Z = N
  <2>1. IsFiniteSet(N)
    BY PipelinesAssumption, WorksFinite DEF Inv, TypeOK
  <2>2. Z \in SUBSET N
    BY <1>2 DEF Zero
  <2> HIDE DEF N, Z
  <2> QED
    BY <2>1, <2>2, FS_Subset, FS_CardinalityType
<1>4. pc' = "rejected" <=> Z # N
  BY <1>1, <1>2, <1>3
<1>5. Circle(pipeline, edges, N \ Z)
  BY <1>2, KahnEnds
<1>6. Z # N => Cyclic(pipeline)
  <2>1. Z # N => N \ Z \in (SUBSET N) \ {{}}
    BY <1>3
  <2> QED
    BY <1>2, <1>5, <2>1, CyclicHasCircle
<1>7. Z = N => ~Cyclic(pipeline)
  <2> SUFFICES ASSUME Z = N, NEW S \in (SUBSET N) \ {{}}, Circle(pipeline, edges, S)
               PROVE  FALSE
    BY <1>2, CyclicHasCircle
  <2>1. S \cap Z = {}
    BY <1>2 DEF OffCircles
  <2> QED
    BY <2>1
<1>8. ~Unknown(pipeline)
  BY <1>1 DEF Inv, KnownInv
<1> HIDE DEF N, Z
<1>9. KahnInv' /\ ValidateInv' /\ KnownInv' /\ ValidateExact'
  BY <1>1, <1>4, <1>6, <1>7, <1>8
     DEF KahnInv, ValidateInv, KnownInv, ValidateExact
<1>10. TypeOK'
  BY <1>1 DEF Inv, TypeOK, graphVars, Final
<1>11. TodoInv' /\ StageInv' /\ PlacedInv' /\ FreedInv' /\ StepsInv'
  BY <1>1 DEF Inv, TodoInv, StageInv, PlacedInv, FreedInv, StepsInv, Past
<1> QED
  BY <1>9, <1>10, <1>11 DEF Inv


LEMMA ResolveWorkInv ==
  ASSUME Inv, NEW i, NEW n, ResolveWork(i, n)
  PROVE  Inv'
<1> DEFINE found == {w \in Works(pipeline) : i \in {0, Stage(w)} /\ NameOf(w) = n}
           first == CHOOSE w \in found : \A v \in found : Stage(w) <= Stage(v)
<1>1. /\ pc = "built" /\ pc' \in {"failed", "single"}
      /\ UNCHANGED <<pipeline, graphVars, processed, target, todo>>
      /\ found = {} => pc' = "failed" /\ UNCHANGED steps
      /\ found # {} => pc' = "single" /\ steps' = <<{first}>>
  BY DEF ResolveWork
<1>2. KahnInv' /\ ValidateInv' /\ KnownInv' /\ ValidateExact'
  BY <1>1 DEF Inv, KahnInv, ValidateInv, KnownInv, ValidateExact
<1>3. TodoInv' /\ StageInv' /\ PlacedInv' /\ FreedInv'
  BY <1>1 DEF Inv, TodoInv, StageInv, PlacedInv, FreedInv, Past
<1>4. CASE found = {}
  <2>1. TypeOK'
    BY <1>1, <1>4 DEF Inv, TypeOK, graphVars, Final
  <2>2. StepsInv'
    BY <1>1, <1>4 DEF Inv, StepsInv
  <2> QED
    BY <1>2, <1>3, <2>1, <2>2 DEF Inv
<1>5. CASE found # {}
  <2>1. first \in Works(pipeline)
    <3>1. IsPipeline(pipeline)
      BY PipelinesAssumption DEF Inv, TypeOK
    <3>2. \E w \in found : \A v \in found : Stage(w) <= Stage(v)
      BY <1>5, <3>1, FirstFound
    <3> QED
      BY <3>2
  <2> HIDE DEF found, first
  <2>2. pc' = "single" /\ steps' = <<{first}>>
    BY <1>1, <1>5
  <2>3. steps' \in Seq(SUBSET Works(pipeline))
    BY <2>1, <2>2
  <2>4. TypeOK'
    BY <1>1, <2>2, <2>3 DEF Inv, TypeOK, graphVars, Final
  <2>5. DOMAIN steps' = {1} /\ steps'[1] = {first} /\ steps' # <<>>
    BY <2>2
  <2>6. StepsInv'
    BY <2>2, <2>5 DEF StepsInv, Filled, Apart
  <2> QED
    BY <1>2, <1>3, <2>4, <2>6 DEF Inv
<1> QED
  BY <1>4, <1>5

LEMMA ResolveStagesInv ==
  ASSUME Inv, NEW t \in Targets(pipeline), ResolveStages(t)
  PROVE  Inv'
<1>1. /\ pc = "built" /\ pc' = "stages" /\ target' = t /\ todo' = t
      /\ UNCHANGED <<pipeline, graphVars, processed, steps>>
  BY DEF ResolveStages
<1>2. /\ t \in Seq(DOMAIN pipeline)
      /\ \A j, k \in DOMAIN t : j < k => t[j] < t[k]
  BY PipelinesAssumption, TargetShape DEF Inv, TypeOK
<1>3. Len(t) \in Nat /\ DOMAIN t = 1..Len(t)
  BY <1>2, LenProperties
<1>4. TypeOK'
  BY <1>1, <1>2 DEF Inv, TypeOK, graphVars, Final
<1>5. KahnInv' /\ ValidateInv' /\ KnownInv' /\ ValidateExact' /\ StageInv' /\ FreedInv'
  BY <1>1
     DEF Inv, KahnInv, ValidateInv, KnownInv, ValidateExact, StageInv, FreedInv
<1>6. Past' = 0
  BY <1>1, <1>3 DEF Past
<1>7. TodoInv'
  BY <1>1, <1>2, <1>3, <1>6 DEF TodoInv
<1>8. steps' = <<>>
  BY <1>1 DEF Inv, StepsInv
<1>9. PlacedInv'
  <2>1. PastWorks' = {}
    BY <1>6 DEF PastWorks
  <2>2. Placed(steps') = {}
    BY <1>8 DEF Placed
  <2> QED
    BY <1>1, <2>1, <2>2 DEF PlacedInv
<1>10. StepsInv'
  BY <1>1, <1>8 DEF StepsInv, Filled, Apart, Ordered, Early
<1> QED
  BY <1>4, <1>5, <1>7, <1>9, <1>10 DEF Inv

LEMMA StartStageInv == Inv /\ StartStage => Inv'
<1> SUFFICES ASSUME Inv, StartStage
             PROVE  Inv'
  OBVIOUS
<1> DEFINE i == Head(todo)
           W == Scope(pipeline, i)
           N == ScopeNames(pipeline, i)
           E == ScopeEdges(pipeline, i)
<1>1. /\ pc = "stages" /\ pc' = "stage" /\ todo # <<>>
      /\ UNCHANGED <<pipeline, processed, target, todo, steps>>
      /\ edges' = E
      /\ inDegree' = [n \in N |-> Cardinality({u \in E : To(u) = n})]
      /\ queue' = {n \in N : inDegree'[n] = 0}
  BY DEF StartStage, Kahn, ScopeNames, ScopeEdges
<1>2. /\ IsFiniteSet(E) /\ E \subseteq Uses(pipeline, Works(pipeline))
      /\ \A u \in E : To(u) \in N /\ Dep(pipeline, u) \in N
      /\ N \subseteq AllNames(pipeline)
  <2>1. IsPipeline(pipeline) /\ W \in SUBSET Works(pipeline)
    BY PipelinesAssumption, ScopeShape DEF Inv, TypeOK
  <2> QED
    BY <2>1, EdgesShape, ScopeShape DEF ScopeNames, ScopeEdges
<1> HIDE DEF N, E
<1>3. /\ Counted(pipeline, edges', inDegree', queue')
      /\ OffCircles(pipeline, edges', inDegree')
      /\ \A n \in N : inDegree'[n] \in Nat
      /\ Zero(inDegree') = queue'
  <2>1. /\ DOMAIN inDegree' = N
        /\ \A n \in N : inDegree'[n] = Cardinality(EdgesAt(E, n))
    BY <1>1 DEF EdgesAt
  <2>2. /\ IsFiniteSet(E) /\ queue' = {n \in N : inDegree'[n] = 0}
        /\ \A u \in E : To(u) \in N /\ Dep(pipeline, u) \in N
    BY <1>1, <1>2
  <2>3. /\ Counted(pipeline, E, inDegree', queue')
        /\ OffCircles(pipeline, E, inDegree')
        /\ \A n \in N : inDegree'[n] \in Nat
        /\ Zero(inDegree') = queue'
    BY <2>1, <2>2, KahnStarts
  <2> QED
    BY <1>1, <2>3
<1>4. DOMAIN inDegree' = N /\ queue' \subseteq N
  BY <1>1
<1>5. TypeOK'
  BY <1>1, <1>2, <1>3, <1>4 DEF Inv, TypeOK
<1>6. KahnInv' /\ ValidateInv' /\ KnownInv' /\ ValidateExact' /\ TodoInv'
  BY <1>1, <1>3
     DEF Inv, KahnInv, ValidateInv, KnownInv, ValidateExact, TodoInv, Past
<1>7. StageInv'
  BY <1>1, <1>4 DEF StageInv, N, E
<1>8. Placed(steps) = PastWorks
  BY <1>1 DEF Inv, PlacedInv
<1>9. PlacedInv'
  <2>1. Zero(inDegree') \ queue' = {}
    BY <1>3
  <2>2. {Head(todo)} \X (Zero(inDegree') \ queue') = {}
    BY <2>1
  <2>3. PastWorks' = PastWorks
    BY <1>1 DEF PastWorks, Past
  <2> QED
    BY <1>1, <1>8, <2>2, <2>3 DEF PlacedInv
<1>10. FreedInv'
  <2>1. ASSUME steps # <<>>
        PROVE  \A v \in steps[Len(steps)] : Stage(v) # Head(todo)
    <3>1. Len(steps) \in DOMAIN steps
      BY <2>1, EmptySeq, LenProperties DEF Inv, TypeOK
    <3>2. steps[Len(steps)] \subseteq PastWorks
      BY <3>1, <1>8 DEF Placed
    <3>3. \A w \in PastWorks : Stage(w) \in Nat /\ Stage(w) < Head(todo)
      BY <1>1, TodoShape DEF Inv
    <3> QED
      BY <3>2, <3>3
  <2> QED
    BY <1>1, <2>1 DEF FreedInv
<1>11. StepsInv'
  BY <1>1 DEF Inv, StepsInv
<1> QED
  BY <1>5, <1>6, <1>7, <1>9, <1>10, <1>11 DEF Inv


LEMMA StageLevelInv == Inv /\ StageLevel => Inv'
<1> SUFFICES ASSUME Inv, StageLevel
             PROVE  Inv'
  OBVIOUS
<1> DEFINE i == Head(todo)
           T == {i} \X queue
           Z == Zero(inDegree)
<1>1. /\ pc = "stage" /\ queue # {} /\ steps' = Append(steps, T) /\ Level
      /\ UNCHANGED <<pipeline, pc, processed, target, todo>>
  BY DEF StageLevel
<1>2. /\ Counted(pipeline, edges, inDegree, queue)
      /\ OffCircles(pipeline, edges, inDegree)
      /\ todo # <<>> /\ edges = ScopeEdges(pipeline, i)
      /\ DOMAIN inDegree = ScopeNames(pipeline, i)
      /\ Placed(steps) = PastWorks \cup ({i} \X (Z \ queue))
  BY <1>1 DEF Inv, KahnInv, StageInv, PlacedInv
<1>3. /\ edges' = edges /\ DOMAIN inDegree' = DOMAIN inDegree
      /\ queue' \subseteq DOMAIN inDegree
      /\ Counted(pipeline, edges', inDegree', queue')
      /\ OffCircles(pipeline, edges', inDegree')
      /\ \A n \in DOMAIN inDegree : inDegree'[n] \in Nat
      /\ Zero(inDegree') \ queue' = Z
      /\ \A n \in queue' :
           \E u \in edges : To(u) = n /\ Dep(pipeline, u) \in queue
  BY <1>1, <1>2, LevelGoes
<1>4. queue \subseteq Z /\ Z \subseteq ScopeNames(pipeline, i)
  BY <1>2 DEF Counted, Zero
<1>5. steps \in Seq(SUBSET Works(pipeline))
  BY DEF Inv, TypeOK
<1>6. T \in SUBSET Works(pipeline) /\ T # {}
  <2>1. T \subseteq {i} \X ScopeNames(pipeline, i)
    BY <1>4
  <2>2. PICK n : n \in queue
    BY <1>1
  <2>3. <<i, n>> \in T
    BY <2>2
  <2> QED
    BY <2>1, <2>3, ScopeShape
<1>7. \A w \in T : Stage(w) = i /\ NameOf(w) \in queue /\ w = <<i, NameOf(w)>>
  BY DEF Stage, NameOf
<1>8. \A w \in PastWorks : Stage(w) \in Nat /\ i \in Nat /\ Stage(w) < i
  BY <1>2, TodoShape DEF Inv
<1>9. \A w \in {i} \X (Z \ queue) :
        Stage(w) = i /\ NameOf(w) \in Z \ queue /\ w = <<i, NameOf(w)>>
  BY DEF Stage, NameOf
<1>10. \A n \in Z, m \in queue : ~After(pipeline, <<i, n>>, <<i, m>>)
  <2> SUFFICES ASSUME NEW n \in Z, NEW m \in queue,
                      After(pipeline, <<i, n>>, <<i, m>>)
               PROVE  FALSE
    OBVIOUS
  <2>1. PICK u \in edges : To(u) = n /\ Dep(pipeline, u) = m
    BY <1>2, <1>4, AfterIsEdge
  <2>2. Dep(pipeline, u) \in Z \ queue
    BY <1>2, <2>1, ZeroIsReady
  <2> QED
    BY <2>1, <2>2
<1>11. T \cap Placed(steps) = {}
  BY <1>2, <1>7, <1>8, <1>9
<1>12. ASSUME NEW v \in T, NEW w \in Placed(steps) \cup T
       PROVE  /\ ~(Stage(v) = Stage(w) /\ After(pipeline, w, v))
              /\ ~(Stage(v) < Stage(w))
  <2>1. CASE w \in PastWorks
    BY <1>7, <1>8, <2>1
  <2>2. CASE w \in T \/ w \in {i} \X (Z \ queue)
    <3>1. Stage(w) = i /\ NameOf(w) \in Z /\ w = <<i, NameOf(w)>>
      BY <1>4, <1>7, <1>9, <2>2
    <3>2. ~After(pipeline, w, v)
      BY <1>7, <1>10, <3>1
    <3>3. i \in Nat
      BY <1>2, TodoShape DEF Inv
    <3> QED
      BY <1>7, <3>1, <3>2, <3>3
  <2> QED
    BY <1>2, <2>1, <2>2
<1>13. ASSUME NEW w \in T, steps # <<>>
       PROVE  \/ \A v \in steps[Len(steps)] : Stage(v) # Stage(w)
              \/ \E v \in steps[Len(steps)] : After(pipeline, w, v)
  BY <1>1, <1>7, <1>13 DEF Inv, FreedInv
<1>14. /\ Filled(steps) /\ Apart(steps)
       /\ Ordered(pipeline, steps) /\ Early(pipeline, steps)
  BY <1>1 DEF Inv, StepsInv
<1> HIDE DEF T, Z
<1>15. Filled(Append(steps, T))
  BY <1>5, <1>6, <1>7, <1>14, FilledGrows
<1>16. Apart(Append(steps, T))
  BY <1>5, <1>11, <1>14, ApartGrows
<1>17. Ordered(pipeline, Append(steps, T))
  BY <1>5, <1>12, <1>14, OrderedGrows
<1>18. Early(pipeline, Append(steps, T))
  BY <1>5, <1>13, <1>14, EarlyGrows
<1>19. /\ Len(steps') = Len(steps) + 1 /\ steps'[Len(steps')] = T
       /\ Len(steps) \in Nat /\ steps' # <<>>
       /\ Placed(steps') = Placed(steps) \cup T
  <2>1. /\ Len(Append(steps, T)) = Len(steps) + 1
        /\ Append(steps, T)[Len(steps) + 1] = T
        /\ Len(steps) \in Nat
        /\ Placed(Append(steps, T)) = Placed(steps) \cup T
    BY <1>5, AppendParts, PlacedGrows
  <2>2. Append(steps, T) # <<>>
    BY <2>1, EmptySeq
  <2> QED
    BY <1>1, <2>1, <2>2
<1>20. TypeOK'
  <2>1. steps' \in Seq(SUBSET Works(pipeline))
    BY <1>1, <1>5, <1>6
  <2> QED
    BY <1>1, <1>3, <2>1 DEF Inv, TypeOK
<1>21. KahnInv' /\ ValidateInv' /\ KnownInv' /\ ValidateExact' /\ TodoInv' /\ StageInv'
  BY <1>1, <1>2, <1>3
     DEF Inv, KahnInv, ValidateInv, KnownInv, ValidateExact, TodoInv, StageInv, Past
<1>22. PlacedInv'
  <2>1. PastWorks' = PastWorks
    BY <1>1 DEF PastWorks, Past
  <2>2. ({i} \X (Z \ queue)) \cup T = {i} \X Z
    BY <1>4 DEF T
  <2>3. Placed(steps') = PastWorks \cup ({i} \X Z)
    BY <1>2, <1>19, <2>2 DEF Z
  <2>4. Zero(inDegree') \ queue' = Z
    BY <1>3 DEF Z
  <2> QED
    BY <1>1, <2>1, <2>3, <2>4 DEF PlacedInv
<1>23. FreedInv'
  <2> SUFFICES ASSUME NEW n \in queue'
               PROVE  \E v \in T : After(pipeline, <<i, n>>, v)
    BY <1>1, <1>19 DEF FreedInv
  <2>1. PICK u \in edges : To(u) = n /\ Dep(pipeline, u) \in queue
    BY <1>3
  <2>2. After(pipeline, <<i, n>>, <<i, Dep(pipeline, u)>>)
    BY <1>2, <2>1, EdgeIsAfter
  <2> QED
    BY <2>1, <2>2 DEF T
<1>24. StepsInv'
  BY <1>1, <1>15, <1>16, <1>17, <1>18, <1>19 DEF StepsInv
<1> QED
  BY <1>20, <1>21, <1>22, <1>23, <1>24 DEF Inv

LEMMA EndStageInv == Inv /\ EndStage => Inv'
<1> SUFFICES ASSUME Inv, EndStage
             PROVE  Inv'
  OBVIOUS
<1> DEFINE i == Head(todo)
           N == ScopeNames(pipeline, i)
           Z == Zero(inDegree)
<1>1. /\ pc = "stage" /\ pc' = "stages" /\ queue = {} /\ todo' = Tail(todo)
      /\ UNCHANGED <<pipeline, graphVars, processed, target, steps>>
  BY DEF EndStage
<1>2. /\ Counted(pipeline, edges, inDegree, {})
      /\ OffCircles(pipeline, edges, inDegree)
      /\ todo # <<>> /\ edges = ScopeEdges(pipeline, i) /\ DOMAIN inDegree = N
      /\ Placed(steps) = PastWorks \cup ({i} \X Z)
  <2>1. Z \ {} = Z
    OBVIOUS
  <2> QED
    BY <1>1, <2>1 DEF Inv, KahnInv, StageInv, PlacedInv
<1>3. Z = N
  <2>1. Z \subseteq N
    BY <1>2 DEF Zero
  <2>2. Circle(pipeline, edges, N \ Z)
    BY <1>2, KahnEnds
  <2>3. ~Cyclic(pipeline)
    BY <1>1 DEF Inv, ValidateExact
  <2>4. IsPipeline(pipeline) /\ Scope(pipeline, i) \in SUBSET Works(pipeline)
    BY PipelinesAssumption, ScopeShape DEF Inv, TypeOK
  <2>5. N \ Z = {}
    <3> SUFFICES ASSUME N \ Z # {}
                 PROVE  FALSE
      OBVIOUS
    <3>1. N \ Z \in SUBSET {NameOf(w) : w \in Scope(pipeline, i)}
      BY DEF ScopeNames
    <3>2. Circle(pipeline,
                 EdgesInto(pipeline, Scope(pipeline, i),
                           {NameOf(w) : w \in Scope(pipeline, i)}),
                 N \ Z)
      BY <1>2, <2>2 DEF ScopeEdges, ScopeNames
    <3> HIDE DEF N, Z
    <3> QED
      BY <2>3, <2>4, <3>1, <3>2, CircleGrows
  <2> QED
    BY <2>1, <2>5
<1>4. /\ todo \in Seq(DOMAIN pipeline) /\ Tail(todo) \in Seq(DOMAIN pipeline)
      /\ Len(Tail(todo)) = Len(todo) - 1 /\ Len(todo) \in Nat \ {0}
      /\ DOMAIN todo = 1..Len(todo)
      /\ DOMAIN Tail(todo) = 1..Len(Tail(todo))
      /\ \A k \in 1..Len(Tail(todo)) : Tail(todo)[k] = todo[k + 1]
  BY <1>2, HeadTailProperties, LenProperties, EmptySeq DEF Inv, TypeOK
<1>5. /\ Past \in Nat /\ Past + 1 \in DOMAIN target
      /\ DOMAIN target = 1..Len(target) /\ i = target[Past + 1]
  BY <1>2, TodoShape DEF Inv
<1>6. Past' = Past + 1 /\ Len(target) \in Nat
  BY <1>1, <1>4, LenProperties DEF Past, Inv, TypeOK
<1>7. TypeOK'
  BY <1>1, <1>4 DEF Inv, TypeOK, graphVars
<1>8. TodoInv'
  <2>1. \A k \in DOMAIN todo' : todo'[k] = target[Past + 1 + k]
    <3>1. \A k \in DOMAIN Tail(todo) :
            Tail(todo)[k] = todo[k + 1] /\ k + 1 \in DOMAIN todo
      BY <1>4
    <3>2. \A k \in DOMAIN Tail(todo) : Past + (k + 1) = Past + 1 + k
      BY <1>4, <1>5
    <3> QED
      BY <1>1, <3>1, <3>2 DEF Inv, TodoInv
  <2> QED
    BY <1>1, <1>4, <1>6, <2>1 DEF Inv, TodoInv
<1>9. PlacedInv'
  <2>1. {i} \X Z = Scope(pipeline, i)
    BY <1>3, ScopeShape
  <2>2. PastWorks' = PastWorks \cup Scope(pipeline, target[Past + 1])
    <3>1. 1..(Past + 1) = (1..Past) \cup {Past + 1}
      BY <1>5
    <3>2. PastWorks' = UNION {Scope(pipeline, target[k]) : k \in 1..(Past + 1)}
      BY <1>1, <1>6 DEF PastWorks
    <3> QED
      BY <3>1, <3>2 DEF PastWorks
  <2> QED
    BY <1>1, <1>2, <1>5, <2>1, <2>2 DEF PlacedInv
<1>10. KahnInv' /\ ValidateInv' /\ KnownInv' /\ ValidateExact' /\ StageInv' /\ FreedInv'
  BY <1>1
     DEF Inv, KahnInv, ValidateInv, KnownInv, ValidateExact, StageInv, FreedInv
<1>11. StepsInv'
  BY <1>1 DEF Inv, StepsInv
<1> QED
  BY <1>7, <1>8, <1>9, <1>10, <1>11 DEF Inv

LEMMA EndResolveInv == Inv /\ EndResolve => Inv'
<1> SUFFICES ASSUME Inv, EndResolve
             PROVE  Inv'
  OBVIOUS
<1>1. /\ pc = "stages" /\ todo = <<>>
      /\ pc' = IF steps = <<>> THEN "failed" ELSE "resolved"
      /\ UNCHANGED <<pipeline, graphVars, processed, target, todo, steps>>
  BY DEF EndResolve
<1>2. TypeOK'
  BY <1>1 DEF Inv, TypeOK, graphVars, Final
<1>3. KahnInv' /\ ValidateInv' /\ KnownInv' /\ ValidateExact' /\ TodoInv'
  BY <1>1
     DEF Inv, KahnInv, ValidateInv, KnownInv, ValidateExact, TodoInv, Past
<1>4. StageInv' /\ PlacedInv' /\ FreedInv' /\ StepsInv'
  BY <1>1
     DEF Inv, StageInv, PlacedInv, FreedInv, StepsInv, Past, PastWorks
<1> QED
  BY <1>2, <1>3, <1>4 DEF Inv

LEMMA NextInv == Inv /\ [Next]_vars => Inv'
<1> SUFFICES ASSUME Inv, [Next]_vars
             PROVE  Inv'
  OBVIOUS
<1>1. CASE \E i \in 0..Len(pipeline), n \in Name : ResolveWork(i, n)
  BY <1>1, ResolveWorkInv
<1>2. CASE \E t \in Targets(pipeline) : ResolveStages(t)
  BY <1>2, ResolveStagesInv
<1>3. CASE Terminated \/ UNCHANGED vars
  BY <1>3, StutterInv DEF Terminated
<1> QED
  BY <1>1, <1>2, <1>3, StartValidationInv, ValidateLevelInv, EndValidationInv,
     StartStageInv, StageLevelInv, EndStageInv, EndResolveInv DEF Next

-----------------------------------------------------------------------------
(* The theorems.                                                           *)

\* What the loops of validateGraph and stageSteps keep, in every execution.
THEOREM Invariance == Spec => []Inv
<1>1. Init => Inv
  BY InitInv
<1>2. Inv /\ [Next]_vars => Inv'
  BY NextInv
<1> QED
  BY <1>1, <1>2, PTL DEF Spec

\* The variables have their types; in particular no in-degree goes below zero,
\* whatever an `after` list repeats.
THEOREM TypeCorrect == Spec => []TypeOK
<1>1. Inv => TypeOK
  BY DEF Inv
<1> QED
  BY <1>1, Invariance, PTL

\* validateGraph rejects a pipeline exactly when a reference is unknown or the
\* works depend on each other in a circle.
THEOREM BuildIsExact == Spec => []ValidateExact
<1>1. Inv => ValidateExact
  BY DEF Inv
<1> QED
  BY <1>1, Invariance, PTL

\* stageSteps leaves no work of the scope out and repeats none: in a graph that
\* validateGraph accepted, it cannot get stuck.
THEOREM ResolvesAll == Spec => []StepsArePlan
<1>1. Inv => StepsArePlan
  <2> SUFFICES ASSUME Inv, pc \in {"single", "resolved"}
               PROVE  /\ steps \in Seq(SUBSET Works(pipeline)) /\ steps # <<>>
                      /\ Filled(steps) /\ Apart(steps)
                      /\ pc = "resolved" => Placed(steps) = InScope
    BY LenProperties DEF StepsArePlan, IsPlan, Filled, Apart, Placed
  <2>1. ASSUME pc = "resolved"
        PROVE  Placed(steps) = InScope
    <3>1. todo = <<>> /\ Placed(steps) = PastWorks
      BY <2>1 DEF Inv, TodoInv, PlacedInv
    <3>2. Past = Len(target) /\ DOMAIN target = 1..Len(target)
      BY <3>1, LenProperties, EmptySeq DEF Past, Inv, TypeOK
    <3> QED
      BY <3>1, <3>2 DEF PastWorks, InScope
  <2> QED
    BY <2>1 DEF Inv, TypeOK, StepsInv
<1> QED
  BY <1>1, Invariance, PTL

\* The steps of a run respect `after` within a stage and the order of stages.
THEOREM RunsInOrder == Spec => []StepsOrdered
<1>1. Inv => StepsOrdered
  BY DEF Inv, StepsInv, Ordered, StepsOrdered
<1> QED
  BY <1>1, Invariance, PTL

\* No work waits for a step it does not need.
THEOREM RunsEarly == Spec => []StepsEarly
<1>1. Inv => StepsEarly
  BY DEF Inv, StepsInv, Early, StepsEarly
<1> QED
  BY <1>1, Invariance, PTL
=============================================================================
