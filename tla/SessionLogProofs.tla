-------------------------- MODULE SessionLogProofs --------------------------
(***************************************************************************)
(* Proofs about what a command that follows a session reads (SessionLog):  *)
(* a follower that ends has seen the whole log, for any number of clients  *)
(* and lines; and, at the end, about what it shows (ProgressView): the     *)
(* step lines never go back, and the bars have one place each.             *)
(***************************************************************************)
EXTENDS SessionLog, SequenceTheorems, FiniteSetTheorems, WellFoundedInduction, TLAPS

\* How the session's place, its verdict and its files belong together.
PlaceInv ==
  /\ status = "none" <=> pc \in {"none", "asked"}
  /\ pc \in {"drain", "close", "mark", "gone"} => status = "over"
  /\ status # "none" => hasLog
  /\ doneFile => pc = "gone"

\* Where a follower is tells what it knows of the log.
FollowInv ==
  \A c \in Client :
    /\ client[c] \in {"answered", "open"} => status # "none"
    /\ client[c] # "nolog"
    /\ shown[c] <= written
    /\ client[c] = "last" => doneFile
    /\ client[c] = "ended" => doneFile /\ shown[c] = written

Inv == TypeOK /\ PlaceInv /\ FollowInv

-----------------------------------------------------------------------------
(* Type.                                                                   *)

LEMMA InitType == Init => TypeOK
<1> SUFFICES ASSUME Init PROVE TypeOK
  OBVIOUS
<1>1. 0 \in 0..MaxLines
  BY BoundsAssumption
<1>2. stream \in [Stream -> {"none", "open", "ended"}]
  BY DEF Init
<1>3. shown \in [Client -> 0..MaxLines]
  BY <1>1 DEF Init
<1>. QED BY <1>1, <1>2, <1>3 DEF Init, TypeOK

LEMMA NextType == TypeOK /\ PlaceInv /\ FollowInv /\ [Next]_vars => TypeOK'
<1> SUFFICES ASSUME TypeOK, FollowInv, [Next]_vars PROVE TypeOK'
  OBVIOUS
<1> USE BoundsAssumption DEF TypeOK
<1>1. CASE BrokerReady \/ ExitDaemon
  BY <1>1 DEF BrokerReady, ExitDaemon, sessionVars, clientVars
<1>2. CASE Daemon
  BY <1>2 DEF Daemon, StartSession, OpenLog, Subscribe, EndWork, Drain,
     CloseLog, WriteMarker, At, Verdict, clientVars, Stream
<1>3. ASSUME NEW k \in Stream, Receive(k) PROVE TypeOK'
  BY <1>3 DEF Receive, clientVars
<1>4. ASSUME NEW k \in Stream, StreamEnds(k) PROVE TypeOK'
  BY <1>4 DEF StreamEnds, clientVars
<1>5. ASSUME NEW c \in Client, Ask(c) PROVE TypeOK'
  BY <1>5 DEF Ask
<1>6. ASSUME NEW c \in Client,
             Answered(c) \/ GiveUp(c) \/ Present(c) \/ Progress(c) \/ KillTail(c)
                \/ StatMarker(c) \/ ReadEOF(c)
      PROVE TypeOK'
  BY <1>6 DEF Answered, GiveUp, Present, Progress, KillTail, StatMarker,
     ReadEOF, sessionVars, Following
<1>7. ASSUME NEW c \in Client, OpenTailAt(c) PROVE TypeOK'
  <2>1. (IF written > TailLines THEN written - TailLines ELSE 0) \in 0..MaxLines
    OBVIOUS
  <2>. QED BY <1>7, <2>1 DEF OpenTailAt, sessionVars, Following
<1>8. ASSUME NEW c \in Client, ReadLine(c) PROVE TypeOK'
  BY <1>8 DEF ReadLine, sessionVars
<1>9. CASE UNCHANGED vars
  BY <1>9 DEF vars, sessionVars, clientVars
<1>. QED
  BY <1>1, <1>2, <1>3, <1>4, <1>5, <1>6, <1>7, <1>8, <1>9 DEF Next, Follower

-----------------------------------------------------------------------------
(* The session.                                                            *)

LEMMA NextPlace == TypeOK /\ PlaceInv /\ [Next]_vars => PlaceInv'
<1> SUFFICES ASSUME TypeOK, PlaceInv, [Next]_vars PROVE PlaceInv'
  OBVIOUS
<1> USE DEF PlaceInv, TypeOK
<1>1. CASE BrokerReady \/ ExitDaemon
  BY <1>1 DEF BrokerReady, ExitDaemon, sessionVars
<1>2. CASE Daemon
  BY <1>2 DEF Daemon, StartSession, OpenLog, Subscribe, EndWork, Drain,
     CloseLog, WriteMarker, At, Verdict
<1>3. ASSUME NEW k \in Stream, Receive(k) \/ StreamEnds(k) PROVE PlaceInv'
  BY <1>3 DEF Receive, StreamEnds
<1>4. ASSUME NEW c \in Client, Ask(c) PROVE PlaceInv'
  BY <1>4 DEF Ask
<1>5. ASSUME NEW c \in Client,
             \/ Answered(c) \/ GiveUp(c) \/ Present(c) \/ Progress(c)
             \/ Follower(c)
      PROVE PlaceInv'
  BY <1>5 DEF Answered, GiveUp, Present, Progress, Follower, OpenTailAt,
     ReadLine, ReadEOF, StatMarker, KillTail, sessionVars
<1>6. CASE UNCHANGED vars
  BY <1>6 DEF vars, sessionVars
<1>. QED
  BY <1>1, <1>2, <1>3, <1>4, <1>5, <1>6 DEF Next

-----------------------------------------------------------------------------
(* The followers.                                                          *)

\* What the session does leaves the followers right: nothing is written once
\* the marker is there.
LEMMA SessionKeepsFollowers ==
  ASSUME TypeOK, PlaceInv, FollowInv,
         UNCHANGED clientVars,
         BrokerReady \/ ExitDaemon \/ Daemon
           \/ \E k \in Stream : Receive(k) \/ StreamEnds(k)
  PROVE  FollowInv'
<1> USE DEF FollowInv, clientVars
<1>1. written' >= written /\ (doneFile => written' = written)
  BY DEF TypeOK, PlaceInv, BrokerReady, ExitDaemon, Daemon, StartSession,
     OpenLog, Subscribe, EndWork, Drain, CloseLog, WriteMarker, At, Verdict,
     Receive, StreamEnds, LogOpen, sessionVars
<1>2. (doneFile => doneFile') /\ (status # "none" => status' # "none")
  BY DEF BrokerReady, ExitDaemon, Daemon, StartSession, OpenLog, Subscribe,
     EndWork, Drain, CloseLog, WriteMarker, Verdict, Receive, StreamEnds,
     sessionVars
<1>3. written \in Nat /\ written' \in Nat
  BY BoundsAssumption DEF TypeOK, BrokerReady, ExitDaemon, Daemon,
     StartSession, OpenLog, Subscribe, EndWork, Drain, CloseLog, WriteMarker,
     Receive, StreamEnds, sessionVars
<1>4. \A c \in Client : shown[c] \in Nat
  BY BoundsAssumption DEF TypeOK
<1>. QED BY <1>1, <1>2, <1>3, <1>4

LEMMA NextFollow == TypeOK /\ PlaceInv /\ FollowInv /\ [Next]_vars => FollowInv'
<1> SUFFICES ASSUME TypeOK, PlaceInv, FollowInv, [Next]_vars PROVE FollowInv'
  OBVIOUS
<1>1. CASE BrokerReady \/ ExitDaemon \/ Daemon
             \/ \E k \in Stream : Receive(k) \/ StreamEnds(k)
  <2>1. UNCHANGED clientVars
    BY <1>1 DEF BrokerReady, ExitDaemon, Daemon, StartSession, OpenLog,
       Subscribe, EndWork, Drain, CloseLog, WriteMarker, Receive, StreamEnds
  <2>. QED BY <1>1, <2>1, SessionKeepsFollowers
<1> USE BoundsAssumption DEF TypeOK, PlaceInv, FollowInv
<1>2. ASSUME NEW c \in Client, Ask(c) PROVE FollowInv'
  BY <1>2 DEF Ask
<1>3. ASSUME NEW c \in Client,
             \/ Answered(c) \/ GiveUp(c) \/ Present(c) \/ Progress(c)
             \/ KillTail(c) \/ StatMarker(c)
      PROVE FollowInv'
  BY <1>3 DEF Answered, GiveUp, Present, Progress, KillTail, StatMarker,
     sessionVars
<1>4. ASSUME NEW c \in Client, OpenTailAt(c) PROVE FollowInv'
  BY <1>4 DEF OpenTailAt, sessionVars
<1>5. ASSUME NEW c \in Client, ReadLine(c) PROVE FollowInv'
  BY <1>5 DEF ReadLine, sessionVars
<1>6. ASSUME NEW c \in Client, ReadEOF(c) PROVE FollowInv'
  BY <1>6 DEF ReadEOF, sessionVars
<1>7. CASE UNCHANGED vars
  BY <1>7 DEF vars, sessionVars, clientVars
<1>. QED
  BY <1>1, <1>2, <1>3, <1>4, <1>5, <1>6, <1>7 DEF Next, Follower

-----------------------------------------------------------------------------
(* The theorems.                                                           *)

\* The inductive invariant.
THEOREM Invariance == Spec => []Inv
<1>1. Init => Inv
  BY InitType, BoundsAssumption DEF Init, Inv, PlaceInv, FollowInv
<1>2. Inv /\ [Next]_vars => Inv'
  BY NextType, NextPlace, NextFollow DEF Inv
<1>. QED BY <1>1, <1>2, PTL DEF Spec

\* Every variable keeps its type, for any clients and bounds.
THEOREM TypeCorrect == Spec => []TypeOK
<1>1. Inv => TypeOK
  BY DEF Inv
<1>. QED BY <1>1, Invariance, PTL

\* A follower that ends has read to the end of a log with a marker
\* (tailAPILogUntilDone, progress_render.go 71-95).
THEOREM EndedSawAll == Spec => []EndedHasAll
<1>1. Inv => EndedHasAll
  BY DEF Inv, PlaceInv, FollowInv, EndedHasAll
<1>. QED BY <1>1, Invariance, PTL

\* Whoever was told of a session finds its log (startSession, daemon.go 905).
THEOREM LogFound == Spec => []LogIsFound
<1>1. Inv => LogIsFound
  BY DEF Inv, FollowInv, LogIsFound
<1>. QED BY <1>1, Invariance, PTL

\* Nothing is written to the log once the marker is there (the order of the
\* deferred calls of runSessionWorker, daemon.go 944-1050).
THEOREM MarkerIsLast == Spec => MarkedLogIsFinal
<1>1. Inv /\ [Next]_vars => [doneFile => written' = written]_vars
  <2> SUFFICES ASSUME Inv, [Next]_vars, doneFile PROVE written' = written
    OBVIOUS
  <2>1. pc = "gone"
    BY DEF Inv, PlaceInv
  <2>2. CASE UNCHANGED vars
    BY <2>2 DEF vars, sessionVars
  <2>3. CASE Next
    BY <2>1, <2>3 DEF Next, BrokerReady, ExitDaemon, Daemon, StartSession,
       OpenLog, Subscribe, EndWork, Drain, CloseLog, WriteMarker, At, Receive,
       StreamEnds, LogOpen, Ask, Answered, GiveUp, Present, Progress, Follower,
       OpenTailAt, ReadLine, ReadEOF, StatMarker, KillTail, sessionVars
  <2>. QED BY <2>2, <2>3
<1>. QED BY <1>1, Invariance, PTL DEF Spec, MarkedLogIsFinal

-----------------------------------------------------------------------------
(* The screen of such a command.                                           *)

CONSTANTS Work, StepOf, MaxValue, MaxLost

VARIABLES step, works, given, bars, session, view, pos, order, bar, replies,
          lost, screen, missed

View == INSTANCE ProgressView WITH status <- works, log <- bars

WorkStatus == {"queued", "running"} \cup View!Ended

\* A snapshot is of the works of its step, and none of them has gone back since.
Taken(s) ==
  /\ s.step \in Nat /\ s.step <= step
  /\ s.step > 0 =>
       /\ DOMAIN s.works = {w \in Work : StepOf[w] = s.step}
       /\ \A w \in DOMAIN s.works :
            s.works[w] \in WorkStatus /\ View!Rank(s.works[w]) <= View!Rank(works[w])

\* What is shown is no newer than what is on its way.
NotBefore(s, t) ==
  /\ s.step <= t.step
  /\ s.step = t.step /\ s.step > 0 =>
       \A w \in DOMAIN s.works : View!Rank(s.works[w]) <= View!Rank(t.works[w])

\* There is one poll at a time, so that no snapshot overtakes another.
PollInv ==
  /\ step \in Nat /\ works \in [Work -> WorkStatus]
  /\ Taken(screen)
  /\ \A s \in replies : Taken(s) /\ NotBefore(screen, s) /\ replies = {s}

LEMMA Ranks ==
  /\ \A s \in WorkStatus : View!Rank(s) \in 0..2
  /\ View!Rank("queued") = 0 /\ View!Rank("running") = 1
  /\ \A s \in View!Ended : View!Rank(s) = 2
BY DEF View!Rank, WorkStatus, View!Ended

\* The daemon never takes a step or a work back.
LEMMA DaemonAdvances ==
  ASSUME PollInv, View!Daemon
  PROVE  /\ step' \in Nat /\ works' \in [Work -> WorkStatus] /\ step <= step'
         /\ \A w \in Work : View!Rank(works[w]) <= View!Rank(works'[w])
         /\ UNCHANGED <<screen, replies>>
<1> USE DEF PollInv
<1>1. UNCHANGED <<screen, replies>>
  BY DEF View!Daemon, View!pollVars
<1>2. \A w \in Work : View!Rank(works[w]) \in 0..2
  BY Ranks
<1>3. CASE View!BeginStep
  BY <1>1, <1>2, <1>3 DEF View!BeginStep
<1>4. ASSUME NEW v \in Work, View!MarkWorkRunning(v) \/ View!MarkWorkDone(v)
      PROVE  /\ step' = step /\ works' \in [Work -> WorkStatus]
             /\ \A w \in Work : View!Rank(works[w]) <= View!Rank(works'[w])
  <2>1. CASE View!MarkWorkRunning(v)
    <3>1. works[v] = "queued" /\ works' = [works EXCEPT ![v] = "running"] /\ step' = step
      BY <2>1 DEF View!MarkWorkRunning
    <3> QED
      BY <1>2, <3>1, Ranks DEF WorkStatus
  <2>2. CASE View!MarkWorkDone(v)
    <3>1. PICK s \in View!Ended : works' = [works EXCEPT ![v] = s]
      BY <2>2 DEF View!MarkWorkDone
    <3>2. works[v] = "running" /\ step' = step
      BY <2>2 DEF View!MarkWorkDone
    <3> QED
      BY <1>2, <3>1, <3>2, Ranks DEF WorkStatus
  <2> QED
    BY <1>4, <2>1, <2>2
<1>5. ASSUME NEW v \in Work, View!SetBar(v) \/ View!LogBar(v)
      PROVE  UNCHANGED <<step, works>>
  BY <1>5 DEF View!SetBar, View!LogBar
<1>6. CASE View!WriteMarker
  BY <1>1, <1>2, <1>6 DEF View!WriteMarker
<1> QED
  BY <1>1, <1>2, <1>3, <1>4, <1>5, <1>6 DEF View!Daemon

\* A step that leaves the daemon alone, and is not a new snapshot.
LEMMA ShownAdvances ==
  ASSUME PollInv, UNCHANGED <<step, works>>,
         \/ UNCHANGED <<screen, replies>>
         \/ UNCHANGED screen /\ replies' = {}
         \/ screen' \in replies /\ replies' = {}
  PROVE  PollInv' /\ NotBefore(screen, screen')
<1>1. NotBefore(screen, screen)
  <2>1. screen.step > 0 =>
          \A w \in DOMAIN screen.works : View!Rank(screen.works[w]) \in 0..2
    BY Ranks DEF PollInv, Taken
  <2> QED
    BY <2>1 DEF NotBefore, PollInv, Taken
<1> QED
  BY <1>1 DEF PollInv, Taken, NotBefore

LEMMA InitPoll == View!Init => PollInv /\ NotBefore(screen, screen)
<1> SUFFICES ASSUME View!Init
             PROVE  PollInv /\ NotBefore(screen, screen)
  OBVIOUS
<1>1. step = 0 /\ screen.step = 0 /\ replies = {}
  BY DEF View!Init, View!Blank
<1>2. works \in [Work -> WorkStatus]
  BY DEF View!Init, WorkStatus
<1> QED
  BY <1>1, <1>2 DEF PollInv, Taken, NotBefore

\* The daemon's answer to a poll is as new as anything on the screen.
LEMMA TickPoll ==
  ASSUME PollInv, View!Tick
  PROVE  PollInv' /\ NotBefore(screen, screen')
<1> DEFINE s == View!Snapshot
<1>1. replies' = {s} /\ UNCHANGED <<step, works, screen>>
  BY DEF View!Tick, View!daemonVars
<1>2. /\ s.step = step /\ DOMAIN s.works = {w \in Work : StepOf[w] = step}
      /\ \A w \in DOMAIN s.works : s.works[w] = works[w]
  BY DEF View!Snapshot
<1> HIDE DEF s
<1>3. \A w \in Work : View!Rank(works[w]) \in 0..2 /\ works[w] \in WorkStatus
  BY Ranks DEF PollInv
<1>4. Taken(s)
  BY <1>2, <1>3 DEF Taken, PollInv
<1>5. NotBefore(screen, s)
  BY <1>2 DEF NotBefore, PollInv, Taken
<1>6. NotBefore(screen, screen)
  <2>1. screen.step > 0 =>
          \A w \in DOMAIN screen.works : View!Rank(screen.works[w]) \in 0..2
    BY Ranks DEF PollInv, Taken
  <2> QED
    BY <2>1 DEF NotBefore, PollInv, Taken
<1> QED
  BY <1>1, <1>4, <1>5, <1>6 DEF PollInv, Taken, NotBefore

LEMMA NextPoll ==
  PollInv /\ [View!Next]_(View!vars) => PollInv' /\ NotBefore(screen, screen')
<1> SUFFICES ASSUME PollInv, [View!Next]_(View!vars)
             PROVE  PollInv' /\ NotBefore(screen, screen')
  OBVIOUS
<1>1. CASE View!Daemon
  <2>1. /\ step' \in Nat /\ works' \in [Work -> WorkStatus] /\ step <= step'
        /\ \A w \in Work : View!Rank(works[w]) <= View!Rank(works'[w])
        /\ UNCHANGED <<screen, replies>>
    BY <1>1, DaemonAdvances
  <2>2. ASSUME NEW s, Taken(s)
        PROVE  s.step \in Nat /\ s.step <= step'
               /\ (s.step > 0 =>
                     /\ DOMAIN s.works = {w \in Work : StepOf[w] = s.step}
                     /\ \A w \in DOMAIN s.works :
                          /\ s.works[w] \in WorkStatus
                          /\ View!Rank(s.works[w]) <= View!Rank(works'[w])
                          /\ View!Rank(s.works[w]) \in 0..2)
    <3>1. step \in Nat /\ s.step \in Nat /\ s.step <= step'
      BY <2>1, <2>2 DEF PollInv, Taken
    <3>2. \A w \in Work : View!Rank(works[w]) \in 0..2 /\ View!Rank(works'[w]) \in 0..2
      BY <2>1, Ranks DEF PollInv
    <3>3. \A x \in WorkStatus : View!Rank(x) \in 0..2
      BY Ranks
    <3> QED
      BY <2>1, <2>2, <3>1, <3>2, <3>3 DEF Taken
  <2>3. Taken(screen)' /\ \A s \in replies : Taken(s)'
    BY <2>1, <2>2 DEF Taken, PollInv
  <2>4. NotBefore(screen, screen)
    BY <2>1, <2>2 DEF NotBefore, PollInv
  <2> QED
    BY <2>1, <2>3, <2>4 DEF PollInv, NotBefore
<1>2. CASE View!Tick
  BY <1>2, TickPoll
<1>3. CASE View!OpenTailAt \/ View!HandleBar \/ View!ReadEnd
  <2>1. UNCHANGED <<step, works, screen, replies>>
    BY <1>3 DEF View!OpenTailAt, View!HandleBar, View!ReadEnd, View!daemonVars,
                View!pollVars
  <2> QED
    BY <2>1, ShownAdvances
<1>4. CASE View!LoseReply
  <2>1. UNCHANGED <<step, works, screen>> /\ replies' = {}
    BY <1>4 DEF View!LoseReply, View!daemonVars
  <2> QED
    BY <2>1, ShownAdvances
<1>5. CASE View!SetStepSnapshot
  <2>1. PICK s \in replies : View!Shows(s)
    BY <1>5 DEF View!SetStepSnapshot
  <2>2. /\ UNCHANGED <<step, works>> /\ screen' = s
        /\ replies' = replies \ {s}
    BY <2>1 DEF View!Shows, View!daemonVars
  <2>3. replies' = {}
    BY <2>2 DEF PollInv
  <2> QED
    BY <2>2, <2>3, ShownAdvances
<1>6. CASE UNCHANGED View!vars
  <2>1. UNCHANGED <<step, works, screen, replies>>
    BY <1>6 DEF View!vars, View!daemonVars, View!pollVars
  <2> QED
    BY <2>1, ShownAdvances
<1> QED
  BY <1>1, <1>2, <1>3, <1>4, <1>5, <1>6 DEF View!Next

\* The step lines of a command never go back, to an earlier step or an earlier
\* status of a work, however late its polls are answered, for any works, steps
\* and numbers of lost polls (pollStepStatus waits for one answer at a time).
THEOREM LinesAdvance == View!Spec => View!StepLinesAdvance
<1>1. PollInv /\ PollInv' /\ NotBefore(screen, screen') =>
        /\ screen'.step >= screen.step
        /\ screen'.step = screen.step /\ screen.step > 0 =>
             \A w \in DOMAIN screen.works :
               View!Rank(screen'.works[w]) >= View!Rank(screen.works[w])
  BY DEF PollInv, Taken, NotBefore
<1> QED
  BY <1>1, InitPoll, NextPoll, PTL DEF View!Spec, View!StepLinesAdvance

-----------------------------------------------------------------------------
(* The order of the bars on the screen.                                    *)

LEMMA SameSize ==
  /\ \A S : View!Cardinality(S) = Cardinality(S)
  /\ \A S : View!IsFiniteSet(S) <=> IsFiniteSet(S)
BY Zenon DEF Cardinality, View!Cardinality, IsFiniteSet, View!IsFiniteSet

\* What a filter of a sequence keeps.
LEMMA OnlyKeeps ==
  ASSUME NEW T, NEW seq \in Seq(T), NEW S
  PROVE  /\ View!Only(seq, S) \in Seq(T)
         /\ View!ToSet(View!Only(seq, S)) = View!ToSet(seq) \cap S
         /\ View!IsInjective(seq) => View!IsInjective(View!Only(seq, S))
<1> DEFINE at == {i \in DOMAIN seq : seq[i] \in S}
           UpTo(i) == {j \in at : j <= i}
           Size(A) == View!Cardinality(A)
           n == Size(at)
           place == [i \in at |-> Size(UpTo(i))]
           nth(m) == CHOOSE i \in at : Size(UpTo(i)) = m
           only == [m \in 1..n |-> seq[nth(m)]]
<1>1. DOMAIN seq = 1..Len(seq) /\ Len(seq) \in Nat
  BY LenProperties
<1>2. at \subseteq Nat /\ IsFiniteSet(at) /\ n \in Nat
  <2>1. at \in SUBSET (1..Len(seq)) /\ at \subseteq Nat
    BY <1>1
  <2>2. IsFiniteSet(1..Len(seq))
    BY <1>1, FS_Interval
  <2>3. IsFiniteSet(at)
    BY <2>1, <2>2, FS_Subset
  <2> QED
    BY <2>1, <2>3, SameSize, FS_CardinalityType
<1>3. View!Only(seq, S) = only
  BY Zenon DEF View!Only
<1>4. /\ \A i \in at : seq[i] \in S /\ i \in DOMAIN seq
      /\ \A i \in DOMAIN seq : seq[i] \in S => i \in at
  OBVIOUS
<1>5. ASSUME NEW i \in at
      PROVE  IsFiniteSet(UpTo(i)) /\ i \in UpTo(i) /\ Size(UpTo(i)) \in 1..n
  <2>1. UpTo(i) \in SUBSET at /\ i \in UpTo(i)
    BY <1>2
  <2> HIDE DEF at, UpTo
  <2>2. IsFiniteSet(UpTo(i)) /\ Cardinality(UpTo(i)) <= n
    BY <1>2, <2>1, SameSize, FS_Subset DEF n
  <2>3. Cardinality(UpTo(i)) \in Nat /\ Cardinality(UpTo(i)) # 0
    BY <2>1, <2>2, FS_CardinalityType, FS_EmptySet
  <2> QED
    BY <1>2, <2>1, <2>2, <2>3, SameSize
<1>6. ASSUME NEW i \in at, NEW k \in at, i < k
      PROVE  Size(UpTo(i)) # Size(UpTo(k))
  <2>1. UpTo(i) \in SUBSET UpTo(k) /\ k \in UpTo(k) /\ k \notin UpTo(i)
    BY <1>2, <1>6
  <2>2. IsFiniteSet(UpTo(k))
    BY <1>5
  <2> HIDE DEF at, UpTo
  <2> QED
    BY <2>1, <2>2, SameSize, FS_Subset
<1> HIDE DEF at, UpTo, n, Size
<1>7. place \in Injection(at, 1..n)
  <2>1. place \in [at -> 1..n]
    BY <1>5
  <2>2. ASSUME NEW i \in at, NEW k \in at, place[i] = place[k]
        PROVE  i = k
    <3>1. ~(i < k) /\ ~(k < i)
      BY <1>6, <2>2
    <3> QED
      BY <1>2, <3>1
  <2> HIDE DEF place
  <2> QED
    BY <2>1, <2>2 DEF Injection, IsInjective
<1>8. \A m \in 1..n : \E i \in at : place[i] = m
  <2>1. IsFiniteSet(1..n) /\ Cardinality(1..n) = n
    BY <1>2, FS_Interval
  <2>2. Cardinality(at) = n
    BY SameSize DEF n, Size
  <2>3. place \in Surjection(at, 1..n)
    BY <1>7, <2>1, <2>2, FS_Injection
  <2> QED
    BY <2>3 DEF Surjection
<1>9. \A m \in 1..n : nth(m) \in at /\ place[nth(m)] = m
  BY <1>8
<1>10. \A i \in at : place[i] \in 1..n /\ nth(place[i]) = i
  <2>1. ASSUME NEW i \in at
        PROVE  place[i] \in 1..n /\ nth(place[i]) = i
    <3>1. place[i] \in 1..n
      BY <1>7 DEF Injection
    <3>2. nth(place[i]) \in at /\ place[nth(place[i])] = place[i]
      BY <1>9, <3>1
    <3> HIDE DEF place, nth
    <3> QED
      BY <1>7, <3>1, <3>2 DEF Injection, IsInjective
  <2> QED
    BY <2>1
<1> HIDE DEF place, nth
<1>11. only \in Seq(T)
  <2>1. only \in [1..n -> T]
    BY <1>1, <1>4, <1>9, ElementOfSeq
  <2> QED
    BY <1>2, <2>1, SeqDef
<1>12. \A x : x \in View!ToSet(only) <=> x \in View!ToSet(seq) /\ x \in S
  <2>1. \A x : x \in View!ToSet(only) <=> \E m \in 1..n : x = seq[nth(m)]
    BY Zenon DEF View!ToSet
  <2>2. \A x : x \in View!ToSet(seq) <=> \E i \in DOMAIN seq : x = seq[i]
    BY Zenon DEF View!ToSet
  <2> QED
    BY <1>4, <1>9, <1>10, <2>1, <2>2
<1>13. ASSUME View!IsInjective(seq)
       PROVE  View!IsInjective(only)
  <2>1. \A i, j \in DOMAIN seq : seq[i] = seq[j] => i = j
    BY <1>13 DEF View!IsInjective
  <2>2. \A l, m \in 1..n : seq[nth(l)] = seq[nth(m)] => l = m
    BY <1>4, <1>9, <2>1
  <2> QED
    BY <2>2 DEF View!IsInjective
<1> HIDE DEF only
<1> QED
  BY <1>3, <1>11, <1>12, <1>13

\* The values of a function on 1..k, for some k, have a largest one.
LEMMA LargestOf ==
  ASSUME NEW n \in Nat, NEW f \in [1..n -> Nat]
  PROVE  \A k \in 1..n : \E m \in 1..k : \A i \in 1..k : f[i] <= f[m]
<1> DEFINE Good(k) == \E m \in 1..k : \A i \in 1..k : f[i] <= f[m]
           R == OpToRel(<, Nat)
           T == {k \in 1..n : ~Good(k)}
<1> SUFFICES ASSUME T # {} PROVE FALSE
  OBVIOUS
<1>1. T \subseteq Nat /\ IsWellFoundedOn(R, Nat)
  <2>1. T \subseteq Nat
    OBVIOUS
  <2>2. IsWellFoundedOn(R, Nat)
    BY NatLessThanWellFounded
  <2> QED
    BY <2>1, <2>2
<1> HIDE DEF R, T
<1>2. PICK k \in T : \A j \in T : <<j, k>> \notin R
  BY <1>1, WFMin
<1>3. k \in 1..n /\ ~Good(k) /\ \A j \in 1..n : j < k => Good(j)
  BY <1>1, <1>2 DEF R, T, OpToRel
<1>4. k # 1
  <2>1. ASSUME k = 1 PROVE Good(k)
    <3>1. 1 \in 1..k /\ f[1] \in Nat /\ \A i \in 1..k : i = 1
      BY <1>3, <2>1
    <3>2. \A i \in 1..k : f[i] <= f[1]
      BY <3>1
    <3> QED
      BY <3>1, <3>2
  <2> QED
    BY <1>3, <2>1
<1>5. k - 1 \in 1..n /\ k - 1 < k
  BY <1>3, <1>4
<1>6. PICK m \in 1..(k - 1) : \A i \in 1..(k - 1) : f[i] <= f[m]
  BY <1>3, <1>5
<1>7. \A i \in 1..k : i \in 1..(k - 1) \/ i = k
  BY <1>3
<1>8. m \in 1..k /\ k \in 1..k /\ \A i \in 1..k : f[i] \in Nat
  BY <1>3, <1>5
<1>9. CASE f[k] <= f[m]
  <2>1. \A i \in 1..k : f[i] <= f[m]
    BY <1>6, <1>7, <1>9
  <2> QED
    BY <1>3, <1>8, <2>1
<1>10. CASE ~(f[k] <= f[m])
  <2>1. m \in 1..k /\ f[m] \in Nat /\ f[k] \in Nat
    BY <1>8
  <2>2. f[m] <= f[k]
    BY <1>10, <2>1
  <2>3. ASSUME NEW i \in 1..(k - 1)
        PROVE  f[i] <= f[k]
    <3>1. i \in 1..k /\ f[i] <= f[m]
      BY <1>3, <1>6
    <3> HIDE DEF Good
    <3> QED
      BY <1>8, <2>1, <2>2, <3>1
  <2>4. \A i \in 1..k : f[i] <= f[k]
    BY <1>7, <2>1, <2>3
  <2> QED
    BY <1>3, <1>8, <2>4
<1> QED
  BY <1>9, <1>10

LEMMA MaxIsLargest ==
  ASSUME NEW S \in SUBSET Nat, IsFiniteSet(S), S # {}
  PROVE  View!Max(S) \in S /\ \A y \in S : y <= View!Max(S)
<1> DEFINE n == Cardinality(S)
<1>1. n \in Nat /\ n # 0
  BY FS_CardinalityType, FS_EmptySet
<1>2. PICK f \in Bijection(1..n, S) : TRUE
  BY FS_CardinalityType DEF ExistsBijection
<1>3. f \in [1..n -> S] /\ \A y \in S : \E i \in 1..n : f[i] = y
  BY <1>2 DEF Bijection, Injection, Surjection
<1> HIDE DEF n
<1>4. PICK m \in 1..n : \A i \in 1..n : f[i] <= f[m]
  <2>1. f \in [1..n -> Nat]
    BY <1>3
  <2>2. n \in 1..n
    BY <1>1
  <2> QED
    BY <1>1, <2>1, <2>2, LargestOf
<1>5. f[m] \in S /\ \A y \in S : f[m] >= y
  BY <1>3, <1>4
<1>6. \E x \in S : \A y \in S : x >= y
  BY <1>5
<1>7. View!Max(S) \in S /\ \A y \in S : View!Max(S) >= y
  BY <1>6, Zenon DEF View!Max
<1> QED
  BY <1>7

LEMMA StepsNumber ==
  ASSUME View!Bounds
  PROVE  View!Steps \in Nat
<1> DEFINE S == {StepOf[w] : w \in Work}
           f == [w \in Work |-> StepOf[w]]
<1>1. IsFiniteSet(Work) /\ StepOf \in [Work -> Nat \ {0}]
  BY SameSize DEF View!Bounds
<1>2. f \in Surjection(Work, S)
  BY DEF Surjection
<1>3. IsFiniteSet(S) /\ IsFiniteSet({0})
  BY <1>1, <1>2, FS_Surjection, FS_Singleton
<1>4. IsFiniteSet(S \cup {0}) /\ S \cup {0} \in SUBSET Nat
  <2>1. \A A, B : IsFiniteSet(A) /\ IsFiniteSet(B) => IsFiniteSet(A \cup B)
    BY FS_Union
  <2>2. \A w \in Work : StepOf[w] \in Nat
    BY <1>1
  <2> QED
    BY <1>3, <2>1, <2>2
<1> HIDE DEF S
<1>5. View!Max(S \cup {0}) \in Nat
  BY <1>4, MaxIsLargest
<1> QED
  BY <1>5 DEF View!Steps, S

LEMMA LoggedNumber ==
  ASSUME View!TypeOK, MaxValue \in Nat, NEW w \in Work
  PROVE  View!Logged(w) \in Nat
<1> DEFINE S == {0} \cup {bars[i][2] : i \in {j \in DOMAIN bars : bars[j][1] = w}}
<1>1. bars \in Seq(Work \X (1..MaxValue))
  BY DEF View!TypeOK
<1>2. \A i \in DOMAIN bars : bars[i][2] \in 1..MaxValue
  BY <1>1, LenProperties, ElementOfSeq
<1>3. S \in SUBSET (0..MaxValue) /\ 0 \in S
  BY <1>2
<1>4. IsFiniteSet(S) /\ S \in SUBSET Nat
  <2>1. IsFiniteSet(0..MaxValue)
    BY FS_Interval
  <2> HIDE DEF S
  <2>2. IsFiniteSet(S)
    BY <1>3, <2>1, FS_Subset
  <2>3. S \in SUBSET Nat
    BY <1>3
  <2> QED
    BY <2>2, <2>3
<1> HIDE DEF S
<1>5. View!Max(S) \in Nat
  BY <1>3, <1>4, MaxIsLargest
<1> QED
  BY <1>5 DEF View!Logged, S

LEMMA InitOrder == View!Bounds /\ View!Init => View!TypeOK
<1> SUFFICES ASSUME View!Bounds, View!Init
             PROVE  View!TypeOK
  OBVIOUS
<1>1. /\ step = 0 /\ works = [w \in Work |-> "queued"] /\ given = [w \in Work |-> 0]
      /\ bars = <<>> /\ session = "run" /\ view = "closed" /\ pos = 0
      /\ order = <<>> /\ bar = [w \in Work |-> 0] /\ lost = 0 /\ missed = {}
  BY DEF View!Init
<1>2. View!Steps \in Nat /\ MaxValue \in Nat /\ MaxLost \in Nat
  BY StepsNumber DEF View!Bounds
<1>3. View!ToSet(order) = {} /\ View!IsInjective(order)
  BY <1>1 DEF View!ToSet, View!IsInjective
<1>4. step \in 0..View!Steps /\ lost \in 0..MaxLost /\ pos \in 0..Len(bars)
  BY <1>1, <1>2
<1> QED
  BY <1>1, <1>2, <1>3, <1>4 DEF View!TypeOK, View!Ended

LEMMA DaemonOrder ==
  ASSUME View!Bounds, View!TypeOK, View!Daemon
  PROVE  View!TypeOK'
<1>1. /\ View!Steps \in Nat /\ MaxValue \in Nat /\ StepOf \in [Work -> Nat \ {0}]
      /\ bars \in Seq(Work \X (1..MaxValue)) /\ pos \in 0..Len(bars)
      /\ step \in 0..View!Steps /\ given \in [Work -> 0..MaxValue]
      /\ works \in [Work -> {"queued", "running"} \cup View!Ended]
      /\ session \in {"run", "done"}
  BY StepsNumber DEF View!Bounds, View!TypeOK
<1>2. UNCHANGED <<view, pos, order, bar, replies, lost, screen, missed>>
  BY DEF View!Daemon, View!readVars, View!pollVars
<1>3. ASSUME step' \in 0..View!Steps, given' \in [Work -> 0..MaxValue],
             works' \in [Work -> {"queued", "running"} \cup View!Ended],
             session' \in {"run", "done"}, bars' \in Seq(Work \X (1..MaxValue)),
             pos \in 0..Len(bars')
      PROVE  View!TypeOK'
  BY <1>2, <1>3 DEF View!TypeOK
<1>4. CASE View!BeginStep
  <2>1. step < View!Steps /\ step' = step + 1 /\ UNCHANGED <<works, given, bars, session>>
    BY <1>4 DEF View!BeginStep
  <2>2. step' \in 0..View!Steps
    BY <1>1, <2>1
  <2> QED
    BY <1>1, <1>3, <2>1, <2>2
<1>5. ASSUME NEW w \in Work, View!MarkWorkRunning(w)
      PROVE  View!TypeOK'
  BY <1>1, <1>3, <1>5 DEF View!MarkWorkRunning
<1>6. ASSUME NEW w \in Work, View!MarkWorkDone(w)
      PROVE  View!TypeOK'
  BY <1>1, <1>3, <1>6 DEF View!MarkWorkDone
<1>7. ASSUME NEW w \in Work, View!SetBar(w)
      PROVE  View!TypeOK'
  <2>1. /\ given[w] < MaxValue /\ given' = [given EXCEPT ![w] = given[w] + 1]
        /\ UNCHANGED <<step, works, bars, session>>
    BY <1>7, <1>1 DEF View!SetBar
  <2>2. given' \in [Work -> 0..MaxValue]
    BY <1>1, <2>1
  <2> QED
    BY <1>1, <1>3, <2>1, <2>2
<1>8. ASSUME NEW w \in Work, View!LogBar(w)
      PROVE  View!TypeOK'
  <2>1. PICK v \in (View!Logged(w) + 1)..given[w] : bars' = Append(bars, <<w, v>>)
    BY <1>8 DEF View!LogBar
  <2>2. View!Logged(w) \in Nat
    BY <1>1, LoggedNumber
  <2>3. v \in 1..MaxValue
    BY <1>1, <2>1, <2>2
  <2>4. /\ bars' \in Seq(Work \X (1..MaxValue)) /\ Len(bars') = Len(bars) + 1
        /\ Len(bars) \in Nat
    BY <1>1, <2>1, <2>3, AppendProperties, LenProperties
  <2>5. UNCHANGED <<step, works, given, session>>
    BY <1>8 DEF View!LogBar
  <2> QED
    BY <1>1, <1>3, <2>4, <2>5
<1>9. CASE View!WriteMarker
  BY <1>1, <1>3, <1>9 DEF View!WriteMarker
<1> QED
  BY <1>4, <1>5, <1>6, <1>7, <1>8, <1>9 DEF View!Daemon

\* The next line of the log: a bar that has no entry gets the last place.
LEMMA BarOrder ==
  ASSUME View!Bounds, View!TypeOK, View!HandleBar
  PROVE  View!TypeOK'
<1> DEFINE w == bars[pos + 1][1]
           v == bars[pos + 1][2]
<1>1. /\ pos < Len(bars) /\ pos' = pos + 1
      /\ bar' = [bar EXCEPT ![w] = v]
      /\ order' = IF bar[w] = 0 THEN Append(order, w) ELSE order
      /\ missed' = missed \ {w}
      /\ UNCHANGED <<step, works, given, bars, session, view, replies, lost, screen>>
  BY DEF View!HandleBar, View!daemonVars
<1>2. /\ bars \in Seq(Work \X (1..MaxValue)) /\ pos \in 0..Len(bars)
      /\ order \in Seq(Work) /\ View!IsInjective(order)
      /\ bar \in [Work -> 0..MaxValue]
      /\ View!ToSet(order) = {u \in Work : bar[u] # 0} /\ missed \subseteq Work
  BY DEF View!TypeOK
<1>3. pos' \in 0..Len(bars) /\ pos + 1 \in 1..Len(bars)
  BY <1>1, <1>2, LenProperties
<1>4. bars[pos + 1] \in Work \X (1..MaxValue)
  BY <1>2, <1>3, ElementOfSeq
<1>5. w \in Work /\ v \in 1..MaxValue /\ v # 0 /\ v \in 0..MaxValue
  BY <1>4 DEF View!Bounds
<1> HIDE DEF w, v
<1>6. bar' \in [Work -> 0..MaxValue] /\ \A u \in Work : bar'[u] # 0 <=> u = w \/ bar[u] # 0
  BY <1>1, <1>2, <1>5
<1>7. /\ order' \in Seq(Work) /\ View!IsInjective(order')
      /\ \A u : u \in View!ToSet(order') <=> u = w \/ u \in View!ToSet(order)
  <2>1. CASE bar[w] # 0
    BY <1>1, <1>2, <1>5, <2>1
  <2>2. CASE bar[w] = 0
    <3>1. w \notin View!ToSet(order) /\ order' = Append(order, w)
      BY <1>1, <1>2, <2>2
    <3> DEFINE o == Append(order, w)
    <3>2. /\ Len(order) \in Nat /\ o \in Seq(Work) /\ Len(o) = Len(order) + 1
          /\ \A i \in 1..Len(order) : o[i] = order[i]
          /\ o[Len(order) + 1] = w
      BY <1>2, <1>5, AppendProperties, LenProperties
    <3>3. DOMAIN order = 1..Len(order) /\ DOMAIN o = 1..(Len(order) + 1)
      BY <1>2, <3>2, LenProperties
    <3>4. /\ Len(order) + 1 \in 1..(Len(order) + 1)
          /\ \A i \in 1..(Len(order) + 1) : i \in 1..Len(order) \/ i = Len(order) + 1
          /\ \A i \in 1..Len(order) : i \in 1..(Len(order) + 1)
      BY <3>2
    <3> HIDE DEF o
    <3>5. /\ \A u : u \in View!ToSet(o) <=> \E i \in 1..(Len(order) + 1) : u = o[i]
          /\ \A u : u \in View!ToSet(order) <=> \E i \in 1..Len(order) : u = order[i]
      BY <3>3 DEF View!ToSet
    <3>6. \A u : u \in View!ToSet(o) <=> u = w \/ u \in View!ToSet(order)
      BY <3>2, <3>4, <3>5
    <3>7. View!IsInjective(o)
      <4>1. \A i, j \in 1..Len(order) : order[i] = order[j] => i = j
        BY <1>2, <3>3 DEF View!IsInjective
      <4>2. \A i \in 1..Len(order) : order[i] # w
        BY <3>1, <3>5
      <4> QED
        BY <3>2, <3>3, <3>4, <4>1, <4>2 DEF View!IsInjective
    <3> QED
      BY <3>1, <3>2, <3>6, <3>7 DEF o
  <2> QED
    BY <2>1, <2>2
<1>8. View!ToSet(order') = {u \in Work : bar'[u] # 0}
  BY <1>2, <1>5, <1>6, <1>7
<1> QED
  BY <1>1, <1>2, <1>3, <1>6, <1>7, <1>8 DEF View!TypeOK

\* A snapshot: the entries of works that do not run go, and their places.
LEMMA SnapshotOrder ==
  ASSUME View!Bounds, View!TypeOK, View!SetStepSnapshot
  PROVE  View!TypeOK'
<1>1. PICK s \in replies :
        /\ order' = View!Only(order, View!RunningIn(s))
        /\ bar' = [w \in Work |-> IF w \in View!RunningIn(s) THEN bar[w] ELSE 0]
        /\ View!Shows(s)
  BY DEF View!SetStepSnapshot
<1>2. /\ order \in Seq(Work) /\ View!IsInjective(order)
      /\ bar \in [Work -> 0..MaxValue]
      /\ View!ToSet(order) = {w \in Work : bar[w] # 0} /\ missed \subseteq Work
  BY DEF View!TypeOK
<1>3. /\ UNCHANGED <<step, works, given, bars, session, view, pos, lost>>
      /\ missed' \subseteq missed \cup View!ToSet(order)
  BY <1>1 DEF View!Shows, View!daemonVars, View!readVars
<1>4. /\ order' \in Seq(Work) /\ View!IsInjective(order')
      /\ View!ToSet(order') = View!ToSet(order) \cap View!RunningIn(s)
  BY <1>1, <1>2, OnlyKeeps
<1>5. bar' \in [Work -> 0..MaxValue] /\ missed' \subseteq Work
  <2>1. \A w \in Work : bar[w] \in 0..MaxValue /\ 0 \in 0..MaxValue
    BY <1>2 DEF View!Bounds
  <2> QED
    BY <1>1, <1>2, <1>3, <2>1
<1>6. View!ToSet(order') = {w \in Work : bar'[w] # 0}
  BY <1>1, <1>2, <1>4
<1> QED
  BY <1>3, <1>4, <1>5, <1>6 DEF View!TypeOK

\* The order of the screen names the works that have an entry, each once, for
\* any works, steps and values and any number of lost polls: handleBar adds no
\* key that is there, and setStepSnapshot takes key and entry off together.
THEOREM OrderNamesEntries == ASSUME View!Bounds PROVE View!Spec => []View!TypeOK
<1>1. ASSUME View!TypeOK, [View!Next]_(View!vars)
      PROVE  View!TypeOK'
  <2>1. CASE View!Daemon
    BY <1>1, <2>1, DaemonOrder
  <2>2. CASE View!OpenTailAt
    <3>1. /\ pos' \in 0..(IF bars = <<>> THEN 0 ELSE Len(bars) - 1) /\ view' = "on"
          /\ missed' = {bars[i][1] : i \in 1..pos'}
          /\ UNCHANGED <<step, works, given, bars, session, order, bar, lost>>
      BY <2>2 DEF View!OpenTailAt, View!daemonVars
    <3>2. bars \in Seq(Work \X (1..MaxValue)) /\ Len(bars) \in Nat
      BY <1>1, LenProperties DEF View!TypeOK
    <3>3. pos' \in 0..Len(bars)
      BY <3>1, <3>2, EmptySeq
    <3>4. \A i \in 1..pos' : bars[i] \in Work \X (1..MaxValue)
      <4>1. \A i \in 1..pos' : i \in 1..Len(bars)
        BY <3>2, <3>3
      <4> QED
        BY <3>2, <4>1, ElementOfSeq
    <3>5. missed' \subseteq Work
      BY <3>1, <3>4
    <3> QED
      BY <1>1, <3>1, <3>3, <3>5 DEF View!TypeOK
  <2>3. CASE View!HandleBar
    BY <1>1, <2>3, BarOrder
  <2>4. CASE View!SetStepSnapshot
    BY <1>1, <2>4, SnapshotOrder
  <2>5. CASE View!LoseReply
    <3>1. /\ lost < MaxLost /\ lost' = lost + 1
          /\ UNCHANGED <<step, works, given, bars, session, view, pos, order, bar, missed>>
      BY <2>5 DEF View!LoseReply, View!daemonVars, View!readVars
    <3>2. lost' \in 0..MaxLost
      BY <1>1, <3>1 DEF View!TypeOK, View!Bounds
    <3> QED
      BY <1>1, <3>1, <3>2 DEF View!TypeOK
  <2>6. CASE View!ReadEnd \/ View!Tick \/ UNCHANGED View!vars
    <3>1. /\ UNCHANGED <<step, works, given, bars, session, pos, order, bar, lost, missed>>
          /\ view' \in {view, "over"}
      BY <2>6 DEF View!ReadEnd, View!Tick, View!vars, View!daemonVars, View!readVars,
                  View!pollVars
    <3> QED
      BY <1>1, <3>1 DEF View!TypeOK
  <2> QED
    BY <1>1, <2>1, <2>2, <2>3, <2>4, <2>5, <2>6 DEF View!Next
<1> QED
  BY <1>1, InitOrder, PTL DEF View!Spec
=============================================================================
