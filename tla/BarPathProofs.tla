--------------------------- MODULE BarPathProofs ---------------------------
(***************************************************************************)
(* Proofs about BarPath, for any bars and any number of values: no value   *)
(* is held twice, none is held out of order before two threads send, the   *)
(* last one is held when close has returned, and the log shows samples of  *)
(* what the broker held.                                                   *)
(***************************************************************************)
EXTENDS BarPath, FiniteSetTheorems, SequenceTheorems, TLAPS

Sends(t, b) == thread[t] # <<>> /\ thread[t][1] = b

\* The sends that are submitted and not done, and the values of b sent so far.
Open == Range(tasks) \cup (Range(thread) \ {<<>>})

Sent(b) == Range(held[b]) \cup {v \in Nat : <<b, v>> \in Open}

\* The throttle: what it holds back is newer than what it let pass.
BelowInv ==
  \A b \in Bar :
    /\ given[b] <= Values[b] /\ pending[b] <= given[b]
    /\ \A v \in Sent(b) : v <= given[b] /\ (pending[b] # 0 => v < pending[b])

\* No value is in two places.
OnceInv ==
  /\ IsInjective(tasks)
  /\ \A t, u \in Thread : thread[t] # <<>> /\ t # u => thread[t] # thread[u]
  /\ \A t \in Thread : thread[t] \notin Range(tasks)
  /\ \A b \in Bar : IsInjective(held[b]) /\ \A v \in Range(held[b]) : <<b, v>> \notin Open

\* The values of b are on their way in the order in which they were given:
\* those held before those of the threads before those of the queue.
InOrder(b) ==
  /\ \A i, j \in 1..Len(held[b]) : i < j => held[b][i] < held[b][j]
  /\ \A t, u \in Thread : Sends(t, b) /\ Sends(u, b) => t = u
  /\ \A t \in Thread : Sends(t, b) =>
       /\ \A k \in 1..Len(held[b]) : held[b][k] < thread[t][2]
       /\ \A i \in 1..Len(tasks) : tasks[i][1] = b => thread[t][2] < tasks[i][2]
  /\ \A i \in 1..Len(tasks) : tasks[i][1] = b =>
       /\ \A k \in 1..Len(held[b]) : held[b][k] < tasks[i][2]
       /\ \A j \in 1..Len(tasks) :
            i < j /\ tasks[j][1] = b => tasks[i][2] < tasks[j][2]

\* Only two threads can bring it out of order, and the first is not free before
\* the event stream has ended.
OrderInv ==
  /\ push = "open" => thread["first"] = <<>> /\ crossed = {}
  /\ \A b \in Bar \ crossed : InOrder(b)

\* The value last given to b is somewhere.
Newest(b) == given[b] = 0 \/ pending[b] = given[b] \/ given[b] \in Sent(b)

KeptInv ==
  /\ proc # "killed" => \A b \in Bar \ failed : Newest(b)
  /\ proc \notin {"run", "killed"} => \A b \in Bar : pending[b] = 0
  /\ proc = "closed" => Idle

\* What is on its way to the log: the copies as the subscriber made them, none
\* of them from before what is shown.
SampleInv ==
  /\ \A b \in Bar : shown[b] <= Len(held[b])
  /\ \A e \in batch :
       /\ shown[e[1]] <= e[2] /\ e[2] <= Len(held[e[1]])
       /\ \A f \in batch : e[1] = f[1] => e = f
       /\ \A i \in 1..Len(net) : net[i][1] = e[1] => net[i][2] <= e[2]
  /\ \A i \in 1..Len(net) :
       /\ shown[net[i][1]] <= net[i][2] /\ net[i][2] <= Len(held[net[i][1]])
       /\ \A j \in 1..Len(net) :
            i < j /\ net[i][1] = net[j][1] => net[i][2] <= net[j][2]

Inv == Types /\ BelowInv /\ OnceInv /\ OrderInv /\ KeptInv /\ SampleInv

-----------------------------------------------------------------------------
(* Types.                                                                  *)

\* What close submits: each bar that has a pending value, once.
Flushed == {<<b, pending[b]>> : b \in {c \in Bar : pending[c] # 0}}

\* A sequence made of a set holds each of its elements once.
LEMMA SetAsSeq ==
  ASSUME NEW S, IsFiniteSet(S), NEW s \in SetToSeqs(S)
  PROVE  /\ s \in Seq(S)
         /\ \A i, j \in 1..Len(s) : i # j => s[i] # s[j]
         /\ \A e \in S : \E i \in 1..Len(s) : s[i] = e
<1> DEFINE n == Cardinality(S)
<1>1. n \in Nat
  BY FS_CardinalityType
<1>2. s \in [1..n -> S] /\ \A i, j \in 1..n : i # j => s[i] # s[j]
  BY DEF SetToSeqs
<1>3. s \in Seq(S) /\ Len(s) = n
  BY <1>1, <1>2, SeqDef
<1>4. s \in Injection(1..n, S)
  BY <1>2 DEF Injection, IsInjective
<1>5. IsFiniteSet(1..n) /\ Cardinality(1..n) = n
  BY <1>1, FS_Interval
<1>6. s \in Surjection(1..n, S)
  BY <1>4, <1>5, FS_Injection
<1>. QED BY <1>2, <1>3, <1>6 DEF Surjection

LEMMA FlushedFinite ==
  ASSUME Bounds, Types
  PROVE  IsFiniteSet(Flushed) /\ Flushed \subseteq Send
<1> DEFINE P == {c \in Bar : pending[c] # 0}
           entry == [b \in P |-> <<b, pending[b]>>]
<1>1. IsFiniteSet(P)
  BY FS_Subset DEF Bounds
<1>2. entry \in Surjection(P, Flushed)
  BY DEF Surjection, Flushed
<1>3. IsFiniteSet(Flushed)
  BY <1>1, <1>2, FS_Surjection
<1>4. ASSUME NEW b \in P PROVE <<b, pending[b]>> \in Send
  BY DEF Types, Send
<1>. QED BY <1>3, <1>4 DEF Flushed

LEMMA FlushedSeq ==
  ASSUME Bounds, Types, NEW s \in SetToSeqs(Flushed)
  PROVE  /\ s \in Seq(Send)
         /\ \A i \in 1..Len(s) : \E b \in Bar : s[i] = <<b, pending[b]>> /\ pending[b] # 0
         /\ \A i, j \in 1..Len(s) : i # j => s[i][1] # s[j][1]
         /\ \A b \in Bar : pending[b] # 0 =>
              \E i \in 1..Len(s) : s[i] = <<b, pending[b]>>
<1>1. s \in Seq(Flushed)
  BY FlushedFinite, SetAsSeq
<1>2. s \in Seq(Send)
  BY <1>1, FlushedFinite, SeqMonotonic
<1>3. \A i \in 1..Len(s) : s[i] \in Flushed
  BY <1>1, ElementOfSeq
<1>4. \A i, j \in 1..Len(s) : i # j => s[i] # s[j]
  BY FlushedFinite, SetAsSeq
<1>5. \A e \in Flushed : \E i \in 1..Len(s) : s[i] = e
  BY FlushedFinite, SetAsSeq
<1>6. \A e \in Flushed : \E b \in Bar : e = <<b, pending[b]>> /\ pending[b] # 0
  BY DEF Flushed
<1>7. \A b \in Bar : pending[b] # 0 => <<b, pending[b]>> \in Flushed
  BY DEF Flushed
<1>8. \A d, e \in Flushed : d # e => d[1] # e[1]
  BY <1>6
<1>. QED BY <1>2, <1>3, <1>4, <1>5, <1>6, <1>7, <1>8

LEMMA TypesInit == Init => Types
BY EmptySeq DEF Init, Types, Send, Thread

LEMMA TypesStep == Bounds /\ Types /\ [Next]_vars => Types'
<1> SUFFICES ASSUME Bounds, Types, [Next]_vars PROVE Types'
  OBVIOUS
<1> USE DEF Types, workVars, poolVars, brokerVars, daemonVars
<1>1. ASSUME NEW b \in Bar, ProgressBar(b) PROVE Types'
  <2>1. <<b, given[b] + 1>> \in Send
    BY DEF Send
  <2>2. CASE due[b]
    <3>1. Append(tasks, <<b, given[b] + 1>>) \in Seq(Send)
      BY <2>1, AppendProperties
    <3>2. /\ tasks' = Append(tasks, <<b, given[b] + 1>>)
          /\ pending' = [pending EXCEPT ![b] = 0]
      BY <1>1, <2>2 DEF ProgressBar
    <3>. QED BY <1>1, <3>1, <3>2 DEF ProgressBar
  <2>3. CASE ~due[b]
    <3>1. tasks' = tasks /\ pending' = [pending EXCEPT ![b] = given[b] + 1]
      BY <1>1, <2>3 DEF ProgressBar
    <3>. QED BY <1>1, <3>1 DEF ProgressBar
  <2>. QED BY <2>2, <2>3
<1>2. ASSUME NEW b \in Bar, Elapse(b) PROVE Types'
  BY <1>2 DEF Elapse
<1>3. CASE Close
  <2>1. PICK s \in SetToSeqs(Flushed) : tasks' = tasks \o s
    BY <1>3 DEF Close, Flushed
  <2>2. tasks' \in Seq(Send)
    BY <2>1, FlushedSeq, ConcatProperties
  <2>. QED BY <1>3, <2>2 DEF Close
<1>4. CASE EndPush \/ BreakPush \/ Join \/ Kill
  BY <1>4, EmptySeq DEF EndPush, BreakPush, Join, Kill
<1>5. ASSUME NEW t \in Thread, Take(t) PROVE Types'
  <2>1. Head(tasks) \in Send /\ tasks' \in Seq(Send)
    BY <1>5, HeadTailProperties DEF Take
  <2>. QED BY <1>5, <2>1 DEF Take
<1>6. ASSUME NEW t \in Thread, SendFails(t) PROVE Types'
  <2>1. thread[t][1] \in Bar
    BY <1>6 DEF SendFails, Send
  <2>. QED BY <1>6, <2>1 DEF SendFails
<1>7. ASSUME NEW t \in Thread, SetProgressBar(t) PROVE Types'
  <2>1. thread[t][1] \in Bar /\ thread[t][2] \in Nat \ {0}
    BY <1>7 DEF SetProgressBar, Send
  <2>2. held' \in [Bar -> Seq(Nat \ {0})]
    BY <1>7, <2>1 DEF SetProgressBar
  <2>. QED BY <1>7, <2>1, <2>2 DEF SetProgressBar
<1>8. CASE Register \/ CopyDirty
  <2>1. ASSUME NEW B \in SUBSET Bar PROVE Stored(B) \subseteq Send
    <3>1. \A c \in Bar : held[c] # <<>> => Len(held[c]) \in Nat \ {0}
      BY EmptySeq
    <3>. QED BY <3>1 DEF Stored, Send
  <2>. QED BY <1>8, <2>1 DEF Register, CopyDirty
<1>9. CASE YieldBar
  BY <1>9 DEF YieldBar
<1>10. CASE Unsubscribe \/ EndReceive
  BY <1>10, EmptySeq DEF Unsubscribe, EndReceive
<1>11. CASE ReceiveBar
  <2>1. Head(net) \in Send /\ Tail(net) \in Seq(Send)
    BY <1>11, HeadTailProperties DEF ReceiveBar
  <2>. QED BY <1>11, <2>1 DEF ReceiveBar, Send
<1>12. CASE UNCHANGED vars
  BY <1>12 DEF vars
<1>. QED
  BY <1>1, <1>2, <1>3, <1>4, <1>5, <1>6, <1>7, <1>8, <1>9, <1>10, <1>11, <1>12
     DEF Next, Works, Handler

-----------------------------------------------------------------------------
(* The sequences that the steps make.                                      *)

LEMMA AppendTask ==
  ASSUME Types, NEW e \in Send, tasks' = Append(tasks, e)
  PROVE  /\ Len(tasks') = Len(tasks) + 1
         /\ \A i \in 1..Len(tasks) : tasks'[i] = tasks[i]
         /\ tasks'[Len(tasks) + 1] = e
         /\ \A i \in 1..Len(tasks') : i \in 1..Len(tasks) \/ i = Len(tasks) + 1
BY AppendProperties, LenProperties DEF Types

LEMMA TakeTask ==
  ASSUME Types, tasks # <<>>, tasks' = Tail(tasks)
  PROVE  /\ 1 \in 1..Len(tasks) /\ Head(tasks) = tasks[1]
         /\ Len(tasks') = Len(tasks) - 1
         /\ \A i \in 1..Len(tasks') : i + 1 \in 1..Len(tasks) /\ tasks'[i] = tasks[i + 1]
<1>1. Len(tasks) \in Nat \ {0}
  BY EmptySeq DEF Types
<1>2. Len(tasks') = Len(tasks) - 1 /\ \A i \in 1..Len(tasks') : tasks'[i] = tasks[i + 1]
  BY HeadTailProperties DEF Types
<1>. QED BY <1>1, <1>2

LEMMA FlushTasks ==
  ASSUME Bounds, Types, Close
  PROVE  \E s \in Seq(Send) :
           /\ Len(s) \in Nat /\ Len(tasks') = Len(tasks) + Len(s)
           /\ \A i \in 1..Len(tasks) : tasks'[i] = tasks[i]
           /\ \A i \in 1..Len(tasks') :
                i \in 1..Len(tasks) \/ i - Len(tasks) \in 1..Len(s)
           /\ \A i \in 1..Len(s) : tasks'[i + Len(tasks)] = s[i]
           /\ \A i \in 1..Len(s) :
                \E b \in Bar : s[i] = <<b, pending[b]>> /\ pending[b] # 0
           /\ \A i, j \in 1..Len(s) : i # j => s[i][1] # s[j][1]
           /\ \A b \in Bar : pending[b] # 0 =>
                \E i \in 1..Len(s) : s[i] = <<b, pending[b]>>
<1>1. PICK s \in SetToSeqs(Flushed) : tasks' = tasks \o s
  BY DEF Close, Flushed
<1>2. s \in Seq(Send) /\ Len(s) \in Nat /\ Len(tasks) \in Nat
  BY FlushedSeq, LenProperties DEF Types
<1>3. /\ Len(tasks') = Len(tasks) + Len(s)
      /\ \A i \in 1..(Len(tasks) + Len(s)) :
           tasks'[i] = IF i <= Len(tasks) THEN tasks[i] ELSE s[i - Len(tasks)]
  BY <1>1, <1>2, ConcatProperties DEF Types
<1>4. \A i \in 1..Len(s) : tasks'[i + Len(tasks)] = s[i]
  <2> SUFFICES ASSUME NEW i \in 1..Len(s) PROVE tasks'[i + Len(tasks)] = s[i]
    OBVIOUS
  <2>1. /\ i + Len(tasks) \in 1..(Len(tasks) + Len(s))
        /\ ~(i + Len(tasks) <= Len(tasks)) /\ (i + Len(tasks)) - Len(tasks) = i
    BY <1>2
  <2>. QED BY <1>3, <2>1
<1>5. \A i \in 1..Len(tasks) : tasks'[i] = tasks[i]
  BY <1>2, <1>3
<1>6. \A i \in 1..Len(tasks') : i \in 1..Len(tasks) \/ i - Len(tasks) \in 1..Len(s)
  BY <1>2, <1>3
<1>. QED BY <1>2, <1>3, <1>4, <1>5, <1>6, FlushedSeq

LEMMA HoldBar ==
  ASSUME Types, NEW t \in Thread, SetProgressBar(t)
  PROVE  LET c == thread[t][1] IN
         /\ c \in Bar /\ thread[t] = <<c, thread[t][2]>>
         /\ \A b \in Bar \ {c} : held'[b] = held[b]
         /\ Len(held[c]) \in Nat /\ Len(held'[c]) = Len(held[c]) + 1
         /\ \A k \in 1..Len(held[c]) : held'[c][k] = held[c][k]
         /\ held'[c][Len(held[c]) + 1] = thread[t][2]
         /\ \A k \in 1..Len(held'[c]) : k \in 1..Len(held[c]) \/ k = Len(held[c]) + 1
<1> DEFINE c == thread[t][1]
<1>1. c \in Bar /\ thread[t] = <<c, thread[t][2]>> /\ thread[t][2] \in Nat \ {0}
  BY DEF Types, SetProgressBar, Send
<1>2. held' = [held EXCEPT ![c] = Append(@, thread[t][2])]
  BY DEF SetProgressBar
<1>3. held[c] \in Seq(Nat \ {0}) /\ held'[c] = Append(held[c], thread[t][2])
  BY <1>1, <1>2 DEF Types
<1>4. \A b \in Bar \ {c} : held'[b] = held[b]
  BY <1>2 DEF Types
<1>5. Len(held[c]) \in Nat
  BY <1>3, LenProperties
<1>6. /\ Len(held'[c]) = Len(held[c]) + 1
      /\ \A k \in 1..Len(held[c]) : held'[c][k] = held[c][k]
      /\ held'[c][Len(held[c]) + 1] = thread[t][2]
  BY <1>1, <1>3, AppendProperties
<1>. QED BY <1>1, <1>4, <1>5, <1>6

LEMMA TypeFacts ==
  ASSUME Types
  PROVE  /\ Len(tasks) \in Nat /\ Len(net) \in Nat
         /\ \A i \in 1..Len(tasks) :
              tasks[i] \in Send /\ tasks[i][1] \in Bar /\ tasks[i][2] \in Nat \ {0}
         /\ \A i \in 1..Len(net) :
              net[i] \in Send /\ net[i][1] \in Bar /\ net[i][2] \in Nat \ {0}
         /\ \A t \in Thread : thread[t] # <<>> =>
              thread[t] \in Send /\ thread[t][1] \in Bar /\ thread[t][2] \in Nat \ {0}
         /\ \A b \in Bar : Len(held[b]) \in Nat
         /\ \A b \in Bar : \A k \in 1..Len(held[b]) : held[b][k] \in Nat \ {0}
<1>1. \A e \in Send : e[1] \in Bar /\ e[2] \in Nat \ {0}
  BY DEF Send
<1>2. \A b \in Bar : held[b] \in Seq(Nat \ {0})
  BY DEF Types
<1>3. /\ \A b \in Bar : Len(held[b]) \in Nat
      /\ \A b \in Bar : \A k \in 1..Len(held[b]) : held[b][k] \in Nat \ {0}
  BY <1>2, LenProperties, ElementOfSeq
<1>4. Len(tasks) \in Nat /\ \A i \in 1..Len(tasks) : tasks[i] \in Send
  BY LenProperties, ElementOfSeq DEF Types
<1>5. Len(net) \in Nat /\ \A i \in 1..Len(net) : net[i] \in Send
  BY LenProperties, ElementOfSeq DEF Types
<1>. QED BY <1>1, <1>3, <1>4, <1>5 DEF Types

-----------------------------------------------------------------------------
(* What each step does to the values that have been sent.                   *)

barVars == <<given, pending, tasks, thread, held, failed, crossed>>

LEMMA OtherSteps ==
  ASSUME \/ EndPush \/ BreakPush \/ Join
         \/ \E b \in Bar : Elapse(b)
         \/ Handler \/ Unsubscribe \/ ReceiveBar \/ EndReceive
         \/ UNCHANGED vars
  PROVE  UNCHANGED barVars
BY DEF EndPush, BreakPush, Join, Elapse, Handler, Register, YieldBar, CopyDirty,
   Unsubscribe, ReceiveBar, EndReceive, vars, barVars, workVars, poolVars,
   brokerVars, daemonVars

LEMMA AppendRange ==
  ASSUME NEW S, NEW s \in Seq(S), NEW e \in S
  PROVE  Range(Append(s, e)) = Range(s) \cup {e}
<1>1. Append(s, e) = s \o <<e>> /\ <<e>> \in Seq(S)
  BY AppendIsConcat
<1>2. Range(<<e>>) = {e}
  BY DEF Range
<1>3. Range(s \o <<e>>) = Range(s) \cup Range(<<e>>)
  BY <1>1, RangeConcatenation, ZenonT(40)
<1>. QED BY <1>1, <1>2, <1>3, Zenon

LEMMA TailRange ==
  ASSUME NEW S, NEW s \in Seq(S), s # <<>>
  PROVE  Range(s) = {Head(s)} \cup Range(Tail(s))
<1>1. Tail(s) \in Seq(S) /\ <<Head(s)>> \in Seq(S)
  BY HeadTailProperties
<1>2. s = <<Head(s)>> \o Tail(s)
  <2>1. 1 \in 1..Len(s) /\ Len(s) \in Nat /\ Head(s) = s[1]
    BY EmptySeq
  <2>2. SubSeq(s, 1, Len(s)) = <<s[1]>> \o SubSeq(s, 2, Len(s))
    BY <2>1, SubSeqRecursiveFirst
  <2>. QED BY <2>1, <2>2, SubSeqFull
<1>3. Range(<<Head(s)>>) = {Head(s)}
  BY DEF Range
<1>4. Range(<<Head(s)>> \o Tail(s)) = Range(<<Head(s)>>) \cup Range(Tail(s))
  BY <1>1, RangeConcatenation, ZenonT(40)
<1>. QED BY <1>2, <1>3, <1>4, Zenon

\* One thread's entry replaced.
LEMMA ThreadRange ==
  ASSUME NEW f \in [Thread -> Send \cup {<<>>}], NEW t \in Thread, NEW e
  PROVE  /\ Range([f EXCEPT ![t] = e]) \subseteq Range(f) \cup {e}
         /\ Range(f) \subseteq Range([f EXCEPT ![t] = e]) \cup {f[t]}
         /\ e \in Range([f EXCEPT ![t] = e]) /\ f[t] \in Range(f)
BY DEF Range

LEMMA SendIsPair ==
  /\ \A e \in Send : e # <<>> /\ e = <<e[1], e[2]>> /\ e[1] \in Bar /\ e[2] \in Nat \ {0}
  /\ \A b, v : <<b, v>> # <<>>
BY DEF Send

LEMMA OpenIsSends == Types => Open \subseteq Send /\ Range(tasks) \subseteq Send
<1> SUFFICES ASSUME Types PROVE Open \subseteq Send /\ Range(tasks) \subseteq Send
  OBVIOUS
<1>1. Range(tasks) \subseteq Send
  BY RangeOfSeq DEF Types
<1>2. Range(thread) \subseteq Send \cup {<<>>}
  BY DEF Types, Range
<1>. QED BY <1>1, <1>2 DEF Open

LEMMA ProgressSends ==
  ASSUME Types, NEW b \in Bar, ProgressBar(b)
  PROVE  /\ UNCHANGED <<held, thread, crossed, failed>>
         /\ given[b] + 1 \in Nat /\ given' = [given EXCEPT ![b] = @ + 1]
         /\ \/ /\ tasks' = Append(tasks, <<b, given[b] + 1>>)
               /\ <<b, given[b] + 1>> \in Send
               /\ pending' = [pending EXCEPT ![b] = 0]
               /\ Open' = Open \cup {<<b, given[b] + 1>>}
            \/ /\ tasks' = tasks /\ pending' = [pending EXCEPT ![b] = given[b] + 1]
               /\ Open' = Open
<1>1. /\ UNCHANGED <<held, thread, crossed, failed>>
      /\ given' = [given EXCEPT ![b] = @ + 1]
  BY DEF ProgressBar, brokerVars
<1>2. given[b] + 1 \in Nat \ {0} /\ <<b, given[b] + 1>> \in Send
  BY DEF Types, Send
<1>3. CASE due[b]
  <2>1. /\ tasks' = Append(tasks, <<b, given[b] + 1>>)
        /\ pending' = [pending EXCEPT ![b] = 0]
    BY <1>3 DEF ProgressBar
  <2>2. Range(tasks') = Range(tasks) \cup {<<b, given[b] + 1>>}
    <3>1. tasks \in Seq(Send)
      BY DEF Types
    <3>2. Range(Append(tasks, <<b, given[b] + 1>>)) = Range(tasks) \cup {<<b, given[b] + 1>>}
      BY <1>2, <3>1, AppendRange, ZenonT(40)
    <3>. QED BY <2>1, <3>2
  <2>. QED BY <1>1, <1>2, <2>1, <2>2 DEF Open
<1>4. CASE ~due[b]
  BY <1>1, <1>2, <1>4 DEF ProgressBar, Open
<1>. QED BY <1>3, <1>4

LEMMA CloseSends ==
  ASSUME Bounds, Types, Close
  PROVE  /\ UNCHANGED <<given, held, thread, crossed, failed>>
         /\ pending' = [b \in Bar |-> 0] /\ Open' = Open \cup Flushed
<1>1. PICK s \in SetToSeqs(Flushed) : tasks' = tasks \o s
  BY DEF Close, Flushed
<1>2. s \in Seq(Flushed) /\ s \in Seq(Send) /\ Flushed \subseteq Range(s)
  <2>1. s \in Seq(Flushed) /\ \A e \in Flushed : \E i \in 1..Len(s) : s[i] = e
    BY FlushedFinite, SetAsSeq
  <2>2. s \in Seq(Send)
    BY FlushedSeq
  <2>3. Range(s) = {s[i] : i \in 1..Len(s)}
    BY <2>1, RangeEquality, Zenon
  <2>. QED BY <2>1, <2>2, <2>3
<1>3. Range(s) = Flushed
  BY <1>2, RangeOfSeq
<1>4. Range(tasks') = Range(tasks) \cup Flushed
  <2>1. tasks \in Seq(Send)
    BY DEF Types
  <2>2. Range(tasks \o s) = Range(tasks) \cup Range(s)
    <3>1. s \in Seq(Send)
      BY <1>2
    <3>. QED BY <2>1, <3>1, RangeConcatenation, ZenonT(40)
  <2>. QED BY <1>1, <1>3, <2>2
<1>. QED BY <1>4 DEF Close, brokerVars, Open

LEMMA KillSends ==
  ASSUME Kill
  PROVE  /\ UNCHANGED <<given, pending, held, thread, crossed, failed>> /\ tasks' = <<>>
         /\ Open' \subseteq Open
<1>1. UNCHANGED <<given, pending, held, thread, crossed, failed>> /\ tasks' = <<>>
  BY DEF Kill, brokerVars
<1>2. Range(<<>>) = {}
  BY DEF Range
<1>. QED BY <1>1, <1>2 DEF Open

LEMMA TakeSends ==
  ASSUME Types, NEW t \in Thread, Take(t)
  PROVE  /\ UNCHANGED <<given, pending, held, failed>>
         /\ thread[t] = <<>> /\ thread' = [thread EXCEPT ![t] = tasks[1]]
         /\ Open' = Open
<1>1. /\ UNCHANGED <<given, pending, held, failed>>
      /\ thread[t] = <<>> /\ thread' = [thread EXCEPT ![t] = Head(tasks)]
      /\ tasks # <<>> /\ tasks' = Tail(tasks)
  BY DEF Take, Free, workVars, brokerVars
<1>2. Head(tasks) = tasks[1] /\ Head(tasks) \in Send
  BY <1>1, HeadTailProperties DEF Types
<1>3. Range(tasks) = {Head(tasks)} \cup Range(tasks')
  BY <1>1, TailRange DEF Types
<1>4. /\ Range(thread') \subseteq Range(thread) \cup {Head(tasks)}
      /\ Range(thread) \subseteq Range(thread') \cup {<<>>}
      /\ Head(tasks) \in Range(thread')
  BY <1>1, ThreadRange DEF Types
<1>5. Head(tasks) # <<>>
  BY <1>2, SendIsPair
<1>. QED BY <1>1, <1>2, <1>3, <1>4, <1>5 DEF Open

LEMMA FailSends ==
  ASSUME Types, NEW t \in Thread, SendFails(t)
  PROVE  /\ UNCHANGED <<given, pending, tasks, held, crossed>>
         /\ failed' = failed \cup {thread[t][1]}
         /\ thread' = [thread EXCEPT ![t] = <<>>]
         /\ Open' \subseteq Open /\ Open \subseteq Open' \cup {thread[t]}
<1>1. /\ UNCHANGED <<given, pending, tasks, held, crossed>>
      /\ failed' = failed \cup {thread[t][1]}
      /\ thread' = [thread EXCEPT ![t] = <<>>]
  BY DEF SendFails, workVars, brokerVars
<1>2. /\ Range(thread') \subseteq Range(thread) \cup {<<>>}
      /\ Range(thread) \subseteq Range(thread') \cup {thread[t]}
  BY <1>1, ThreadRange DEF Types
<1>. QED BY <1>1, <1>2 DEF Open

LEMMA HoldSends ==
  ASSUME Types, NEW t \in Thread, SetProgressBar(t)
  PROVE  /\ UNCHANGED <<given, pending, tasks, crossed, failed>>
         /\ thread' = [thread EXCEPT ![t] = <<>>]
         /\ thread[t] \in Open
         /\ Open' \subseteq Open /\ Open \subseteq Open' \cup {thread[t]}
         /\ \A b \in Bar \ {thread[t][1]} : held'[b] = held[b]
         /\ Range(held'[thread[t][1]]) = Range(held[thread[t][1]]) \cup {thread[t][2]}
<1> DEFINE c == thread[t][1]
<1>1. /\ UNCHANGED <<given, pending, tasks, crossed, failed>>
      /\ thread' = [thread EXCEPT ![t] = <<>>] /\ thread[t] # <<>>
      /\ held' = [held EXCEPT ![c] = Append(@, thread[t][2])]
  BY DEF SetProgressBar, workVars
<1>2. /\ Range(thread') \subseteq Range(thread) \cup {<<>>}
      /\ Range(thread) \subseteq Range(thread') \cup {thread[t]}
      /\ thread[t] \in Range(thread)
  BY <1>1, ThreadRange DEF Types
<1>3. c \in Bar /\ thread[t][2] \in Nat \ {0}
  BY <1>1, SendIsPair DEF Types
<1>4. held[c] \in Seq(Nat \ {0}) /\ held'[c] = Append(held[c], thread[t][2])
  BY <1>1, <1>3 DEF Types
<1>5. Range(held'[c]) = Range(held[c]) \cup {thread[t][2]}
  BY <1>3, <1>4, AppendRange
<1>6. \A b \in Bar \ {c} : held'[b] = held[b]
  BY <1>1 DEF Types
<1>. QED BY <1>1, <1>2, <1>5, <1>6 DEF Open

-----------------------------------------------------------------------------
(* The throttle.                                                           *)

LEMMA SentIsNat == Types => \A b \in Bar : Sent(b) \subseteq Nat
<1> SUFFICES ASSUME Types, NEW b \in Bar PROVE Sent(b) \subseteq Nat
  OBVIOUS
<1>1. Range(held[b]) \subseteq Nat
  BY RangeOfSeq DEF Types
<1>. QED BY <1>1 DEF Sent

LEMMA BelowStep ==
  ASSUME Bounds, Types, BelowInv, [Next]_vars PROVE BelowInv'
<1> USE DEF BelowInv
<1>1. \A b \in Bar : given[b] \in Nat /\ pending[b] \in Nat /\ Sent(b) \subseteq Nat
  BY SentIsNat DEF Types
<1>2. ASSUME NEW b \in Bar, ProgressBar(b) PROVE BelowInv'
  <2>1. given[b] + 1 <= Values[b]
    BY <1>1, <1>2 DEF ProgressBar, Bounds
  <2>2. \A c \in Bar : given'[c] = IF c = b THEN given[b] + 1 ELSE given[c]
    <3>1. given' = [given EXCEPT ![b] = @ + 1]
      BY <1>2, ProgressSends
    <3>. QED BY <3>1 DEF Types
  <2>3. CASE /\ pending' = [pending EXCEPT ![b] = 0]
             /\ Open' = Open \cup {<<b, given[b] + 1>>}
    <3>1. \A c \in Bar : pending'[c] = IF c = b THEN 0 ELSE pending[c]
      BY <2>3 DEF Types
    <3>2. \A c \in Bar : Sent(c)' \subseteq Sent(c) \cup (IF c = b THEN {given[b] + 1} ELSE {})
      BY <1>2, <2>3, ProgressSends DEF Sent
    <3>. QED BY <1>1, <2>1, <2>2, <3>1, <3>2
  <2>4. CASE pending' = [pending EXCEPT ![b] = given[b] + 1] /\ Open' = Open
    <3>1. \A c \in Bar : pending'[c] = IF c = b THEN given[b] + 1 ELSE pending[c]
      BY <2>4 DEF Types
    <3>2. \A c \in Bar : Sent(c)' = Sent(c)
      BY <1>2, <2>4, ProgressSends DEF Sent
    <3>. QED BY <1>1, <2>1, <2>2, <3>1, <3>2
  <2>. QED BY <1>2, <2>3, <2>4, ProgressSends
<1>3. CASE Close
  <2>1. ASSUME NEW b \in Bar PROVE Sent(b)' \subseteq Sent(b) \cup {pending[b]}
    BY <1>3, CloseSends DEF Sent, Flushed
  <2>. QED BY <1>1, <1>3, <2>1, CloseSends
<1>4. ASSUME UNCHANGED <<given, pending>>, \A b \in Bar : Sent(b)' \subseteq Sent(b)
      PROVE  BelowInv'
  BY <1>4
<1>5. CASE Kill
  BY <1>4, <1>5, KillSends DEF Sent
<1>6. ASSUME NEW t \in Thread, Take(t) \/ SendFails(t) PROVE BelowInv'
  BY <1>4, <1>6, TakeSends, FailSends DEF Sent
<1>7. ASSUME NEW t \in Thread, SetProgressBar(t) PROVE BelowInv'
  <2>1. thread[t] = <<thread[t][1], thread[t][2]>> /\ thread[t] \in Open
    BY <1>7, HoldSends, OpenIsSends, SendIsPair
  <2>2. thread[t][2] \in Nat
    BY <2>1, OpenIsSends, SendIsPair
  <2>3. ASSUME NEW b \in Bar PROVE Sent(b)' \subseteq Sent(b)
    BY <1>7, <2>1, <2>2, HoldSends DEF Sent
  <2>. QED BY <1>4, <1>7, <2>3, HoldSends
<1>8. CASE UNCHANGED barVars
  BY <1>4, <1>8 DEF barVars, Sent, Open
<1>. QED BY <1>2, <1>3, <1>5, <1>6, <1>7, <1>8, OtherSteps DEF Next, Works

-----------------------------------------------------------------------------
(* No value is in two places.                                              *)

LEMMA AppendInjects ==
  ASSUME NEW S, NEW s \in Seq(S), IsInjective(s), NEW e \in S, e \notin Range(s)
  PROVE  IsInjective(Append(s, e))
<1>1. /\ Len(s) \in Nat /\ Append(s, e) \in Seq(S) /\ Len(Append(s, e)) = Len(s) + 1
      /\ \A i \in 1..Len(s) : Append(s, e)[i] = s[i]
      /\ Append(s, e)[Len(s) + 1] = e
  BY AppendProperties, LenProperties
<1>2. DOMAIN s = 1..Len(s) /\ DOMAIN Append(s, e) = 1..(Len(s) + 1)
  BY <1>1, LenProperties
<1>3. \A i \in 1..Len(s) : s[i] # e
  BY <1>2 DEF Range
<1>4. \A i \in 1..(Len(s) + 1) : i \in 1..Len(s) \/ i = Len(s) + 1
  BY <1>1
<1>5. \A i, j \in 1..Len(s) : s[i] = s[j] => i = j
  BY <1>2 DEF IsInjective
<1>. QED BY <1>1, <1>2, <1>3, <1>4, <1>5 DEF IsInjective

LEMMA TailInjects ==
  ASSUME NEW S, NEW s \in Seq(S), s # <<>>, IsInjective(s)
  PROVE  IsInjective(Tail(s)) /\ Head(s) \notin Range(Tail(s))
<1>1. /\ Len(s) \in Nat \ {0} /\ Tail(s) \in Seq(S) /\ Len(Tail(s)) = Len(s) - 1
      /\ \A i \in 1..Len(Tail(s)) : Tail(s)[i] = s[i + 1]
  BY EmptySeq, HeadTailProperties
<1>2. DOMAIN s = 1..Len(s) /\ DOMAIN Tail(s) = 1..Len(Tail(s)) /\ Head(s) = s[1]
  BY <1>1, LenProperties
<1>3. \A i \in 1..Len(Tail(s)) : i + 1 \in 1..Len(s) /\ i + 1 # 1 /\ i \in Int
  BY <1>1
<1>4. 1 \in 1..Len(s) /\ \A i, j \in 1..Len(s) : s[i] = s[j] => i = j
  BY <1>1, <1>2 DEF IsInjective
<1>5. IsInjective(Tail(s))
  BY <1>1, <1>2, <1>3, <1>4 DEF IsInjective
<1>6. Head(s) \notin Range(Tail(s))
  BY <1>1, <1>2, <1>3, <1>4 DEF Range
<1>. QED BY <1>5, <1>6

LEMMA ConcatInjects ==
  ASSUME NEW S, NEW s \in Seq(S), NEW r \in Seq(S), IsInjective(s), IsInjective(r),
         Range(s) \cap Range(r) = {}
  PROVE  IsInjective(s \o r)
<1> DEFINE q == s \o r
<1>1. /\ Len(s) \in Nat /\ Len(r) \in Nat /\ q \in Seq(S) /\ Len(q) = Len(s) + Len(r)
      /\ \A i \in 1..(Len(s) + Len(r)) :
           q[i] = IF i <= Len(s) THEN s[i] ELSE r[i - Len(s)]
  BY ConcatProperties, LenProperties
<1>2. DOMAIN s = 1..Len(s) /\ DOMAIN r = 1..Len(r) /\ DOMAIN q = 1..(Len(s) + Len(r))
  BY <1>1, LenProperties
<1>3. /\ \A i, j \in 1..Len(s) : s[i] = s[j] => i = j
      /\ \A i, j \in 1..Len(r) : r[i] = r[j] => i = j
  BY <1>2 DEF IsInjective
<1>4. \A i \in 1..Len(s), j \in 1..Len(r) : s[i] # r[j]
  BY <1>2 DEF Range
<1>5. ASSUME NEW i \in 1..(Len(s) + Len(r)), NEW j \in 1..(Len(s) + Len(r)), q[i] = q[j]
      PROVE  i = j
  <2>1. CASE i <= Len(s) /\ j <= Len(s)
    BY <1>1, <1>3, <1>5, <2>1
  <2>2. CASE ~(i <= Len(s)) /\ ~(j <= Len(s))
    <3>1. i - Len(s) \in 1..Len(r) /\ j - Len(s) \in 1..Len(r)
      BY <1>1, <2>2
    <3>. QED BY <1>1, <1>3, <1>5, <2>2, <3>1
  <2>3. CASE i <= Len(s) /\ ~(j <= Len(s))
    BY <1>1, <1>4, <1>5, <2>3
  <2>4. CASE ~(i <= Len(s)) /\ j <= Len(s)
    BY <1>1, <1>4, <1>5, <2>4
  <2>. QED BY <2>1, <2>2, <2>3, <2>4
<1>. QED BY <1>2, <1>5 DEF IsInjective

LEMMA OnceStep ==
  ASSUME Bounds, Types, BelowInv, OnceInv, [Next]_vars PROVE OnceInv'
<1>1. tasks \in Seq(Send) /\ Range(tasks) \subseteq Open
  BY DEF Types, Open
<1>2. \A t \in Thread : thread[t] # <<>> => thread[t] \in Open /\ thread[t] \in Send
  <2>1. \A t \in Thread : thread[t] \in Range(thread) /\ thread[t] \in Send \cup {<<>>}
    BY DEF Types, Range
  <2>2. ASSUME NEW t \in Thread, thread[t] # <<>>
        PROVE  thread[t] \in Open /\ thread[t] \in Send
    BY <2>1, <2>2 DEF Open
  <2>. QED BY <2>2
<1>3. \A b \in Bar : held[b] \in Seq(Nat \ {0}) /\ Range(held[b]) \subseteq Nat
  <2>1. \A b \in Bar : held[b] \in Seq(Nat \ {0})
    BY DEF Types
  <2>. QED BY <2>1, RangeOfSeq
<1>4. \A b \in Bar, v \in Nat : <<b, v>> \in Open \/ v \in Range(held[b]) => v \in Sent(b)
  BY DEF Sent
<1>5. ASSUME NEW b \in Bar, ProgressBar(b) PROVE OnceInv'
  <2>1. CASE tasks' = Append(tasks, <<b, given[b] + 1>>)
    <3> DEFINE e == <<b, given[b] + 1>>
    <3>1. e \notin Open /\ given[b] + 1 \notin Range(held[b])
      <4>1. given[b] + 1 \notin Sent(b) /\ given[b] + 1 \in Nat
        BY DEF BelowInv, Types
      <4>. QED BY <1>4, <4>1
    <3>2. e \in Send
      BY DEF Types, Send
    <3>3. IsInjective(tasks')
      BY <1>1, <2>1, <3>1, <3>2, AppendInjects DEF OnceInv
    <3>4. Range(tasks') = Range(tasks) \cup {e}
      BY <1>1, <2>1, <3>2, AppendRange
    <3>5. Open' = Open \cup {e} /\ UNCHANGED <<held, thread>>
      BY <1>5, <2>1, <3>4, ProgressSends DEF Open
    <3>6. \A t \in Thread : thread[t] \notin Range(tasks')
      BY <1>2, <3>1, <3>2, <3>4, SendIsPair DEF OnceInv
    <3>7. \A c \in Bar : \A v \in Range(held[c]) : <<c, v>> # e
      BY <3>1
    <3>. QED BY <3>3, <3>5, <3>6, <3>7 DEF OnceInv
  <2>2. CASE tasks' = tasks
    BY <1>5, <2>2, ProgressSends DEF OnceInv, Open
  <2>. QED BY <1>5, <2>1, <2>2, ProgressSends
<1>6. CASE Close
  <2>1. PICK r \in SetToSeqs(Flushed) : tasks' = tasks \o r
    BY <1>6 DEF Close, Flushed
  <2>2. /\ r \in Seq(Flushed) /\ r \in Seq(Send)
        /\ \A i, j \in 1..Len(r) : i # j => r[i] # r[j]
    BY FlushedFinite, FlushedSeq, SetAsSeq
  <2>3. IsInjective(r)
    <3>1. DOMAIN r = 1..Len(r)
      BY <2>2, LenProperties
    <3>. QED BY <2>2, <3>1 DEF IsInjective
  <2>4. Range(r) \subseteq Flushed
    BY <2>2, RangeOfSeq
  <2>5. ASSUME NEW b \in Bar, pending[b] # 0
        PROVE  <<b, pending[b]>> \notin Open /\ pending[b] \notin Range(held[b])
    <3>1. pending[b] \in Nat /\ pending[b] \notin Sent(b)
      BY <2>5 DEF BelowInv, Types
    <3>. QED BY <1>4, <3>1
  <2>6. Flushed \cap Open = {}
    BY <2>5 DEF Flushed
  <2>7. IsInjective(tasks')
    BY <1>1, <2>1, <2>2, <2>3, <2>4, <2>6, ConcatInjects DEF OnceInv
  <2>8. UNCHANGED <<held, thread>> /\ Open' = Open \cup Flushed
    BY <1>6, CloseSends
  <2>9. \A t \in Thread : thread[t] \notin Range(tasks')
    <3>1. Range(tasks') = Range(tasks) \cup Range(r)
      <4>1. Range(tasks \o r) = Range(tasks) \cup Range(r)
        BY <1>1, <2>2, RangeConcatenation, ZenonT(40)
      <4>. QED BY <2>1, <4>1
    <3>2. <<>> \notin Flushed
      BY FlushedFinite, SendIsPair
    <3>. QED BY <1>2, <2>4, <2>6, <3>1, <3>2 DEF OnceInv
  <2>10. \A b \in Bar : \A v \in Range(held[b]) : <<b, v>> \notin Flushed
    BY <2>5 DEF Flushed
  <2>. QED BY <2>7, <2>8, <2>9, <2>10 DEF OnceInv
<1>7. CASE Kill
  <2>1. IsInjective(<<>>) /\ Range(<<>>) = {}
    BY DEF IsInjective, Range
  <2>. QED BY <1>7, <2>1, KillSends DEF OnceInv
<1>8. ASSUME NEW t \in Thread, Take(t) PROVE OnceInv'
  <2>1. tasks # <<>> /\ tasks' = Tail(tasks) /\ Head(tasks) = tasks[1]
    BY <1>8 DEF Take
  <2>2. IsInjective(tasks') /\ Head(tasks) \notin Range(tasks')
    BY <1>1, <2>1, TailInjects DEF OnceInv
  <2>3. Range(tasks) = {Head(tasks)} \cup Range(tasks')
    BY <1>1, <2>1, TailRange
  <2>4. thread'[t] = Head(tasks) /\ \A u \in Thread \ {t} : thread'[u] = thread[u]
    BY <1>8, <2>1, TakeSends DEF Types
  <2>. QED BY <1>8, <2>2, <2>3, <2>4, TakeSends DEF OnceInv
<1>9. ASSUME NEW t \in Thread, SendFails(t) PROVE OnceInv'
  <2>1. thread'[t] = <<>> /\ \A u \in Thread \ {t} : thread'[u] = thread[u]
    BY <1>9, FailSends DEF Types
  <2>2. <<>> \notin Range(tasks)
    BY OpenIsSends, SendIsPair
  <2>. QED BY <1>9, <2>1, <2>2, FailSends DEF OnceInv
<1>10. ASSUME NEW t \in Thread, SetProgressBar(t) PROVE OnceInv'
  <2> DEFINE c == thread[t][1]
             v == thread[t][2]
  <2>1. thread'[t] = <<>> /\ \A u \in Thread \ {t} : thread'[u] = thread[u]
    BY <1>10, HoldSends DEF Types
  <2>2. <<>> \notin Range(tasks) /\ thread[t] = <<c, v>> /\ c \in Bar /\ v \in Nat \ {0}
    BY <1>10, HoldSends, OpenIsSends, SendIsPair
  <2>3. thread[t] \notin Open'
    <3>1. thread[t] \notin Range(tasks)
      BY DEF OnceInv
    <3>2. \A u \in Thread : thread'[u] # thread[t]
      BY <2>1, <2>2, SendIsPair DEF OnceInv
    <3>3. thread[t] \notin Range(thread')
      BY <1>10, <3>2, HoldSends DEF Range, Types
    <3>. QED BY <1>10, <3>1, <3>3, HoldSends DEF Open
  <2>4. v \notin Range(held[c])
    <3>1. <<c, v>> \in Open
      BY <1>10, <2>2, HoldSends
    <3>2. \A w \in Range(held[c]) : <<c, w>> \notin Open
      BY <2>2 DEF OnceInv
    <3>. QED BY <3>1, <3>2
  <2>5. held'[c] = Append(held[c], v)
    BY <1>10, <2>2 DEF SetProgressBar, Types
  <2>6. IsInjective(held'[c])
    BY <1>3, <2>2, <2>4, <2>5, AppendInjects DEF OnceInv
  <2>7. \A w \in Range(held'[c]) : <<c, w>> \notin Open'
    BY <1>10, <2>2, <2>3, HoldSends DEF OnceInv
  <2>8. \A b \in Bar \ {c} : /\ IsInjective(held'[b])
                           /\ \A w \in Range(held'[b]) : <<b, w>> \notin Open'
    BY <1>10, HoldSends DEF OnceInv
  <2>9. \A b \in Bar : /\ IsInjective(held'[b])
                     /\ \A w \in Range(held'[b]) : <<b, w>> \notin Open'
    BY <2>6, <2>7, <2>8
  <2>. QED BY <1>10, <2>1, <2>2, <2>9, HoldSends DEF OnceInv
<1>11. CASE UNCHANGED barVars
  BY <1>11 DEF barVars, OnceInv, Open
<1>. QED
  BY <1>5, <1>6, <1>7, <1>8, <1>9, <1>10, <1>11, OtherSteps DEF Next, Works

-----------------------------------------------------------------------------
(* The order.                                                              *)

LEMMA SentFacts ==
  ASSUME Types, NEW b \in Bar
  PROVE  /\ \A k \in 1..Len(held[b]) : held[b][k] \in Sent(b)
         /\ \A t \in Thread : Sends(t, b) => thread[t][2] \in Sent(b)
         /\ \A i \in 1..Len(tasks) : tasks[i][1] = b => tasks[i][2] \in Sent(b)
<1>1. ASSUME NEW k \in 1..Len(held[b]) PROVE held[b][k] \in Range(held[b])
  <2>1. DOMAIN held[b] = 1..Len(held[b])
    BY LenProperties DEF Types
  <2>. QED BY <2>1 DEF Range
<1>2. ASSUME NEW t \in Thread, Sends(t, b)
      PROVE  <<b, thread[t][2]>> \in Open /\ thread[t][2] \in Nat
  <2>1. thread[t] \in Range(thread) /\ thread[t] # <<>> /\ thread[t] \in Send
    BY <1>2 DEF Types, Range, Sends
  <2>2. thread[t] = <<b, thread[t][2]>> /\ thread[t][2] \in Nat
    BY <1>2, <2>1, SendIsPair DEF Sends
  <2>3. thread[t] \in Open
    BY <2>1 DEF Open
  <2>. QED BY <2>2, <2>3
<1>3. ASSUME NEW i \in 1..Len(tasks), tasks[i][1] = b
      PROVE  <<b, tasks[i][2]>> \in Open /\ tasks[i][2] \in Nat
  <2>1. DOMAIN tasks = 1..Len(tasks) /\ tasks[i] \in Send
    BY LenProperties, TypeFacts DEF Types
  <2>2. tasks[i] \in Open
    BY <2>1 DEF Range, Open
  <2>3. tasks[i] = <<b, tasks[i][2]>> /\ tasks[i][2] \in Nat
    BY <1>3, <2>1, SendIsPair
  <2>. QED BY <2>2, <2>3
<1>. QED BY <1>1, <1>2, <1>3 DEF Sent

\* What is appended to the queue is of other bars, or one value of b above all
\* that were sent.
LEMMA QueueInOrder ==
  ASSUME Types, NEW b \in Bar, InOrder(b), UNCHANGED <<held, thread>>,
         Len(tasks') \in Nat, \A i \in 1..Len(tasks) : tasks'[i] = tasks[i],
         NEW v \in Nat, \A w \in Sent(b) : w < v,
         \A i \in 1..Len(tasks') :
           i \notin 1..Len(tasks) /\ tasks'[i][1] = b => tasks'[i][2] = v,
         \A i, j \in 1..Len(tasks') :
           i < j /\ tasks'[i][1] = b /\ tasks'[j][1] = b => i \in 1..Len(tasks)
  PROVE  InOrder(b)'
<1>1. ASSUME NEW w \in Sent(b), NEW i \in 1..Len(tasks'),
             i \notin 1..Len(tasks), tasks'[i][1] = b
      PROVE  w < tasks'[i][2]
  BY <1>1
<1>2. \A i, j \in 1..Len(held[b]) : i < j => held'[b][i] < held'[b][j]
  BY DEF InOrder
<1>3. \A t, u \in Thread : Sends(t, b)' /\ Sends(u, b)' => t = u
  BY DEF InOrder, Sends
<1>4. ASSUME NEW t \in Thread, Sends(t, b)'
      PROVE  /\ \A k \in 1..Len(held'[b]) : held'[b][k] < thread'[t][2]
             /\ \A i \in 1..Len(tasks') : tasks'[i][1] = b => thread'[t][2] < tasks'[i][2]
  <2>1. Sends(t, b)
    BY <1>4 DEF Sends
  <2>2. ASSUME NEW i \in 1..Len(tasks'), tasks'[i][1] = b
        PROVE  thread[t][2] < tasks'[i][2]
    <3>1. CASE i \in 1..Len(tasks)
      BY <2>1, <2>2, <3>1 DEF InOrder
    <3>2. CASE i \notin 1..Len(tasks)
      BY <1>1, <2>1, <2>2, <3>2, SentFacts
    <3>. QED BY <3>1, <3>2
  <2>. QED BY <2>1, <2>2 DEF InOrder
<1>5. ASSUME NEW i \in 1..Len(tasks'), tasks'[i][1] = b
      PROVE  /\ \A k \in 1..Len(held'[b]) : held'[b][k] < tasks'[i][2]
             /\ \A j \in 1..Len(tasks') :
                  i < j /\ tasks'[j][1] = b => tasks'[i][2] < tasks'[j][2]
  <2>1. \A k \in 1..Len(held'[b]) : held'[b][k] < tasks'[i][2]
    <3>1. CASE i \in 1..Len(tasks)
      BY <1>5, <3>1 DEF InOrder
    <3>2. CASE i \notin 1..Len(tasks)
      BY <1>1, <1>5, <3>2, SentFacts
    <3>. QED BY <3>1, <3>2
  <2>2. ASSUME NEW j \in 1..Len(tasks'), i < j, tasks'[j][1] = b
        PROVE  tasks'[i][2] < tasks'[j][2]
    <3>1. i \in 1..Len(tasks)
      BY <1>5, <2>2
    <3>2. CASE j \in 1..Len(tasks)
      BY <1>5, <2>2, <3>1, <3>2 DEF InOrder
    <3>3. CASE j \notin 1..Len(tasks)
      BY <1>1, <1>5, <2>2, <3>1, <3>3, SentFacts
    <3>. QED BY <3>2, <3>3
  <2>. QED BY <2>1, <2>2
<1>. QED BY <1>2, <1>3, <1>4, <1>5 DEF InOrder

LEMMA ProgressInOrder ==
  ASSUME Types, BelowInv, NEW b \in Bar, InOrder(b), NEW c \in Bar, ProgressBar(c)
  PROVE  InOrder(b)'
<1>1. CASE tasks' = Append(tasks, <<c, given[c] + 1>>)
  <2>1. <<c, given[c] + 1>> \in Send
    BY DEF Types, Send
  <2>2. /\ Len(tasks') = Len(tasks) + 1
        /\ \A i \in 1..Len(tasks) : tasks'[i] = tasks[i]
        /\ tasks'[Len(tasks) + 1] = <<c, given[c] + 1>>
        /\ \A i \in 1..Len(tasks') : i \in 1..Len(tasks) \/ i = Len(tasks) + 1
    BY <1>1, <2>1, AppendTask
  <2>3. PICK v \in Nat : v = given[b] + 1
    BY DEF Types
  <2>4. \A w \in Sent(b) : w < v
    <3>1. given[b] \in Nat /\ \A w \in Sent(b) : w \in Nat /\ w <= given[b]
      BY SentIsNat DEF Types, BelowInv
    <3>. QED BY <2>3, <3>1
  <2>5. \A i, j \in 1..Len(tasks') :
          i < j /\ tasks'[i][1] = b /\ tasks'[j][1] = b => i \in 1..Len(tasks)
    BY <2>2, TypeFacts
  <2>6. \A i \in 1..Len(tasks') :
          i \notin 1..Len(tasks) /\ tasks'[i][1] = b => tasks'[i][2] = v
    BY <2>2, <2>3
  <2>7. Len(tasks') \in Nat /\ \A i \in 1..Len(tasks) : tasks'[i] = tasks[i]
    BY <2>2, TypeFacts
  <2>8. UNCHANGED <<held, thread>>
    BY ProgressSends
  <2>. QED BY <2>4, <2>5, <2>6, <2>7, <2>8, QueueInOrder
<1>2. CASE tasks' = tasks
  <2>1. UNCHANGED <<held, thread, tasks>>
    BY <1>2, ProgressSends
  <2>. QED BY <2>1 DEF InOrder, Sends
<1>. QED BY <1>1, <1>2, ProgressSends

LEMMA CloseInOrder ==
  ASSUME Bounds, Types, BelowInv, NEW b \in Bar, InOrder(b), Close
  PROVE  InOrder(b)'
<1>1. PICK s \in Seq(Send) :
         /\ Len(s) \in Nat /\ Len(tasks') = Len(tasks) + Len(s)
         /\ \A i \in 1..Len(tasks) : tasks'[i] = tasks[i]
         /\ \A i \in 1..Len(tasks') :
              i \in 1..Len(tasks) \/ i - Len(tasks) \in 1..Len(s)
         /\ \A i \in 1..Len(s) : tasks'[i + Len(tasks)] = s[i]
         /\ \A i \in 1..Len(s) :
              \E c \in Bar : s[i] = <<c, pending[c]>> /\ pending[c] # 0
         /\ \A i, j \in 1..Len(s) : i # j => s[i][1] # s[j][1]
  BY FlushTasks
<1>2. Len(tasks) \in Nat /\ Len(tasks') \in Nat
  BY <1>1, TypeFacts
<1>3. ASSUME NEW i \in 1..Len(tasks'), i \notin 1..Len(tasks)
      PROVE  i - Len(tasks) \in 1..Len(s) /\ tasks'[i] = s[i - Len(tasks)]
  <2>1. (i - Len(tasks)) + Len(tasks) = i
    BY <1>2
  <2>. QED BY <1>1, <1>3, <2>1
<1>4. ASSUME NEW i \in 1..Len(tasks'), i \notin 1..Len(tasks), tasks'[i][1] = b
      PROVE  tasks'[i][2] = pending[b] /\ pending[b] # 0
  <2>1. PICK c \in Bar : s[i - Len(tasks)] = <<c, pending[c]>> /\ pending[c] # 0
    BY <1>1, <1>3, <1>4
  <2>. QED BY <1>3, <1>4, <2>1
<1>5. ASSUME NEW i \in 1..Len(tasks'), NEW j \in 1..Len(tasks'),
             i < j, tasks'[i][1] = b, tasks'[j][1] = b
      PROVE  i \in 1..Len(tasks)
  <2> SUFFICES ASSUME i \notin 1..Len(tasks) PROVE FALSE
    OBVIOUS
  <2>1. j \notin 1..Len(tasks) /\ i - Len(tasks) # j - Len(tasks)
    BY <1>2, <1>5
  <2>2. /\ i - Len(tasks) \in 1..Len(s) /\ tasks'[i] = s[i - Len(tasks)]
        /\ j - Len(tasks) \in 1..Len(s) /\ tasks'[j] = s[j - Len(tasks)]
    BY <1>3, <2>1
  <2>3. s[i - Len(tasks)][1] # s[j - Len(tasks)][1]
    BY <1>1, <2>1, <2>2
  <2>. QED BY <1>5, <2>2, <2>3
<1>6. UNCHANGED <<held, thread>>
  BY CloseSends
<1>7. /\ pending[b] \in Nat /\ given[b] + 1 \in Nat
      /\ \A w \in Sent(b) : w < given[b] + 1 /\ (pending[b] # 0 => w < pending[b])
  BY SentIsNat DEF Types, BelowInv
<1>8. CASE pending[b] # 0
  <2>1. \A w \in Sent(b) : w < pending[b]
    BY <1>7, <1>8
  <2>2. \A i \in 1..Len(tasks') :
          i \notin 1..Len(tasks) /\ tasks'[i][1] = b => tasks'[i][2] = pending[b]
    BY <1>4
  <2>. QED BY <1>1, <1>2, <1>5, <1>6, <1>7, <2>1, <2>2, QueueInOrder
<1>9. CASE pending[b] = 0
  <2>1. \A i \in 1..Len(tasks') :
          i \notin 1..Len(tasks) /\ tasks'[i][1] = b => tasks'[i][2] = given[b] + 1
    BY <1>4, <1>9
  <2>. QED BY <1>1, <1>2, <1>5, <1>6, <1>7, <2>1, QueueInOrder
<1>. QED BY <1>8, <1>9

LEMMA TakeInOrder ==
  ASSUME Types, NEW t \in Thread, Take(t), NEW b \in Bar \ crossed', b \notin crossed => InOrder(b)
  PROVE  InOrder(b)'
<1>1. /\ tasks # <<>> /\ tasks' = Tail(tasks)
      /\ crossed' = crossed \cup {c \in Bar : c = Head(tasks)[1] /\
                      \E u \in Thread : thread[u] # <<>> /\ thread[u][1] = c}
  BY DEF Take
<1>2. InOrder(b) /\ (tasks[1][1] = b => \A u \in Thread : ~Sends(u, b))
  BY <1>1, TakeTask DEF Sends
<1>3. /\ 1 \in 1..Len(tasks) /\ Len(tasks') = Len(tasks) - 1
      /\ \A i \in 1..Len(tasks') : i + 1 \in 1..Len(tasks) /\ tasks'[i] = tasks[i + 1]
  BY <1>1, TakeTask
<1>4. /\ UNCHANGED held /\ thread[t] = <<>> /\ thread'[t] = tasks[1]
      /\ \A u \in Thread \ {t} : thread'[u] = thread[u]
  BY TakeSends DEF Types
<1>5. \A i \in 1..Len(tasks') : 1 < i + 1 /\ i \in Int
  BY <1>3, TypeFacts
<1>6. \A u \in Thread : Sends(u, b)' => Sends(u, b) \/ (u = t /\ tasks[1][1] = b)
  BY <1>4 DEF Sends
<1>7. \A u, w \in Thread : Sends(u, b)' /\ Sends(w, b)' => u = w
  BY <1>2, <1>6 DEF InOrder
<1>8. ASSUME NEW u \in Thread, Sends(u, b)'
      PROVE  /\ \A k \in 1..Len(held[b]) : held[b][k] < thread'[u][2]
             /\ \A i \in 1..Len(tasks') : tasks'[i][1] = b => thread'[u][2] < tasks'[i][2]
  <2>1. CASE Sends(u, b)
    <3>1. u # t
      BY <1>4, <2>1 DEF Sends
    <3>. QED BY <1>2, <1>3, <1>4, <2>1, <3>1 DEF InOrder
  <2>2. CASE u = t /\ tasks[1][1] = b
    BY <1>2, <1>3, <1>4, <1>5, <2>2 DEF InOrder
  <2>. QED BY <1>6, <1>8, <2>1, <2>2
<1>9. ASSUME NEW i \in 1..Len(tasks'), tasks'[i][1] = b
      PROVE  /\ \A k \in 1..Len(held[b]) : held[b][k] < tasks'[i][2]
             /\ \A j \in 1..Len(tasks') :
                  i < j /\ tasks'[j][1] = b => tasks'[i][2] < tasks'[j][2]
  <2>1. i + 1 \in 1..Len(tasks) /\ tasks[i + 1][1] = b /\ tasks'[i] = tasks[i + 1]
    BY <1>3, <1>9
  <2>2. ASSUME NEW j \in 1..Len(tasks'), i < j, tasks'[j][1] = b
        PROVE  tasks'[i][2] < tasks'[j][2]
    <3>1. /\ j + 1 \in 1..Len(tasks) /\ i + 1 < j + 1
          /\ tasks[j + 1][1] = b /\ tasks'[j] = tasks[j + 1]
      BY <1>3, <1>5, <2>2
    <3>. QED BY <1>2, <2>1, <3>1 DEF InOrder
  <2>. QED BY <1>2, <2>1, <2>2 DEF InOrder
<1>. QED BY <1>2, <1>4, <1>7, <1>8, <1>9 DEF InOrder

LEMMA FailInOrder ==
  ASSUME Types, NEW b \in Bar, InOrder(b), UNCHANGED <<held, tasks>>,
         NEW t \in Thread, thread' = [thread EXCEPT ![t] = <<>>]
  PROVE  InOrder(b)'
<1>1. thread'[t] = <<>> /\ \A u \in Thread \ {t} : thread'[u] = thread[u]
  BY DEF Types
<1>2. \A u \in Thread : Sends(u, b)' => Sends(u, b) /\ u # t
  BY <1>1 DEF Sends
<1>. QED BY <1>1, <1>2 DEF InOrder

LEMMA HoldInOrder ==
  ASSUME Types, NEW b \in Bar, InOrder(b), NEW t \in Thread, SetProgressBar(t)
  PROVE  InOrder(b)'
<1> DEFINE c == thread[t][1]
           v == thread[t][2]
<1>1. /\ UNCHANGED tasks /\ thread' = [thread EXCEPT ![t] = <<>>] /\ thread[t] # <<>>
      /\ \A d \in Bar \ {c} : held'[d] = held[d]
  BY HoldSends DEF SetProgressBar
<1>2. CASE b # c
  <2>1. held'[b] = held[b]
    BY <1>1, <1>2
  <2>2. thread'[t] = <<>> /\ \A u \in Thread \ {t} : thread'[u] = thread[u]
    BY <1>1 DEF Types
  <2>3. \A u \in Thread : Sends(u, b)' => Sends(u, b) /\ u # t
    BY <2>2 DEF Sends
  <2>. QED BY <1>1, <2>1, <2>2, <2>3 DEF InOrder
<1>3. CASE b = c
  <2>1. /\ Len(held[b]) \in Nat /\ Len(held'[b]) = Len(held[b]) + 1
        /\ \A k \in 1..Len(held[b]) : held'[b][k] = held[b][k]
        /\ held'[b][Len(held[b]) + 1] = v
        /\ \A k \in 1..Len(held'[b]) : k \in 1..Len(held[b]) \/ k = Len(held[b]) + 1
    BY <1>3, HoldBar
  <2>2. Sends(t, b)
    BY <1>1, <1>3 DEF Sends
  <2>3. \A u \in Thread : ~Sends(u, b)'
    <3>1. thread'[t] = <<>> /\ \A u \in Thread \ {t} : thread'[u] = thread[u]
      BY <1>1 DEF Types
    <3>. QED BY <2>2, <3>1 DEF InOrder, Sends
  <2>4. /\ \A k \in 1..Len(held[b]) : held[b][k] < v
        /\ \A i \in 1..Len(tasks) : tasks[i][1] = b => v < tasks[i][2]
    BY <2>2 DEF InOrder
  <2>5. \A i, j \in 1..Len(held'[b]) : i < j => held'[b][i] < held'[b][j]
    <3> SUFFICES ASSUME NEW i \in 1..Len(held'[b]), NEW j \in 1..Len(held'[b]), i < j
                 PROVE  held'[b][i] < held'[b][j]
      OBVIOUS
    <3>1. i \in 1..Len(held[b])
      BY <2>1
    <3>. QED BY <2>1, <2>4, <3>1 DEF InOrder
  <2>6. \A i \in 1..Len(tasks) : tasks[i][1] = b =>
          \A k \in 1..Len(held'[b]) : held'[b][k] < tasks[i][2]
    BY <2>1, <2>4 DEF InOrder
  <2>. QED BY <1>1, <2>3, <2>5, <2>6 DEF InOrder
<1>. QED BY <1>2, <1>3

LEMMA OrderStep ==
  ASSUME Bounds, Types, BelowInv, OrderInv, [Next]_vars PROVE OrderInv'
<1>1. ASSUME NEW b \in Bar, ProgressBar(b) PROVE OrderInv'
  <2>1. UNCHANGED <<push, thread, crossed>>
    BY <1>1 DEF ProgressBar
  <2>. QED BY <1>1, <2>1, ProgressInOrder DEF OrderInv
<1>2. CASE Close
  <2>1. UNCHANGED <<push, thread, crossed>>
    BY <1>2 DEF Close
  <2>. QED BY <1>2, <2>1, CloseInOrder DEF OrderInv
<1>3. CASE Kill
  <2>1. UNCHANGED <<push, thread, crossed, held>> /\ Len(tasks') = 0
    BY <1>3, EmptySeq DEF Kill, brokerVars
  <2>. QED BY <2>1 DEF OrderInv, InOrder, Sends
<1>4. ASSUME NEW t \in Thread, Take(t) PROVE OrderInv'
  <2>1. \A b \in Bar \ crossed' : InOrder(b)'
    BY <1>4, TakeInOrder DEF OrderInv
  <2>2. ASSUME push' = "open" PROVE thread'["first"] = <<>> /\ crossed' = {}
    <3>1. push = "open" /\ thread[t] = <<>> /\ t # "first"
      BY <1>4, <2>2 DEF Take, Free
    <3>2. \A u \in Thread : thread[u] = <<>>
      BY <3>1 DEF OrderInv, Thread
    <3>3. crossed' = crossed
      BY <1>4, <3>2 DEF Take
    <3>4. thread'["first"] = thread["first"]
      BY <1>4, <3>1 DEF Take, Types, Thread
    <3>. QED BY <3>1, <3>3, <3>4 DEF OrderInv
  <2>. QED BY <2>1, <2>2 DEF OrderInv
<1>5. ASSUME NEW t \in Thread, SendFails(t) PROVE OrderInv'
  <2>1. UNCHANGED <<push, crossed>> /\ (thread["first"] = <<>> => thread'["first"] = <<>>)
    BY <1>5 DEF SendFails, Types, Thread
  <2>. QED BY <1>5, <2>1, FailSends, FailInOrder DEF OrderInv
<1>6. ASSUME NEW t \in Thread, SetProgressBar(t) PROVE OrderInv'
  <2>1. UNCHANGED <<push, crossed>> /\ (thread["first"] = <<>> => thread'["first"] = <<>>)
    BY <1>6 DEF SetProgressBar, Types, Thread
  <2>. QED BY <1>6, <2>1, HoldInOrder DEF OrderInv
<1>7. ASSUME UNCHANGED barVars, push' = "open" => push = "open" PROVE OrderInv'
  BY <1>7 DEF barVars, OrderInv, InOrder, Sends
<1>8. ASSUME \/ EndPush \/ BreakPush \/ Join
             \/ \E b \in Bar : Elapse(b)
             \/ Handler \/ Unsubscribe \/ ReceiveBar \/ EndReceive
             \/ UNCHANGED vars
      PROVE  OrderInv'
  <2>1. push' = "open" => push = "open"
    BY <1>8 DEF EndPush, BreakPush, Join, Elapse, Handler, Register, YieldBar,
       CopyDirty, Unsubscribe, ReceiveBar, EndReceive, vars, poolVars
  <2>. QED BY <1>7, <1>8, <2>1, OtherSteps
<1>. QED BY <1>1, <1>2, <1>3, <1>4, <1>5, <1>6, <1>8 DEF Next, Works

-----------------------------------------------------------------------------
(* The last value.                                                         *)

LEMMA KeptStep ==
  ASSUME Bounds, Types, KeptInv, [Next]_vars PROVE KeptInv'
<1>1. \A b \in Bar : given[b] \in Nat /\ pending[b] \in Nat
  BY DEF Types
<1>2. ASSUME NEW b \in Bar, ProgressBar(b) PROVE KeptInv'
  <2>1. proc = "run" /\ proc' = "run" /\ UNCHANGED <<failed, held>>
    BY <1>2 DEF ProgressBar, brokerVars
  <2>2. \A c \in Bar : given'[c] = IF c = b THEN given[b] + 1 ELSE given[c]
    BY <1>2, ProgressSends DEF Types
  <2>3. CASE /\ pending' = [pending EXCEPT ![b] = 0]
             /\ Open' = Open \cup {<<b, given[b] + 1>>}
    <3>1. \A c \in Bar \ {b} : pending'[c] = pending[c] /\ Sent(c) \subseteq Sent(c)'
      BY <2>1, <2>3 DEF Sent, Types
    <3>2. given'[b] \in Sent(b)'
      BY <1>1, <2>2, <2>3 DEF Sent
    <3>. QED BY <2>1, <2>2, <3>1, <3>2 DEF KeptInv, Newest
  <2>4. CASE pending' = [pending EXCEPT ![b] = given[b] + 1] /\ Open' = Open
    <3>1. \A c \in Bar : pending'[c] = IF c = b THEN given[b] + 1 ELSE pending[c]
      BY <2>4 DEF Types
    <3>2. \A c \in Bar : Sent(c)' = Sent(c)
      BY <2>1, <2>4 DEF Sent
    <3>. QED BY <2>1, <2>2, <3>1, <3>2 DEF KeptInv, Newest
  <2>. QED BY <1>2, <2>3, <2>4, ProgressSends
<1>3. CASE Close
  <2>1. /\ proc = "run" /\ proc' = "closing" /\ UNCHANGED <<failed, held, given>>
        /\ pending' = [b \in Bar |-> 0] /\ Open' = Open \cup Flushed
    BY <1>3, CloseSends DEF Close
  <2>2. ASSUME NEW b \in Bar, Newest(b) PROVE Newest(b)'
    <3>1. CASE pending[b] = given[b] /\ given[b] # 0
      <4>1. <<b, given[b]>> \in Flushed
        BY <3>1 DEF Flushed
      <4>. QED BY <1>1, <2>1, <4>1 DEF Newest, Sent
    <3>2. CASE given[b] \in Sent(b) \/ given[b] = 0
      BY <2>1, <3>2 DEF Newest, Sent
    <3>. QED BY <2>2, <3>1, <3>2 DEF Newest
  <2>. QED BY <2>1, <2>2 DEF KeptInv
<1>4. CASE Kill
  <2>1. proc' = "killed"
    BY <1>4 DEF Kill
  <2>. QED BY <2>1 DEF KeptInv
<1>5. ASSUME UNCHANGED <<given, pending, proc>>, proc # "closed",
             \A b \in Bar \ failed' : b \notin failed /\ Sent(b) \subseteq Sent(b)'
      PROVE  KeptInv'
  <2>1. \A b \in Bar \ failed' : Newest(b) => Newest(b)'
    BY <1>5 DEF Newest
  <2>. QED BY <1>5, <2>1 DEF KeptInv
<1>6. ASSUME NEW t \in Thread, Take(t) PROVE KeptInv'
  <2>1. proc # "closed" /\ UNCHANGED proc
    BY <1>6 DEF Take, KeptInv, Idle, workVars
  <2>. QED BY <1>5, <1>6, <2>1, TakeSends DEF Sent
<1>7. ASSUME NEW t \in Thread, SendFails(t) PROVE KeptInv'
  <2>1. proc # "closed" /\ UNCHANGED proc
    BY <1>7 DEF SendFails, KeptInv, Idle, workVars
  <2>2. \A b \in Bar, v \in Nat : b \notin failed' => <<b, v>> # thread[t]
    BY <1>7, FailSends
  <2>3. \A b \in Bar \ failed' : b \notin failed /\ Sent(b) \subseteq Sent(b)'
    BY <1>7, <2>2, FailSends DEF Sent
  <2>. QED BY <1>5, <1>7, <2>1, <2>3, FailSends
<1>8. ASSUME NEW t \in Thread, SetProgressBar(t) PROVE KeptInv'
  <2>1. proc # "closed" /\ UNCHANGED <<proc, failed>>
    BY <1>8 DEF SetProgressBar, KeptInv, Idle, workVars
  <2> DEFINE v == thread[t][2]
  <2>0. PICK c \in Bar : c = thread[t][1]
    BY <1>8, HoldBar
  <2>2. \A b \in Bar \ {c} : Sent(b) \subseteq Sent(b)'
    <3>1. \A b \in Bar \ {c}, w \in Nat : <<b, w>> # thread[t]
      BY <2>0
    <3>. QED BY <1>8, <2>0, <3>1, HoldSends DEF Sent
  <2>3. Sent(c) \subseteq Sent(c)'
    <3>1. ASSUME NEW w \in Nat, <<c, w>> \in Open, <<c, w>> \notin Open'
          PROVE  w \in Range(held'[c])
      <4>1. <<c, w>> = thread[t]
        BY <1>8, <3>1, HoldSends
      <4>2. w = v
        BY <4>1
      <4>. QED BY <1>8, <2>0, <4>2, HoldSends
    <3>2. Range(held[c]) \subseteq Range(held'[c])
      BY <1>8, <2>0, HoldSends
    <3>. QED BY <3>1, <3>2 DEF Sent
  <2>. QED BY <1>5, <1>8, <2>1, <2>2, <2>3, HoldSends
<1>9. CASE Join
  <2>1. UNCHANGED barVars
    BY <1>9, OtherSteps
  <2>2. \A b \in Bar : Newest(b)' <=> Newest(b)
    BY <2>1 DEF barVars, Newest, Sent, Open
  <2>3. proc = "closing" /\ proc' # "killed"
    BY <1>9 DEF Join
  <2>4. proc' = "closed" => Idle'
    BY <1>9, <2>1 DEF Join, Idle, barVars
  <2>. QED BY <2>1, <2>2, <2>3, <2>4 DEF KeptInv, barVars
<1>10. ASSUME UNCHANGED barVars, UNCHANGED proc PROVE KeptInv'
  BY <1>10 DEF barVars, KeptInv, Newest, Sent, Open, Idle
<1>11. ASSUME \/ EndPush \/ BreakPush
              \/ \E b \in Bar : Elapse(b)
              \/ Handler \/ Unsubscribe \/ ReceiveBar \/ EndReceive
              \/ UNCHANGED vars
       PROVE  KeptInv'
  <2>1. UNCHANGED proc
    BY <1>11 DEF EndPush, BreakPush, Elapse, Handler, Register, YieldBar,
       CopyDirty, Unsubscribe, ReceiveBar, EndReceive, vars, workVars
  <2>. QED BY <1>10, <1>11, <2>1, OtherSteps
<1>. QED
  BY <1>2, <1>3, <1>4, <1>6, <1>7, <1>8, <1>9, <1>11 DEF Next, Works

-----------------------------------------------------------------------------
(* The way to the log.                                                     *)

\* A step that leaves the copies and the log alone only lets held grow.
LEMMA HeldGrows ==
  ASSUME SampleInv, Types, UNCHANGED <<batch, net, shown>>,
         \A b \in Bar : Len(held'[b]) \in Nat /\ Len(held[b]) <= Len(held'[b])
  PROVE  SampleInv'
<1>1. /\ \A b \in Bar : shown[b] \in Nat /\ Len(held[b]) \in Nat
      /\ \A e \in batch : e[1] \in Bar /\ e[2] \in Nat
      /\ \A i \in 1..Len(net) : net[i][1] \in Bar /\ net[i][2] \in Nat
  BY TypeFacts, SendIsPair DEF Types
<1>2. \A b \in Bar : \A n \in Nat : n <= Len(held[b]) => n <= Len(held'[b])
  BY <1>1
<1>3. \A b \in Bar : shown[b] <= Len(held'[b])
  BY <1>1, <1>2 DEF SampleInv
<1>4. \A e \in batch : e[2] <= Len(held'[e[1]])
  BY <1>1, <1>2 DEF SampleInv
<1>5. \A i \in 1..Len(net) : net[i][2] <= Len(held'[net[i][1]])
  BY <1>1, <1>2 DEF SampleInv
<1>. QED BY <1>3, <1>4, <1>5 DEF SampleInv

\* A copy of the bars, at the time when it is made.
LEMMA Copied ==
  ASSUME Types, SampleInv, NEW B \in SUBSET Bar, batch' = Stored(B),
         UNCHANGED <<held, net, shown>>
  PROVE  SampleInv'
<1>1. \A e \in Stored(B) : /\ e[1] \in B /\ e[2] = Len(held[e[1]])
                           /\ e = <<e[1], Len(held[e[1]])>>
  BY DEF Stored
<1>2. /\ \A b \in Bar : shown[b] \in Nat /\ Len(held[b]) \in Nat
      /\ \A i \in 1..Len(net) : net[i][1] \in Bar /\ net[i][2] \in Nat
  BY TypeFacts DEF Types
<1>3. ASSUME NEW e \in Stored(B)
      PROVE  /\ shown[e[1]] <= e[2] /\ e[2] <= Len(held[e[1]])
             /\ \A f \in Stored(B) : e[1] = f[1] => e = f
             /\ \A i \in 1..Len(net) : net[i][1] = e[1] => net[i][2] <= e[2]
  BY <1>1, <1>2 DEF SampleInv
<1>. QED BY <1>3 DEF SampleInv

LEMMA SampleStep ==
  ASSUME Types, SampleInv, [Next]_vars PROVE SampleInv'
<1>1. /\ \A b \in Bar : shown[b] \in Nat /\ Len(held[b]) \in Nat
      /\ \A e \in batch : e[1] \in Bar /\ e[2] \in Nat
      /\ \A i \in 1..Len(net) : net[i][1] \in Bar /\ net[i][2] \in Nat
      /\ Len(net) \in Nat
  BY TypeFacts, SendIsPair DEF Types
<1>2. CASE Register
  BY <1>2, Copied DEF Register, daemonVars
<1>3. CASE CopyDirty
  BY <1>3, Copied DEF CopyDirty, daemonVars, Types
<1>4. CASE YieldBar
  <2>1. PICK e \in batch : /\ net' = IF receiving THEN Append(net, e) ELSE net
                           /\ batch' = batch \ {e}
    BY <1>4 DEF YieldBar
  <2>2. UNCHANGED <<held, shown>>
    BY <1>4 DEF YieldBar
  <2>3. CASE net' = Append(net, e)
    <3>1. /\ Len(net') = Len(net) + 1
          /\ \A i \in 1..Len(net) : net'[i] = net[i]
          /\ net'[Len(net) + 1] = e
          /\ \A i \in 1..Len(net') : i \in 1..Len(net) \/ i = Len(net) + 1
      <4>1. net \in Seq(Send) /\ e \in Send
        BY <2>1 DEF Types
      <4>. QED BY <1>1, <2>3, <4>1, AppendProperties
    <3>2. \A f \in batch' : f \in batch /\ f[1] # e[1]
      BY <2>1 DEF SampleInv
    <3>3. ASSUME NEW f \in batch'
          PROVE  /\ shown[f[1]] <= f[2] /\ f[2] <= Len(held[f[1]])
                 /\ \A g \in batch' : f[1] = g[1] => f = g
                 /\ \A i \in 1..Len(net') : net'[i][1] = f[1] => net'[i][2] <= f[2]
      BY <3>1, <3>2 DEF SampleInv
    <3>4. ASSUME NEW i \in 1..Len(net')
          PROVE  /\ shown[net'[i][1]] <= net'[i][2] /\ net'[i][2] <= Len(held[net'[i][1]])
                 /\ \A j \in 1..Len(net') :
                      i < j /\ net'[i][1] = net'[j][1] => net'[i][2] <= net'[j][2]
      <4>1. CASE i \in 1..Len(net)
        <5>1. net'[i] = net[i] /\ shown[net[i][1]] <= net[i][2] /\ net[i][2] <= Len(held[net[i][1]])
          BY <3>1, <4>1 DEF SampleInv
        <5>2. ASSUME NEW j \in 1..Len(net'), i < j, net[i][1] = net'[j][1]
              PROVE  net[i][2] <= net'[j][2]
          <6>1. CASE j \in 1..Len(net)
            BY <3>1, <4>1, <5>2, <6>1 DEF SampleInv
          <6>2. CASE j = Len(net) + 1
            BY <2>1, <3>1, <4>1, <5>2, <6>2 DEF SampleInv
          <6>. QED BY <3>1, <6>1, <6>2
        <5>. QED BY <5>1, <5>2
      <4>2. CASE i = Len(net) + 1
        <5>1. \A j \in 1..Len(net') : ~(i < j)
          BY <1>1, <3>1, <4>2
        <5>2. net'[i] = e /\ shown[e[1]] <= e[2] /\ e[2] <= Len(held[e[1]])
          BY <2>1, <3>1, <4>2 DEF SampleInv
        <5>. QED BY <5>1, <5>2
      <4>. QED BY <3>1, <4>1, <4>2
    <3>. QED BY <2>2, <3>3, <3>4 DEF SampleInv
  <2>4. CASE net' = net
    BY <2>1, <2>2, <2>4 DEF SampleInv
  <2>. QED BY <2>1, <2>3, <2>4
<1>5. CASE Unsubscribe
  BY <1>5 DEF Unsubscribe, SampleInv, daemonVars
<1>6. CASE EndReceive
  <2>1. UNCHANGED <<held, batch, shown>> /\ Len(net') = 0
    BY <1>6, EmptySeq DEF EndReceive, brokerVars
  <2>. QED BY <2>1 DEF SampleInv
<1>7. CASE ReceiveBar
  <2>1. /\ net # <<>> /\ net' = Tail(net) /\ UNCHANGED <<held, batch>>
        /\ shown' = [shown EXCEPT ![Head(net)[1]] = Head(net)[2]]
    BY <1>7 DEF ReceiveBar, brokerVars
  <2>2. /\ 1 \in 1..Len(net) /\ Head(net) = net[1]
        /\ Len(net') = Len(net) - 1
        /\ \A i \in 1..Len(net') : i + 1 \in 1..Len(net) /\ 1 < i + 1 /\ net'[i] = net[i + 1]
    <3>1. Len(net) \in Nat \ {0} /\ Head(net) = net[1]
      BY <2>1, EmptySeq DEF Types
    <3>2. Len(net') = Len(net) - 1 /\ \A i \in 1..Len(net') : net'[i] = net[i + 1]
      BY <2>1, HeadTailProperties DEF Types
    <3>. QED BY <3>1, <3>2
  <2>3. \A b \in Bar : shown'[b] = IF b = net[1][1] THEN net[1][2] ELSE shown[b]
    BY <2>1, <2>2 DEF Types
  <2>4. \A b \in Bar : shown'[b] <= Len(held[b])
    BY <1>1, <2>2, <2>3 DEF SampleInv
  <2>5. ASSUME NEW e \in batch
        PROVE  /\ shown'[e[1]] <= e[2]
               /\ \A i \in 1..Len(net') : net'[i][1] = e[1] => net'[i][2] <= e[2]
    <3>1. e[1] \in Bar
      BY <1>1
    <3>2. shown'[e[1]] <= e[2]
      BY <2>2, <2>3, <3>1 DEF SampleInv
    <3>3. \A i \in 1..Len(net') : net'[i][1] = e[1] => net'[i][2] <= e[2]
      BY <2>2 DEF SampleInv
    <3>. QED BY <3>2, <3>3
  <2>6. ASSUME NEW i \in 1..Len(net')
        PROVE  /\ shown'[net'[i][1]] <= net'[i][2] /\ net'[i][2] <= Len(held[net'[i][1]])
               /\ \A j \in 1..Len(net') :
                    i < j /\ net'[i][1] = net'[j][1] => net'[i][2] <= net'[j][2]
    <3>1. net'[i][1] \in Bar /\ net'[i][2] <= Len(held[net'[i][1]])
      BY <1>1, <2>2 DEF SampleInv
    <3>2. shown'[net'[i][1]] <= net'[i][2]
      <4>1. net'[i] = net[i + 1] /\ i + 1 \in 1..Len(net) /\ 1 < i + 1
        BY <2>2
      <4>2. shown[net[i + 1][1]] <= net[i + 1][2]
        BY <4>1 DEF SampleInv
      <4>3. net[1][1] = net[i + 1][1] => net[1][2] <= net[i + 1][2]
        BY <2>2, <4>1 DEF SampleInv
      <4>. QED BY <2>3, <3>1, <4>1, <4>2, <4>3
    <3>3. ASSUME NEW j \in 1..Len(net'), i < j, net'[i][1] = net'[j][1]
          PROVE  net'[i][2] <= net'[j][2]
      <4>1. /\ i + 1 \in 1..Len(net) /\ j + 1 \in 1..Len(net) /\ i + 1 < j + 1
            /\ net'[i] = net[i + 1] /\ net'[j] = net[j + 1]
        BY <1>1, <2>2, <3>3
      <4>2. net[i + 1][1] = net[j + 1][1] => net[i + 1][2] <= net[j + 1][2]
        BY <4>1 DEF SampleInv
      <4>. QED BY <3>3, <4>1, <4>2
    <3>. QED BY <3>1, <3>2, <3>3
  <2>. QED BY <2>1, <2>4, <2>5, <2>6 DEF SampleInv
<1>8. ASSUME NEW t \in Thread, SetProgressBar(t) PROVE SampleInv'
  <2>1. ASSUME NEW b \in Bar
        PROVE  Len(held'[b]) \in Nat /\ Len(held[b]) <= Len(held'[b])
    <3>1. CASE b = thread[t][1]
      BY <1>8, <3>1, HoldBar
    <3>2. CASE b # thread[t][1]
      BY <1>1, <1>8, <3>2, HoldBar
    <3>. QED BY <3>1, <3>2
  <2>2. UNCHANGED <<batch, net, shown>>
    BY <1>8 DEF SetProgressBar, daemonVars
  <2>. QED BY <2>1, <2>2, HeldGrows
<1>9. ASSUME UNCHANGED <<batch, net, shown, held>> PROVE SampleInv'
  BY <1>9 DEF SampleInv
<1>10. ASSUME \/ \E b \in Bar : ProgressBar(b) \/ Elapse(b)
              \/ Close \/ EndPush \/ BreakPush \/ Join \/ Kill
              \/ \E t \in Thread : Take(t) \/ SendFails(t)
              \/ UNCHANGED vars
       PROVE  SampleInv'
  BY <1>9, <1>10 DEF ProgressBar, Elapse, Close, EndPush, BreakPush, Join, Kill,
     Take, SendFails, vars, brokerVars, daemonVars
<1>. QED
  BY <1>2, <1>3, <1>4, <1>5, <1>6, <1>7, <1>8, <1>10 DEF Next, Works, Handler

-----------------------------------------------------------------------------
(* The theorems.                                                           *)

LEMMA InvInit == Bounds /\ Init => Inv
<1> SUFFICES ASSUME Bounds, Init PROVE Inv
  OBVIOUS
<1>1. /\ tasks = <<>> /\ thread = [t \in Thread |-> <<>>] /\ net = <<>> /\ batch = {}
      /\ held = [b \in Bar |-> <<>>] /\ given = [b \in Bar |-> 0]
      /\ pending = [b \in Bar |-> 0] /\ shown = [b \in Bar |-> 0]
      /\ crossed = {} /\ failed = {} /\ proc = "run"
  BY DEF Init
<1>2. Len(<<>>) = 0 /\ Range(<<>>) = {} /\ IsInjective(<<>>)
  BY EmptySeq DEF Range, IsInjective
<1>3. Types
  BY TypesInit
<1>4. Open = {}
  <2>1. Range(thread) \subseteq {<<>>}
    BY <1>1 DEF Range
  <2>. QED BY <1>1, <1>2, <2>1 DEF Open
<1>5. \A b \in Bar : Sent(b) = {} /\ Len(held[b]) = 0 /\ Range(held[b]) = {}
  BY <1>1, <1>2, <1>4 DEF Sent
<1>6. \A b \in Bar, t \in Thread : ~Sends(t, b)
  BY <1>1 DEF Sends
<1>7. OnceInv
  BY <1>1, <1>2, <1>5 DEF OnceInv
<1>8. OrderInv
  BY <1>1, <1>2, <1>5, <1>6 DEF OrderInv, InOrder, Thread
<1>9. KeptInv /\ SampleInv
  BY <1>1, <1>2, <1>5 DEF KeptInv, Newest, SampleInv
<1>10. Bounds => BelowInv
  BY <1>1, <1>5 DEF BelowInv, Bounds
<1>. QED BY <1>3, <1>7, <1>8, <1>9, <1>10 DEF Inv

\* The invariant is inductive.
THEOREM Invariance == ASSUME Bounds PROVE Spec => []Inv
<1>1. Init /\ Bounds => Inv
  BY InvInit
<1>2. Inv /\ [Next]_vars => Inv'
  BY TypesStep, BelowStep, OnceStep, OrderStep, KeptStep, SampleStep DEF Inv
<1>. QED BY <1>1, <1>2, PTL DEF Spec

\* As many values are held as were given, or fewer: none is held twice.
LEMMA HeldBelowGiven ==
  ASSUME Inv, NEW b \in Bar PROVE Len(held[b]) <= given[b]
<1> DEFINE n == Len(held[b])
           g == given[b]
<1>1. n \in Nat /\ g \in Nat /\ DOMAIN held[b] = 1..n
  BY LenProperties DEF Inv, Types
<1>2. \A k \in 1..n : held[b][k] \in 1..g
  <2>1. \A k \in 1..n : held[b][k] \in Nat \ {0} /\ held[b][k] <= g
    BY TypeFacts, SentFacts DEF Inv, BelowInv
  <2>. QED BY <1>1, <2>1
<1>3. held[b] \in Injection(1..n, 1..g)
  <2>1. held[b] = [k \in 1..n |-> held[b][k]]
    BY <1>1 DEF Inv, Types
  <2>2. held[b] \in [1..n -> 1..g]
    BY <1>2, <2>1
  <2>. QED BY <2>2 DEF Inv, OnceInv, Injection
<1>4. /\ IsFiniteSet(1..n) /\ Cardinality(1..n) = n
      /\ IsFiniteSet(1..g) /\ Cardinality(1..g) = g
  <2>1. 1 \in Int /\ n \in Int /\ g \in Int
    BY <1>1
  <2>2. IsFiniteSet(1..n) /\ IsFiniteSet(1..g)
    BY <2>1, FS_Interval, Zenon
  <2>3. /\ Cardinality(1..n) = IF 1 > n THEN 0 ELSE n - 1 + 1
        /\ Cardinality(1..g) = IF 1 > g THEN 0 ELSE g - 1 + 1
    BY <2>1, FS_Interval
  <2>. QED BY <1>1, <2>2, <2>3
<1>5. Cardinality(1..n) <= Cardinality(1..g)
  BY <1>3, <1>4, FS_Injection
<1>. QED BY <1>4, <1>5

\* Every variable keeps its type, and only what was given is held, sampled or
\* pending, each value of it once.
THEOREM TypeCorrect == ASSUME Bounds PROVE Spec => []TypeOK
<1>1. Inv => TypeOK
  <2> SUFFICES ASSUME Inv PROVE TypeOK
    OBVIOUS
  <2>1. ASSUME NEW b \in Bar
        PROVE  /\ given[b] <= Values[b] /\ pending[b] <= given[b]
               /\ shown[b] <= Len(held[b]) /\ Len(held[b]) <= given[b]
               /\ \A i \in 1..Len(held[b]) : held[b][i] <= given[b]
    BY HeldBelowGiven, SentFacts DEF Inv, BelowInv, SampleInv
  <2>. QED BY <2>1 DEF TypeOK, InRange, Inv
<1>. QED BY <1>1, Invariance, PTL

\* Until the event stream has ended, whatever fails and breaks, the broker
\* never goes back to an older value of a bar.
THEOREM NeverBackwards == ASSUME Bounds PROVE Spec => []HeldInOrder
<1>1. Inv => HeldInOrder
  BY DEF Inv, OrderInv, InOrder, HeldInOrder
<1>. QED BY <1>1, Invariance, PTL

\* When close has returned the broker holds the last value that the work gave
\* each bar, but for those of which a send failed or two sends crossed.
THEOREM CloseDelivers == ASSUME Bounds PROVE Spec => []LastIsHeld
<1>1. Inv => LastIsHeld
  <2> SUFFICES ASSUME Inv, proc = "closed", NEW b \in Bar \ Spoilt
               PROVE  Current(b) = given[b]
    BY DEF LastIsHeld
  <2>1. b \notin failed /\ b \notin crossed
    BY DEF Spoilt
  <2>2. pending[b] = 0 /\ Idle /\ Newest(b)
    BY <2>1 DEF Inv, KeptInv
  <2>3. Open = {}
    BY <2>2, OpenIsSends, SendIsPair DEF Open, Idle, Range, Inv, Types
  <2>4. Sent(b) = Range(held[b])
    BY <2>3 DEF Sent
  <2>5. held[b] \in Seq(Nat \ {0}) /\ Len(held[b]) \in Nat /\ given[b] \in Nat
    BY TypeFacts DEF Inv, Types
  <2>6. \A k \in 1..Len(held[b]) : held[b][k] \in Nat \ {0} /\ held[b][k] <= given[b]
    BY TypeFacts, SentFacts DEF Inv, BelowInv
  <2>7. CASE held[b] = <<>>
    <3>1. Range(held[b]) = {}
      BY <2>7 DEF Range
    <3>. QED BY <2>2, <2>4, <2>7, <3>1 DEF Newest, Current
  <2>8. CASE held[b] # <<>>
    <3>1. Len(held[b]) \in 1..Len(held[b]) /\ Current(b) = held[b][Len(held[b])]
      BY <2>5, <2>8, EmptySeq DEF Current, Last
    <3>2. given[b] # 0
      BY <2>5, <2>6, <3>1
    <3>3. PICK k \in 1..Len(held[b]) : held[b][k] = given[b]
      <4>1. DOMAIN held[b] = 1..Len(held[b])
        BY <2>5, LenProperties
      <4>. QED BY <2>2, <2>4, <3>2, <4>1 DEF Newest, Range
    <3>4. k < Len(held[b]) => held[b][k] < held[b][Len(held[b])]
      BY <2>1, <3>1 DEF Inv, OrderInv, InOrder
    <3>5. ~(k < Len(held[b]))
      BY <2>5, <2>6, <3>1, <3>3, <3>4
    <3>. QED BY <2>5, <3>1, <3>3, <3>5
  <2>. QED BY <2>7, <2>8
<1>. QED BY <1>1, Invariance, PTL

\* The lines of the log are samples of what the broker held, never an older
\* one after a newer one, though the copies are made, yielded and received at
\* different times.
THEOREM LogSamples == ASSUME Bounds PROVE Spec => LogIsRegister
<1>1. Init => Sampled!Init
  BY DEF Init, Sampled!Init
<1>2. Inv /\ Inv' /\ [Next]_vars => [Sampled!Next]_(Sampled!vars)
  <2> SUFFICES ASSUME Inv, Inv', [Next]_vars
               PROVE  Sampled!Next \/ UNCHANGED Sampled!vars
    OBVIOUS
  <2> USE DEF Sampled!vars
  <2>1. ASSUME NEW t \in Thread, SetProgressBar(t) PROVE Sampled!Next
    <3>1. PICK b \in Bar : b = thread[t][1]
      BY <2>1, HoldBar DEF Inv
    <3>2. held' = [held EXCEPT ![b] = Append(@, thread[t][2])] /\ UNCHANGED shown
      BY <2>1, <3>1 DEF SetProgressBar, daemonVars
    <3>3. thread[t][2] \in 1..Values[b]
      <4>1. thread[t][2] \in Nat \ {0} /\ thread[t][2] <= given[b] /\ given[b] <= Values[b]
        BY <2>1, <3>1, TypeFacts, SentFacts DEF Inv, BelowInv, Sends, SetProgressBar
      <4>2. given[b] \in Nat /\ Values[b] \in Nat
        BY DEF Inv, Types, Bounds
      <4>. QED BY <4>1, <4>2
    <3>4. Sampled!Hold(b)
      BY <3>2, <3>3 DEF Sampled!Hold
    <3>. QED BY <3>4 DEF Sampled!Next
  <2>2. CASE ReceiveBar
    <3>1. /\ net # <<>> /\ UNCHANGED held
          /\ shown' = [shown EXCEPT ![Head(net)[1]] = Head(net)[2]]
      BY <2>2 DEF ReceiveBar, brokerVars
    <3>2. 1 \in 1..Len(net) /\ Head(net) = net[1]
      BY <3>1, EmptySeq DEF Inv, Types
    <3>3. PICK b \in Bar : b = net[1][1]
      BY <3>2, TypeFacts DEF Inv
    <3>4. net[1][2] \in shown[b]..Len(held[b])
      <4>1. shown[b] <= net[1][2] /\ net[1][2] <= Len(held[b])
        BY <3>2, <3>3 DEF Inv, SampleInv
      <4>2. shown[b] \in Nat /\ Len(held[b]) \in Nat /\ net[1][2] \in Nat
        BY <3>2, TypeFacts DEF Inv, Types
      <4>. QED BY <4>1, <4>2
    <3>5. Sampled!Show(b)
      BY <3>1, <3>2, <3>3, <3>4 DEF Sampled!Show
    <3>. QED BY <3>5 DEF Sampled!Next
  <2>3. CASE \/ \E b \in Bar : ProgressBar(b) \/ Elapse(b)
             \/ Close \/ EndPush \/ BreakPush \/ Join \/ Kill
             \/ \E t \in Thread : Take(t) \/ SendFails(t)
             \/ Handler \/ Unsubscribe \/ EndReceive
             \/ UNCHANGED vars
    BY <2>3 DEF ProgressBar, Elapse, Close, EndPush, BreakPush, Join, Kill, Take,
       SendFails, Handler, Register, YieldBar, CopyDirty, Unsubscribe, EndReceive,
       vars, brokerVars, daemonVars
  <2>. QED BY <2>1, <2>2, <2>3 DEF Next, Works
<1>. QED
  BY <1>1, <1>2, Invariance, PTL DEF Spec, LogIsRegister, Sampled!Spec
=============================================================================
