-------------------------- MODULE EventPathProofs --------------------------
(***************************************************************************)
(* Proofs about EventPath, for any works and any number of events: a       *)
(* work's events are at no time out of order, none is there twice, none is *)
(* lost but by the work's own broken call or killed process, and the log   *)
(* is the lossy queue that LossyFifo specifies.  At the end, about the     *)
(* threads that serve their calls (BrokerPool): when one is to spare.      *)
(***************************************************************************)
EXTENDS EventPath, SequenceTheorems, FiniteSetTheorems, WellFoundedInduction, TLAPS

Below(A, B) == \A a \in A, b \in B : a < b

\* The number of x, if it is an event of w.
Number(w, x) == {n \in {x[2]} : IsEvent(w, x)}

\* The numbers of w's events that are not yet past a place on the way, from its
\* beginning on.
Unsent(w) == Numbers(w, queue[w])
Unread(w) == Numbers(w, wire[w]) \cup Unsent(w)
Ungot(w) == Numbers(w, broker) \cup Unread(w)
Unyielded(w) == Numbers(w, hand) \cup Ungot(w)
Unreceived(w) == Numbers(w, net) \cup Unyielded(w)
Known(w) == Numbers(w, log) \cup Unreceived(w)

\* The events of w are on their way in the order in which it reported them:
\* those at each place, and those at a place before those behind it.
InOrder(w) ==
  /\ Rising(w, log) /\ Rising(w, net) /\ Rising(w, hand)
  /\ Rising(w, broker) /\ Rising(w, wire[w]) /\ Rising(w, queue[w])
  /\ Below(Numbers(w, log), Unreceived(w))
  /\ Below(Numbers(w, net), Unyielded(w))
  /\ Below(Numbers(w, hand), Ungot(w))
  /\ Below(Numbers(w, broker), Unread(w))
  /\ Below(Numbers(w, wire[w]), Unsent(w))
  /\ Known(w) \subseteq 1..posted[w]

OrderInv == \A w \in Work : InOrder(w)

\* A work's queue and call have its own items; the None of a work ends at the
\* broker.
Own(w, s) == \A i \in DOMAIN s : s[i][1] = w

NoEnd(s) == \A i \in DOMAIN s : s[i][2] # 0

ItemsInv ==
  /\ \A w \in Work : Own(w, queue[w]) /\ Own(w, wire[w])
  /\ NoEnd(log) /\ NoEnd(net) /\ NoEnd(hand) /\ NoEnd(broker)

\* The handler holds at most the event it is about to yield, and the context is
\* active for as long as the daemon receives.
HandlerInv ==
  /\ handler # "yield" => hand = <<>>
  /\ receiving => active

\* Whose call has not broken and whose process was not killed has lost nothing.
Sound(w) == call[w] # "broken" /\ proc[w] # "killed"

KeptInv ==
  /\ \A w \in Work : proc[w] = "none" => call[w] = "none"
  /\ receiving /\ logOpen =>
       \A w \in Work : Sound(w) => 1..posted[w] \subseteq Known(w)

Inv == TypeOK /\ OrderInv /\ ItemsInv /\ HandlerInv /\ KeptInv

-----------------------------------------------------------------------------
(* Numbers and Rising of sequences that grow and shrink.                   *)

LEMMA NumbersType ==
  ASSUME NEW w, NEW s \in Seq(Item)
  PROVE  Numbers(w, s) \subseteq Nat \ {0}
<1>1. \A i \in DOMAIN s : s[i] \in Item
  BY LenProperties, ElementOfSeq
<1> QED
  BY <1>1 DEF Numbers, IsEvent, Item

LEMMA NoNumbers == \A w : Numbers(w, <<>>) = {} /\ Rising(w, <<>>)
BY DEF Numbers, Rising

\* An element is at the head or in the tail.
LEMMA HeadOrTail ==
  ASSUME NEW S, NEW s \in Seq(S), s # <<>>
  PROVE  /\ Head(s) \in S /\ Tail(s) \in Seq(S)
         /\ 1 \in DOMAIN s /\ s[1] = Head(s)
         /\ \A i \in DOMAIN Tail(s) : i + 1 \in DOMAIN s /\ Tail(s)[i] = s[i + 1]
         /\ \A i \in DOMAIN s : i # 1 => i - 1 \in DOMAIN Tail(s) /\ Tail(s)[i - 1] = s[i]
         /\ DOMAIN s \subseteq Nat \ {0} /\ DOMAIN Tail(s) \subseteq Nat
<1>1. /\ Head(s) \in S /\ Tail(s) \in Seq(S) /\ Head(s) = s[1]
      /\ Len(Tail(s)) = Len(s) - 1 /\ Len(s) \in Nat \ {0}
      /\ DOMAIN s = 1..Len(s) /\ DOMAIN Tail(s) = 1..Len(Tail(s))
      /\ \A i \in 1..Len(Tail(s)) : Tail(s)[i] = s[i + 1]
  BY HeadTailProperties, LenProperties, EmptySeq
<1>2. \A i \in DOMAIN s : i # 1 => i - 1 \in DOMAIN Tail(s) /\ (i - 1) + 1 = i
  BY <1>1
<1> QED
  BY <1>1, <1>2

LEMMA NumbersTail ==
  ASSUME NEW w, NEW s \in Seq(Item), s # <<>>
  PROVE  Numbers(w, s) = Number(w, Head(s)) \cup Numbers(w, Tail(s))
<1>1. Numbers(w, Tail(s)) \subseteq Numbers(w, s)
  BY HeadOrTail DEF Numbers
<1>2. Number(w, Head(s)) \subseteq Numbers(w, s)
  BY HeadOrTail DEF Numbers, Number
<1>3. ASSUME NEW i \in DOMAIN s, IsEvent(w, s[i])
      PROVE  s[i][2] \in Number(w, Head(s)) \cup Numbers(w, Tail(s))
  <2>1. CASE i = 1
    BY <1>3, <2>1, HeadOrTail DEF Number
  <2>2. CASE i # 1
    <3>1. i - 1 \in DOMAIN Tail(s) /\ Tail(s)[i - 1] = s[i]
      BY <2>2, HeadOrTail
    <3> QED
      BY <1>3, <3>1 DEF Numbers
  <2> QED
    BY <2>1, <2>2
<1>4. Numbers(w, s) \subseteq Number(w, Head(s)) \cup Numbers(w, Tail(s))
  BY <1>3 DEF Numbers
<1> QED
  BY <1>1, <1>2, <1>4

LEMMA RisingTail ==
  ASSUME NEW w, NEW s \in Seq(Item), s # <<>>, Rising(w, s)
  PROVE  /\ Rising(w, Tail(s))
         /\ Below(Number(w, Head(s)), Numbers(w, Tail(s)))
<1>1. \A i, j \in DOMAIN Tail(s) : i < j => i + 1 < j + 1
  BY HeadOrTail
<1>2. Rising(w, Tail(s))
  BY <1>1, HeadOrTail DEF Rising
<1>3. \A i \in DOMAIN Tail(s) : 1 < i + 1
  <2>1. \A i \in DOMAIN Tail(s) : i \in Nat /\ i + 1 # 1
    <3>1. DOMAIN Tail(s) = 1..Len(Tail(s)) /\ Len(Tail(s)) \in Nat
      BY HeadOrTail, LenProperties
    <3> QED
      BY <3>1
  <2> QED
    BY <2>1
<1>4. \A i \in DOMAIN Tail(s) :
        IsEvent(w, s[1]) /\ IsEvent(w, Tail(s)[i]) => s[1][2] < Tail(s)[i][2]
  BY <1>3, HeadOrTail DEF Rising
<1>5. Below(Number(w, Head(s)), Numbers(w, Tail(s)))
  BY <1>4, HeadOrTail DEF Below, Number, Numbers
<1> QED
  BY <1>2, <1>5

\* Appending and concatenating.
LEMMA NumbersConcat ==
  ASSUME NEW w, NEW s \in Seq(Item), NEW t \in Seq(Item)
  PROVE  /\ s \o t \in Seq(Item)
         /\ Numbers(w, s \o t) = Numbers(w, s) \cup Numbers(w, t)
         /\ Rising(w, s) /\ Rising(w, t) /\ Below(Numbers(w, s), Numbers(w, t))
              => Rising(w, s \o t)
<1> DEFINE c == s \o t
<1>1. /\ c \in Seq(Item) /\ Len(s) \in Nat /\ Len(t) \in Nat
      /\ DOMAIN s = 1..Len(s) /\ DOMAIN t = 1..Len(t)
      /\ DOMAIN c = 1..(Len(s) + Len(t))
      /\ \A i \in 1..(Len(s) + Len(t)) :
           c[i] = IF i <= Len(s) THEN s[i] ELSE t[i - Len(s)]
  BY ConcatProperties, LenProperties
<1> HIDE DEF c
<1>2. \A i \in DOMAIN s : i \in DOMAIN c /\ c[i] = s[i]
  BY <1>1
<1>3. ASSUME NEW i \in DOMAIN t
      PROVE  Len(s) + i \in DOMAIN c /\ c[Len(s) + i] = t[i]
  <2>1. Len(s) + i \in 1..(Len(s) + Len(t)) /\ ~(Len(s) + i <= Len(s))
    BY <1>1
  <2>2. (Len(s) + i) - Len(s) = i
    BY <1>1
  <2> QED
    BY <1>1, <2>1, <2>2
<1>4. ASSUME NEW i \in DOMAIN c
      PROVE  \/ i \in DOMAIN s /\ c[i] = s[i]
             \/ /\ i - Len(s) \in DOMAIN t /\ c[i] = t[i - Len(s)]
                /\ i > Len(s)
  BY <1>1
<1>5. Numbers(w, c) \subseteq Numbers(w, s) \cup Numbers(w, t)
  BY <1>4 DEF Numbers
<1>6. Numbers(w, s) \subseteq Numbers(w, c) /\ Numbers(w, t) \subseteq Numbers(w, c)
  BY <1>2, <1>3 DEF Numbers
<1>7. ASSUME Rising(w, s), Rising(w, t), Below(Numbers(w, s), Numbers(w, t)),
             NEW i \in DOMAIN c, NEW j \in DOMAIN c, i < j,
             IsEvent(w, c[i]), IsEvent(w, c[j])
      PROVE  c[i][2] < c[j][2]
  <2>1. CASE j \in DOMAIN s /\ c[j] = s[j]
    <3>1. i \in DOMAIN s /\ c[i] = s[i]
      BY <1>1, <1>7, <2>1
    <3> QED
      BY <1>7, <2>1, <3>1 DEF Rising
  <2>2. CASE /\ i \in DOMAIN s /\ c[i] = s[i]
             /\ j - Len(s) \in DOMAIN t /\ c[j] = t[j - Len(s)]
    BY <1>7, <2>2 DEF Below, Numbers
  <2>3. CASE /\ i - Len(s) \in DOMAIN t /\ c[i] = t[i - Len(s)]
             /\ j - Len(s) \in DOMAIN t /\ c[j] = t[j - Len(s)]
    <3>1. i - Len(s) < j - Len(s)
      BY <1>1, <1>7
    <3> QED
      BY <1>7, <2>3, <3>1 DEF Rising
  <2> QED
    BY <1>4, <2>1, <2>2, <2>3
<1>8. Rising(w, s) /\ Rising(w, t) /\ Below(Numbers(w, s), Numbers(w, t))
        => Rising(w, c)
  BY <1>7 DEF Rising
<1> QED
  BY <1>1, <1>5, <1>6, <1>8 DEF c

LEMMA NumbersAppend ==
  ASSUME NEW w, NEW s \in Seq(Item), NEW x \in Item
  PROVE  /\ Append(s, x) \in Seq(Item)
         /\ Numbers(w, Append(s, x)) = Numbers(w, s) \cup Number(w, x)
         /\ Rising(w, s) /\ Below(Numbers(w, s), Number(w, x))
              => Rising(w, Append(s, x))
<1>1. Append(s, x) = s \o <<x>> /\ <<x>> \in Seq(Item)
  BY AppendIsConcat
<1>2. Numbers(w, <<x>>) = Number(w, x) /\ Rising(w, <<x>>)
  <2>1. DOMAIN <<x>> = {1} /\ <<x>>[1] = x
    OBVIOUS
  <2>2. Numbers(w, <<x>>) = Number(w, x)
    BY <2>1 DEF Numbers, Number
  <2>3. Rising(w, <<x>>)
    BY <2>1 DEF Rising
  <2> QED
    BY <2>2, <2>3
<1>3. /\ s \o <<x>> \in Seq(Item)
      /\ Numbers(w, s \o <<x>>) = Numbers(w, s) \cup Numbers(w, <<x>>)
      /\ Rising(w, s) /\ Rising(w, <<x>>) /\ Below(Numbers(w, s), Numbers(w, <<x>>))
           => Rising(w, s \o <<x>>)
  BY <1>1, NumbersConcat
<1> QED
  BY <1>1, <1>2, <1>3, Zenon


LEMMA OwnMoves ==
  ASSUME NEW w, NEW s \in Seq(Item)
  PROVE  /\ Own(w, s) /\ s # <<>> => Head(s)[1] = w /\ Own(w, Tail(s))
         /\ \A x \in Item : Own(w, s) /\ x[1] = w => Own(w, Append(s, x))
         /\ NoEnd(s) /\ s # <<>> => Head(s)[2] # 0 /\ NoEnd(Tail(s))
         /\ \A x \in Item : NoEnd(s) /\ x[2] # 0 => NoEnd(Append(s, x))
         /\ \A t \in Seq(Item) : NoEnd(s) /\ NoEnd(t) => NoEnd(s \o t)
<1>1. Own(w, s) /\ s # <<>> => Head(s)[1] = w /\ Own(w, Tail(s))
  BY HeadOrTail DEF Own
<1>2. NoEnd(s) /\ s # <<>> => Head(s)[2] # 0 /\ NoEnd(Tail(s))
  BY HeadOrTail DEF NoEnd
<1>3. ASSUME NEW t \in Seq(Item), NEW i \in DOMAIN (s \o t)
      PROVE  (\E j \in DOMAIN s : (s \o t)[i] = s[j]) \/ (\E j \in DOMAIN t : (s \o t)[i] = t[j])
  <2>1. /\ Len(s) \in Nat /\ Len(t) \in Nat
        /\ DOMAIN s = 1..Len(s) /\ DOMAIN t = 1..Len(t)
        /\ i \in 1..(Len(s) + Len(t))
        /\ (s \o t)[i] = IF i <= Len(s) THEN s[i] ELSE t[i - Len(s)]
    BY ConcatProperties, LenProperties
  <2>2. CASE i <= Len(s)
    BY <2>1, <2>2
  <2>3. CASE ~(i <= Len(s))
    <3>1. i - Len(s) \in DOMAIN t
      BY <2>1, <2>3
    <3> QED
      BY <2>1, <2>3, <3>1
  <2> QED
    BY <2>2, <2>3
<1>4. \A t \in Seq(Item) : NoEnd(s) /\ NoEnd(t) => NoEnd(s \o t)
  BY <1>3 DEF NoEnd
<1>5. ASSUME NEW x \in Item
      PROVE  /\ Own(w, s) /\ x[1] = w => Own(w, Append(s, x))
             /\ NoEnd(s) /\ x[2] # 0 => NoEnd(Append(s, x))
  <2>1. /\ \A i \in DOMAIN Append(s, x) : 
             (i \in DOMAIN s /\ Append(s, x)[i] = s[i]) \/ Append(s, x)[i] = x
    BY AppendProperties, LenProperties
  <2> QED
    BY <2>1 DEF Own, NoEnd
<1> QED
  BY <1>1, <1>2, <1>4, <1>5

\* The number of an item that is not w's, or is None.
LEMMA NumberOf ==
  ASSUME NEW w, NEW x \in Item
  PROVE  /\ Number(w, x) = IF IsEvent(w, x) THEN {x[2]} ELSE {}
         /\ x[1] # w \/ x[2] = 0 => Number(w, x) = {}
BY DEF Number, IsEvent

-----------------------------------------------------------------------------
(* Types.                                                                  *)

LEMMA InitType == ASSUME Bounds, Init PROVE TypeOK
BY EmptySeq DEF Init, TypeOK, Bounds

LEMMA NextType ==
  ASSUME Bounds, TypeOK, [Next]_vars
  PROVE  TypeOK'
<1> USE DEF Bounds, TypeOK, workVars, subVars, logVars
<1>1. ASSUME NEW v \in Work, Connect(v) \/ EndClose(v) \/ BreakCall(v) \/ Kill(v)
      PROVE  TypeOK'
  <2>1. CASE Connect(v)
    BY <2>1 DEF Connect
  <2>2. CASE EndClose(v)
    BY <2>2 DEF EndClose
  <2>3. CASE BreakCall(v)
    BY <2>3, EmptySeq DEF BreakCall
  <2>4. CASE Kill(v)
    BY <2>4, EmptySeq DEF Kill
  <2> QED
    BY <1>1, <2>1, <2>2, <2>3, <2>4
<1>2. ASSUME NEW v \in Work, ProgressUpdate(v) \/ BeginClose(v)
      PROVE  TypeOK'
  <2>1. End(v) \in Item /\ <<v, posted[v] + 1>> \in Item
    BY DEF End, Item
  <2>2. \A x \in Item : Append(queue[v], x) \in Seq(Item)
    BY NumbersAppend
  <2>3. CASE ProgressUpdate(v)
    <3>1. /\ posted' = [posted EXCEPT ![v] = posted[v] + 1]
          /\ queue' = [queue EXCEPT ![v] = Append(queue[v], <<v, posted[v] + 1>>)]
          /\ posted[v] < Events[v]
          /\ UNCHANGED <<proc, call, wire, broker, subVars, net, logVars>>
      BY <2>3 DEF ProgressUpdate
    <3>2. posted' \in [Work -> Nat] /\ \A w \in Work : posted'[w] <= Events[w]
      BY <3>1
    <3>3. queue' \in [Work -> Seq(Item)]
      BY <2>1, <2>2, <3>1
    <3> QED
      BY <3>1, <3>2, <3>3
  <2>4. CASE BeginClose(v)
    BY <2>1, <2>2, <2>4 DEF BeginClose
  <2> QED
    BY <1>2, <2>3, <2>4
<1>3. ASSUME NEW v \in Work, Send(v)
      PROVE  TypeOK'
  <2>1. /\ Head(queue[v]) \in Item /\ Tail(queue[v]) \in Seq(Item)
    BY <1>3, HeadOrTail DEF Send
  <2>2. Append(wire[v], Head(queue[v])) \in Seq(Item)
    BY <2>1, NumbersAppend
  <2> QED
    BY <1>3, <2>1, <2>2 DEF Send
<1>4. ASSUME NEW v \in Work, PushEvents(v)
      PROVE  TypeOK'
  <2>1. /\ Head(wire[v]) \in Item /\ Tail(wire[v]) \in Seq(Item)
    BY <1>4, HeadOrTail DEF PushEvents
  <2>2. Append(broker, Head(wire[v])) \in Seq(Item)
    BY <2>1, NumbersAppend
  <2> QED
    BY <1>4, <2>1, <2>2 DEF PushEvents
<1>5. CASE Subscribe \/ CheckActive \/ GetTimeout \/ Deactivate \/ CloseLog \/ EndReceive
  BY <1>5, EmptySeq
     DEF Subscribe, CheckActive, GetTimeout, Deactivate, CloseLog, EndReceive
<1>6. CASE Get
  <2>1. /\ Head(broker) \in Item /\ Tail(broker) \in Seq(Item)
    BY <1>6, HeadOrTail DEF Get
  <2>2. <<Head(broker)>> \in Seq(Item) /\ Len(<<Head(broker)>>) = 1
    BY <2>1
  <2> QED
    BY <1>6, <2>1, <2>2 DEF Get
<1>7. CASE Yield
  <2>1. net \o hand \in Seq(Item) /\ <<>> \in Seq(Item) /\ Len(<<>>) = 0
    BY NumbersConcat, EmptySeq
  <2> QED
    BY <1>7, <2>1 DEF Yield
<1>8. CASE Receive
  <2>1. /\ Head(net) \in Item /\ Tail(net) \in Seq(Item)
    BY <1>8, HeadOrTail DEF Receive
  <2>2. Append(log, Head(net)) \in Seq(Item)
    BY <2>1, NumbersAppend
  <2> QED
    BY <1>8, <2>1, <2>2 DEF Receive
<1>9. CASE UNCHANGED vars
  BY <1>9 DEF vars
<1> QED
  BY <1>1, <1>2, <1>3, <1>4, <1>5, <1>6, <1>7, <1>8, <1>9
     DEF Next, Moves, SubscribeMoves


-----------------------------------------------------------------------------
(* The rest of the invariant, step by step.                                *)

Rest == OrderInv /\ ItemsInv /\ HandlerInv /\ KeptInv

Places == <<posted, queue, wire, broker, hand, net, log>>

LEMMA InitRest == Init => Rest
<1> SUFFICES ASSUME Init
             PROVE  Rest
  OBVIOUS
<1>1. OrderInv
  BY NoNumbers
     DEF Init, OrderInv, InOrder, Known, Unreceived, Unyielded, Ungot, Unread,
         Unsent, Below
<1>2. ItemsInv /\ HandlerInv
  BY DEF Init, ItemsInv, Own, NoEnd, HandlerInv
<1>3. KeptInv
  BY DEF Init, KeptInv
<1> QED
  BY <1>1, <1>2, <1>3 DEF Rest

\* A step that moves no item.
LEMMA StillRest ==
  ASSUME Rest, UNCHANGED Places,
         handler = "yield" => handler' = "yield",
         receiving' => receiving /\ active', logOpen' => logOpen,
         \A w \in Work : proc'[w] = "none" => proc[w] = "none" /\ call'[w] = call[w],
         \A w \in Work : Sound(w)' => Sound(w)
  PROVE  Rest'
<1>1. /\ \A w : Known(w)' = Known(w)
      /\ \A w : InOrder(w)' <=> InOrder(w)
  BY DEF Places, InOrder, Known, Unreceived, Unyielded, Ungot, Unread, Unsent
<1>2. OrderInv'
  BY <1>1 DEF Rest, OrderInv
<1>3. ItemsInv'
  BY DEF Rest, ItemsInv, Places
<1>4. HandlerInv'
  BY DEF Rest, HandlerInv, Places
<1>5. KeptInv'
  BY <1>1 DEF Rest, KeptInv, Places
<1> QED
  BY <1>2, <1>3, <1>4, <1>5 DEF Rest

\* The parts that a step in the works or the call of v leaves alone.
LEMMA OthersInOrder ==
  ASSUME NEW w, InOrder(w),
         UNCHANGED <<broker, hand, net, log>>, posted'[w] = posted[w],
         queue'[w] = queue[w], wire'[w] = wire[w]
  PROVE  InOrder(w)' /\ Known(w)' = Known(w)
BY DEF InOrder, Known, Unreceived, Unyielded, Ungot, Unread, Unsent

LEMMA ProgressUpdateRest ==
  ASSUME TypeOK, Rest, NEW v \in Work, ProgressUpdate(v)
  PROVE  Rest'
<1> DEFINE n == posted[v] + 1
           x == <<v, n>>
<1>1. /\ proc[v] = "run" /\ posted' = [posted EXCEPT ![v] = n]
      /\ queue' = [queue EXCEPT ![v] = Append(queue[v], x)]
      /\ UNCHANGED <<proc, call, wire, broker, subVars, net, logVars>>
  BY DEF ProgressUpdate
<1>2. /\ \A w \in Work \ {v} : posted'[w] = posted[w] /\ queue'[w] = queue[w]
      /\ posted'[v] = n /\ queue'[v] = Append(queue[v], x)
      /\ posted[v] \in Nat /\ n \in Nat \ {0} /\ x \in Item
      /\ queue[v] \in Seq(Item)
      /\ UNCHANGED <<wire, broker, hand, net, log>>
  <2>1. /\ posted \in [Work -> Nat] /\ queue \in [Work -> Seq(Item)]
        /\ posted[v] \in Nat /\ queue[v] \in Seq(Item)
    BY DEF TypeOK
  <2>2. n \in Nat \ {0} /\ x \in Item
    BY <2>1 DEF Item
  <2> HIDE DEF n, x
  <2> QED
    BY <1>1, <2>1, <2>2 DEF subVars, logVars
<1>3. InOrder(v) /\ Known(v) \subseteq 1..posted[v]
  BY DEF Rest, OrderInv, InOrder
<1>4. Number(v, x) = {n}
  BY <1>2, NumberOf DEF IsEvent
<1>5. \A m \in Known(v) : m < n
  BY <1>2, <1>3
<1> HIDE DEF n, x
<1>6. Numbers(v, queue'[v]) = Numbers(v, queue[v]) \cup {n}
  <2>1. Numbers(v, Append(queue[v], x)) = Numbers(v, queue[v]) \cup Number(v, x)
    BY <1>2, NumbersAppend
  <2> QED
    BY <1>2, <1>4, <2>1, Zenon
<1>7. Rising(v, queue'[v])
  <2>1. Rising(v, queue[v])
    BY <1>3 DEF InOrder
  <2>2. Below(Numbers(v, queue[v]), Number(v, x))
    BY <1>4, <1>5
       DEF Below, Known, Unreceived, Unyielded, Ungot, Unread, Unsent
  <2> QED
    BY <1>2, <2>1, <2>2, NumbersAppend
<1>8. Known(v)' = Known(v) \cup {n}
  BY <1>2, <1>6 DEF Known, Unreceived, Unyielded, Ungot, Unread, Unsent
<1>9. InOrder(v)'
  <2>1. Known(v)' \subseteq 1..posted'[v]
    BY <1>2, <1>3, <1>8 DEF n
  <2> QED
    BY <1>2, <1>3, <1>5, <1>6, <1>7, <2>1
       DEF InOrder, Below, Known, Unreceived, Unyielded, Ungot, Unread, Unsent
<1>10. \A w \in Work \ {v} : InOrder(w)' /\ Known(w)' = Known(w)
  BY <1>2, OthersInOrder DEF Rest, OrderInv
<1>11. OrderInv'
  BY <1>9, <1>10 DEF OrderInv
<1>12. ItemsInv'
  <2>1. Own(v, queue'[v])
    <3>1. x[1] = v /\ Own(v, queue[v])
      BY DEF Rest, ItemsInv, x
    <3>2. Own(v, Append(queue[v], x))
      BY <1>2, <3>1, OwnMoves
    <3> QED
      BY <1>2, <3>2, Zenon
  <2> QED
    BY <1>2, <2>1 DEF Rest, ItemsInv
<1>13. HandlerInv'
  BY <1>1 DEF Rest, HandlerInv, subVars, logVars
<1>14. KeptInv'
  <2>1. \A w \in Work : Sound(w)' <=> Sound(w)
    BY <1>1 DEF Sound
  <2>2. 1..n = (1..posted[v]) \cup {n}
    BY <1>2 DEF n
  <2> QED
    BY <1>1, <1>2, <1>8, <1>10, <2>1, <2>2 DEF Rest, KeptInv, logVars
<1> QED
  BY <1>11, <1>12, <1>13, <1>14 DEF Rest

LEMMA BeginCloseRest ==
  ASSUME TypeOK, Rest, NEW v \in Work, BeginClose(v)
  PROVE  Rest'
<1>1. /\ proc[v] = "run" /\ proc' = [proc EXCEPT ![v] = "closing"]
      /\ queue' = [queue EXCEPT ![v] = Append(queue[v], End(v))]
      /\ UNCHANGED <<posted, call, wire, broker, subVars, net, logVars>>
  BY DEF BeginClose
<1>2. /\ \A w \in Work \ {v} : queue'[w] = queue[w]
      /\ queue'[v] = Append(queue[v], End(v)) /\ queue[v] \in Seq(Item)
      /\ UNCHANGED <<posted, wire, broker, hand, net, log>>
  BY <1>1 DEF TypeOK, subVars, logVars
<1>3. End(v) \in Item /\ End(v)[1] = v /\ Number(v, End(v)) = {}
  BY DEF End, Item, Number, IsEvent
<1>4. InOrder(v)
  BY DEF Rest, OrderInv
<1>5. Numbers(v, queue'[v]) = Numbers(v, queue[v]) /\ Rising(v, queue'[v])
  <2>1. Below(Numbers(v, queue[v]), Number(v, End(v))) /\ Rising(v, queue[v])
    BY <1>3, <1>4 DEF Below, InOrder
  <2>2. /\ Numbers(v, Append(queue[v], End(v))) =
             Numbers(v, queue[v]) \cup Number(v, End(v))
        /\ Rising(v, Append(queue[v], End(v)))
    BY <1>2, <1>3, <2>1, NumbersAppend
  <2>3. Numbers(v, queue[v]) \cup Number(v, End(v)) = Numbers(v, queue[v])
    BY <1>3
  <2> QED
    BY <1>2, <2>2, <2>3, Zenon
<1>6. InOrder(v)' /\ Known(v)' = Known(v)
  BY <1>2, <1>4, <1>5
     DEF InOrder, Known, Unreceived, Unyielded, Ungot, Unread, Unsent
<1>7. \A w \in Work \ {v} : InOrder(w)' /\ Known(w)' = Known(w)
  BY <1>2, OthersInOrder DEF Rest, OrderInv
<1>8. OrderInv'
  BY <1>6, <1>7 DEF OrderInv
<1>9. ItemsInv'
  <2>1. Own(v, queue'[v])
    <3>1. Own(v, queue[v])
      BY DEF Rest, ItemsInv
    <3>2. Own(v, Append(queue[v], End(v)))
      BY <1>2, <1>3, <3>1, OwnMoves
    <3> QED
      BY <1>2, <3>2, Zenon
  <2> QED
    BY <1>2, <2>1 DEF Rest, ItemsInv
<1>10. HandlerInv'
  BY <1>1 DEF Rest, HandlerInv, subVars, logVars
<1>11. KeptInv'
  <2>1. \A w \in Work : (Sound(w)' => Sound(w)) /\ (proc'[w] = "none" => proc[w] = "none")
    BY <1>1 DEF Sound, TypeOK
  <2> QED
    BY <1>1, <1>6, <1>7, <2>1 DEF Rest, KeptInv, logVars
<1> QED
  BY <1>8, <1>9, <1>10, <1>11 DEF Rest


LEMMA SendRest ==
  ASSUME TypeOK, Rest, NEW v \in Work, Send(v)
  PROVE  Rest'
<1> DEFINE h == Head(queue[v])
<1>1. /\ queue[v] # <<>> /\ queue' = [queue EXCEPT ![v] = Tail(queue[v])]
      /\ wire' = [wire EXCEPT ![v] = Append(wire[v], h)]
      /\ UNCHANGED <<posted, proc, call, broker, subVars, net, logVars>>
  BY DEF Send
<1>2. /\ \A w \in Work \ {v} : queue'[w] = queue[w] /\ wire'[w] = wire[w]
      /\ queue'[v] = Tail(queue[v]) /\ wire'[v] = Append(wire[v], h)
      /\ queue[v] \in Seq(Item) /\ wire[v] \in Seq(Item)
      /\ UNCHANGED <<posted, broker, hand, net, log>>
  BY <1>1 DEF TypeOK, subVars, logVars
<1>3. h \in Item /\ h[1] = v
  BY <1>1, <1>2, HeadOrTail, OwnMoves DEF Rest, ItemsInv
<1>4. /\ InOrder(v) /\ Rising(v, queue[v]) /\ Rising(v, wire[v])
      /\ Below(Numbers(v, wire[v]), Numbers(v, queue[v]))
  BY DEF Rest, OrderInv, InOrder, Unsent
<1> HIDE DEF h
<1>5. /\ Numbers(v, queue[v]) = Number(v, h) \cup Numbers(v, Tail(queue[v]))
      /\ Rising(v, Tail(queue[v]))
      /\ Below(Number(v, h), Numbers(v, Tail(queue[v])))
  BY <1>1, <1>2, <1>4, NumbersTail, RisingTail DEF h
<1>6. /\ Numbers(v, Append(wire[v], h)) = Numbers(v, wire[v]) \cup Number(v, h)
      /\ Rising(v, Append(wire[v], h))
  <2>1. Below(Numbers(v, wire[v]), Number(v, h))
    BY <1>4, <1>5 DEF Below
  <2> QED
    BY <1>2, <1>3, <1>4, <2>1, NumbersAppend
<1>7. /\ Unsent(v)' = Numbers(v, Tail(queue[v]))
      /\ Numbers(v, wire'[v]) = Numbers(v, wire[v]) \cup Number(v, h)
      /\ Rising(v, queue'[v]) /\ Rising(v, wire'[v])
  BY <1>2, <1>5, <1>6 DEF Unsent
<1>8. Unread(v)' = Unread(v)
  BY <1>5, <1>7 DEF Unread, Unsent
<1>9. Below(Numbers(v, wire'[v]), Unsent(v)')
  BY <1>4, <1>5, <1>7 DEF Below
<1>10. Known(v)' = Known(v) /\ InOrder(v)'
  BY <1>2, <1>4, <1>7, <1>8, <1>9 DEF InOrder, Known, Unreceived, Unyielded, Ungot
<1>11. \A w \in Work \ {v} : InOrder(w)' /\ Known(w)' = Known(w)
  BY <1>2, OthersInOrder DEF Rest, OrderInv
<1>12. OrderInv'
  BY <1>10, <1>11 DEF OrderInv
<1>13. ItemsInv'
  <2>1. Own(v, queue[v]) /\ Own(v, wire[v])
    BY DEF Rest, ItemsInv
  <2>2. Own(v, Tail(queue[v])) /\ Own(v, Append(wire[v], h))
    BY <1>1, <1>2, <1>3, <2>1, OwnMoves
  <2>3. Own(v, queue'[v]) /\ Own(v, wire'[v])
    BY <1>2, <2>2, Zenon
  <2> QED
    BY <1>2, <2>3 DEF Rest, ItemsInv
<1>14. HandlerInv'
  BY <1>1 DEF Rest, HandlerInv, subVars, logVars
<1>15. KeptInv'
  BY <1>1, <1>10, <1>11 DEF Rest, KeptInv, Sound, logVars
<1> QED
  BY <1>12, <1>13, <1>14, <1>15 DEF Rest

\* A work whose call breaks or whose process is killed loses what is there.
LEMMA FewerInOrder ==
  ASSUME NEW w, InOrder(w), UNCHANGED <<broker, hand, net, log>>,
         posted'[w] = posted[w],
         queue'[w] \in {queue[w], <<>>}, wire'[w] \in {wire[w], <<>>}
  PROVE  InOrder(w)'
<1>1. /\ Unsent(w)' \subseteq Unsent(w)
      /\ Numbers(w, wire'[w]) \subseteq Numbers(w, wire[w])
      /\ Rising(w, queue'[w]) /\ Rising(w, wire'[w])
  BY NoNumbers DEF Unsent, InOrder
<1> QED
  BY <1>1 DEF InOrder, Below, Known, Unreceived, Unyielded, Ungot, Unread

LEMMA LossRest ==
  ASSUME TypeOK, Rest, NEW v \in Work, BreakCall(v) \/ Kill(v)
  PROVE  Rest'
<1>1. UNCHANGED <<posted, broker, subVars, net, logVars>>
  BY DEF BreakCall, Kill, workVars
<1>2. /\ \A w \in Work \ {v} : queue'[w] = queue[w] /\ wire'[w] = wire[w]
      /\ \A w \in Work \ {v} : proc'[w] = proc[w] /\ call'[w] = call[w]
      /\ queue'[v] \in {queue[v], <<>>} /\ wire'[v] \in {wire[v], <<>>}
      /\ ~Sound(v)' /\ (proc'[v] = "none" => proc[v] = "none" /\ call[v] = "open")
  <2>1. CASE BreakCall(v)
    BY <2>1 DEF BreakCall, workVars, TypeOK, Sound
  <2>2. CASE Kill(v)
    BY <2>2 DEF Kill, TypeOK, Sound
  <2> QED
    BY <2>1, <2>2
<1>3. InOrder(v)'
  BY <1>1, <1>2, FewerInOrder DEF Rest, OrderInv, subVars, logVars
<1>4. \A w \in Work \ {v} : InOrder(w)' /\ Known(w)' = Known(w)
  BY <1>1, <1>2, OthersInOrder DEF Rest, OrderInv, subVars, logVars
<1>5. OrderInv'
  BY <1>3, <1>4 DEF OrderInv
<1>6. ItemsInv'
  <2>1. Own(v, <<>>)
    BY DEF Own
  <2>2. Own(v, queue'[v]) /\ Own(v, wire'[v])
    BY <1>2, <2>1 DEF Rest, ItemsInv
  <2> QED
    BY <1>1, <1>2, <2>2 DEF Rest, ItemsInv, subVars, logVars
<1>7. HandlerInv'
  BY <1>1 DEF Rest, HandlerInv, subVars, logVars
<1>8. KeptInv'
  BY <1>1, <1>2, <1>4 DEF Rest, KeptInv, Sound, logVars
<1> QED
  BY <1>5, <1>6, <1>7, <1>8 DEF Rest

LEMMA PushEventsRest ==
  ASSUME TypeOK, Rest, NEW v \in Work, PushEvents(v)
  PROVE  Rest'
<1> DEFINE h == Head(wire[v])
<1>1. /\ wire[v] # <<>> /\ wire' = [wire EXCEPT ![v] = Tail(wire[v])]
      /\ UNCHANGED <<workVars, subVars, net, logVars>>
      /\ h = End(v) => call' = [call EXCEPT ![v] = "done"] /\ UNCHANGED broker
      /\ h # End(v) => broker' = Append(broker, h) /\ UNCHANGED call
      /\ call[v] = "open"
  BY DEF PushEvents
<1>2. /\ \A w \in Work \ {v} : wire'[w] = wire[w]
      /\ wire'[v] = Tail(wire[v])
      /\ wire[v] \in Seq(Item) /\ broker \in Seq(Item)
      /\ UNCHANGED <<posted, queue, hand, net, log>>
  BY <1>1 DEF TypeOK, workVars, subVars, logVars
<1>3. h \in Item /\ h[1] = v
  BY <1>1, <1>2, HeadOrTail, OwnMoves DEF Rest, ItemsInv
<1>4. h # End(v) => h[2] # 0
  BY <1>3 DEF End, Item
<1>5. \A w \in Work \ {v} : Number(w, h) = {}
  BY <1>3, NumberOf
<1>6. h = End(v) => Number(v, h) = {}
  BY <1>3, NumberOf DEF End
<1>7. /\ InOrder(v) /\ Rising(v, wire[v])
      /\ Below(Numbers(v, wire[v]), Unsent(v))
      /\ Below(Numbers(v, broker), Unread(v))
      /\ \A w \in Work : Rising(w, broker)
  BY DEF Rest, OrderInv, InOrder
<1> HIDE DEF h
<1>8. /\ Numbers(v, wire[v]) = Number(v, h) \cup Numbers(v, Tail(wire[v]))
      /\ Rising(v, Tail(wire[v]))
      /\ Below(Number(v, h), Numbers(v, Tail(wire[v])))
  BY <1>1, <1>2, <1>7, NumbersTail, RisingTail DEF h
<1>9. ASSUME NEW w \in Work
      PROVE  /\ Numbers(w, broker') = Numbers(w, broker) \cup Number(w, h)
             /\ Rising(w, broker')
  <2>1. CASE h = End(v)
    BY <1>1, <1>5, <1>6, <1>7, <2>1
  <2>2. CASE h # End(v)
    <3>1. Below(Numbers(w, broker), Number(w, h))
      BY <1>5, <1>7, <1>8 DEF Below, Unread
    <3>2. /\ Numbers(w, Append(broker, h)) = Numbers(w, broker) \cup Number(w, h)
          /\ Rising(w, Append(broker, h))
      BY <1>2, <1>3, <1>7, <3>1, NumbersAppend
    <3> QED
      BY <1>1, <2>2, <3>2
  <2> QED
    BY <2>1, <2>2
<1>10. /\ Unsent(v)' = Unsent(v)
       /\ Numbers(v, wire'[v]) = Numbers(v, Tail(wire[v])) /\ Rising(v, wire'[v])
       /\ Numbers(v, broker') = Numbers(v, broker) \cup Number(v, h)
       /\ Rising(v, broker')
  BY <1>2, <1>8, <1>9 DEF Unsent
<1>11. Ungot(v)' = Ungot(v)
  BY <1>8, <1>10 DEF Ungot, Unread
<1>12. /\ Below(Numbers(v, wire'[v]), Unsent(v)')
       /\ Below(Numbers(v, broker'), Unread(v)')
  BY <1>7, <1>8, <1>10 DEF Below, Unread
<1>13. Known(v)' = Known(v) /\ InOrder(v)'
  BY <1>2, <1>7, <1>10, <1>11, <1>12 DEF InOrder, Known, Unreceived, Unyielded
<1>14. ASSUME NEW w \in Work \ {v}
       PROVE  InOrder(w)' /\ Known(w)' = Known(w)
  <2>1. Numbers(w, broker') = Numbers(w, broker) /\ Rising(w, broker') /\ InOrder(w)
    BY <1>5, <1>9 DEF Rest, OrderInv
  <2> QED
    BY <1>2, <2>1 DEF InOrder, Known, Unreceived, Unyielded, Ungot, Unread, Unsent
<1>15. OrderInv'
  BY <1>13, <1>14 DEF OrderInv
<1>16. ItemsInv'
  <2>1. Own(v, wire[v]) /\ NoEnd(broker)
    BY DEF Rest, ItemsInv
  <2>2. Own(v, Tail(wire[v]))
    BY <1>1, <1>2, <2>1, OwnMoves
  <2>3. NoEnd(broker')
    <3>1. CASE h = End(v)
      BY <1>1, <2>1, <3>1
    <3>2. CASE h # End(v)
      <4>1. NoEnd(Append(broker, h))
        BY <1>2, <1>3, <1>4, <2>1, <3>2, OwnMoves
      <4> QED
        BY <1>1, <3>2, <4>1
    <3> QED
      BY <3>1, <3>2
  <2> QED
    BY <1>2, <2>2, <2>3 DEF Rest, ItemsInv
<1>17. HandlerInv'
  BY <1>1 DEF Rest, HandlerInv, subVars, logVars
<1>18. KeptInv'
  <2>1. /\ \A w \in Work : proc'[w] = proc[w] /\ (Sound(w)' => Sound(w))
        /\ \A w \in Work : w # v => call'[w] = call[w]
        /\ proc[v] # "none"
    BY <1>1 DEF Sound, TypeOK, workVars, Rest, KeptInv
  <2> QED
    BY <1>1, <1>2, <1>13, <1>14, <2>1 DEF Rest, KeptInv, logVars
<1> QED
  BY <1>15, <1>16, <1>17, <1>18 DEF Rest


LEMMA GetRest ==
  ASSUME TypeOK, Rest, Get
  PROVE  Rest'
<1> DEFINE h == Head(broker)
<1>1. /\ handler = "get" /\ handler' = "yield" /\ broker # <<>>
      /\ hand' = <<h>> /\ broker' = Tail(broker)
      /\ UNCHANGED <<workVars, call, wire, active, net, logVars>>
  BY DEF Get
<1>2. /\ hand = <<>> /\ broker \in Seq(Item) /\ h \in Item
      /\ UNCHANGED <<posted, proc, queue, receiving, logOpen, log>>
  BY <1>1, HeadOrTail DEF Rest, HandlerInv, TypeOK, workVars, logVars
<1> HIDE DEF h
<1>3. ASSUME NEW w \in Work
      PROVE  InOrder(w)' /\ Known(w)' = Known(w)
  <2>1. InOrder(w) /\ Rising(w, broker) /\ Below(Numbers(w, broker), Unread(w))
    BY DEF Rest, OrderInv, InOrder
  <2>2. /\ Numbers(w, broker) = Number(w, h) \cup Numbers(w, Tail(broker))
        /\ Rising(w, Tail(broker))
        /\ Below(Number(w, h), Numbers(w, Tail(broker)))
    BY <1>1, <1>2, <2>1, NumbersTail, RisingTail DEF h
  <2>3. Numbers(w, <<h>>) = Number(w, h) /\ Rising(w, <<h>>)
    <3>1. DOMAIN <<h>> = {1} /\ <<h>>[1] = h
      OBVIOUS
    <3> QED
      BY <3>1 DEF Numbers, Number, Rising
  <2>4. /\ Numbers(w, hand) = {} /\ Numbers(w, hand') = Number(w, h)
        /\ Rising(w, hand') /\ Rising(w, broker')
        /\ Numbers(w, broker') = Numbers(w, Tail(broker))
        /\ Unread(w)' = Unread(w)
    BY <1>1, <1>2, <2>2, <2>3, NoNumbers DEF Unread, Unsent
  <2>5. Unyielded(w)' = Unyielded(w)
    BY <2>2, <2>4 DEF Unyielded, Ungot
  <2>6. /\ Below(Numbers(w, hand'), Ungot(w)')
        /\ Below(Numbers(w, broker'), Unread(w)')
    BY <2>1, <2>2, <2>4 DEF Below, Ungot
  <2> QED
    BY <1>1, <1>2, <2>1, <2>4, <2>5, <2>6 DEF InOrder, Known, Unreceived, Unsent
<1>4. OrderInv'
  BY <1>3 DEF OrderInv
<1>5. ItemsInv'
  <2>1. NoEnd(broker) /\ h[2] # 0 /\ NoEnd(Tail(broker))
    BY <1>1, <1>2, OwnMoves DEF Rest, ItemsInv, h
  <2>2. NoEnd(<<h>>)
    <3>1. DOMAIN <<h>> = {1} /\ <<h>>[1] = h
      OBVIOUS
    <3> QED
      BY <2>1, <3>1 DEF NoEnd
  <2>3. NoEnd(broker') /\ NoEnd(hand')
    BY <1>1, <2>1, <2>2
  <2> QED
    BY <1>1, <1>2, <2>3 DEF Rest, ItemsInv
<1>6. HandlerInv'
  BY <1>1, <1>2 DEF Rest, HandlerInv
<1>7. KeptInv'
  BY <1>1, <1>2, <1>3 DEF Rest, KeptInv, Sound
<1> QED
  BY <1>4, <1>5, <1>6, <1>7 DEF Rest

LEMMA YieldRest ==
  ASSUME TypeOK, Rest, Yield
  PROVE  Rest'
<1>1. /\ handler = "yield" /\ hand' = <<>>
      /\ net' = IF active /\ receiving THEN net \o hand ELSE net
      /\ UNCHANGED <<posted, proc, queue, call, wire, broker, active, receiving,
                     logOpen, log>>
      /\ net \in Seq(Item) /\ hand \in Seq(Item)
  BY DEF Yield, workVars, logVars, TypeOK
<1>2. ASSUME NEW w \in Work
      PROVE  InOrder(w)' /\ (receiving => Known(w)' = Known(w))
  <2>1. /\ InOrder(w) /\ Rising(w, net) /\ Rising(w, hand)
        /\ Below(Numbers(w, net), Unyielded(w))
    BY DEF Rest, OrderInv, InOrder
  <2>2. Numbers(w, hand') = {} /\ Rising(w, hand') /\ Ungot(w)' = Ungot(w)
    BY <1>1, NoNumbers DEF Ungot, Unread, Unsent
  <2>3. /\ Numbers(w, net \o hand) = Numbers(w, net) \cup Numbers(w, hand)
        /\ Rising(w, net \o hand)
    <3>1. Below(Numbers(w, net), Numbers(w, hand))
      BY <2>1 DEF Below, Unyielded
    <3> QED
      BY <1>1, <2>1, <3>1, NumbersConcat
  <2>4. /\ Numbers(w, net') \subseteq Numbers(w, net) \cup Numbers(w, hand)
        /\ receiving => Numbers(w, net') = Numbers(w, net) \cup Numbers(w, hand)
        /\ Rising(w, net')
    BY <1>1, <2>1, <2>3 DEF Rest, HandlerInv
  <2>5. /\ Unyielded(w)' = Ungot(w)
        /\ Unreceived(w)' \subseteq Unreceived(w)
        /\ receiving => Unreceived(w)' = Unreceived(w)
    BY <2>2, <2>4 DEF Unyielded, Unreceived
  <2>6. Below(Numbers(w, net'), Unyielded(w)')
    BY <2>1, <2>4, <2>5 DEF Below, InOrder, Unyielded
  <2>7. Below(Numbers(w, log), Unreceived(w)') /\ Known(w)' \subseteq Known(w)
    BY <1>1, <2>1, <2>5 DEF Below, InOrder, Known
  <2>8. InOrder(w)'
    BY <1>1, <2>1, <2>2, <2>4, <2>6, <2>7 DEF InOrder, Below, Unread, Unsent
  <2> QED
    BY <1>1, <2>5, <2>8 DEF Known
<1>3. OrderInv'
  BY <1>2 DEF OrderInv
<1>4. ItemsInv'
  <2>1. NoEnd(net \o hand) /\ NoEnd(net) /\ NoEnd(<<>>)
    BY <1>1, OwnMoves DEF Rest, ItemsInv, NoEnd
  <2>2. NoEnd(net') /\ NoEnd(hand')
    BY <1>1, <2>1
  <2> QED
    BY <1>1, <2>2 DEF Rest, ItemsInv
<1>5. HandlerInv'
  BY <1>1 DEF Rest, HandlerInv
<1>6. KeptInv'
  BY <1>1, <1>2 DEF Rest, KeptInv, Sound
<1> QED
  BY <1>3, <1>4, <1>5, <1>6 DEF Rest

LEMMA ReceiveRest ==
  ASSUME TypeOK, Rest, Receive
  PROVE  Rest'
<1> DEFINE h == Head(net)
<1>1. /\ receiving /\ net # <<>> /\ net' = Tail(net)
      /\ log' = IF logOpen THEN Append(log, h) ELSE log
      /\ UNCHANGED <<posted, proc, queue, call, wire, broker, handler, hand, active,
                     receiving, logOpen>>
      /\ net \in Seq(Item) /\ log \in Seq(Item)
  BY DEF Receive, workVars, subVars, TypeOK
<1>2. h \in Item /\ h[2] # 0
  BY <1>1, HeadOrTail, OwnMoves DEF Rest, ItemsInv
<1> HIDE DEF h
<1>3. ASSUME NEW w \in Work
      PROVE  InOrder(w)' /\ (logOpen => Known(w)' = Known(w))
  <2>1. /\ InOrder(w) /\ Rising(w, net) /\ Rising(w, log)
        /\ Below(Numbers(w, net), Unyielded(w))
        /\ Below(Numbers(w, log), Unreceived(w))
    BY DEF Rest, OrderInv, InOrder
  <2>2. /\ Numbers(w, net) = Number(w, h) \cup Numbers(w, Tail(net))
        /\ Rising(w, Tail(net))
        /\ Below(Number(w, h), Numbers(w, Tail(net)))
    BY <1>1, <2>1, NumbersTail, RisingTail DEF h
  <2>3. /\ Numbers(w, Append(log, h)) = Numbers(w, log) \cup Number(w, h)
        /\ Rising(w, Append(log, h))
    <3>1. Below(Numbers(w, log), Number(w, h))
      BY <2>1, <2>2 DEF Below, Unreceived
    <3> QED
      BY <1>1, <1>2, <2>1, <3>1, NumbersAppend
  <2>4. /\ Numbers(w, log') \subseteq Numbers(w, log) \cup Number(w, h)
        /\ logOpen => Numbers(w, log') = Numbers(w, log) \cup Number(w, h)
        /\ Rising(w, log') /\ Rising(w, net')
        /\ Numbers(w, net') = Numbers(w, Tail(net))
        /\ Unyielded(w)' = Unyielded(w)
    BY <1>1, <2>1, <2>2, <2>3 DEF Unyielded, Ungot, Unread, Unsent
  <2>5. /\ Numbers(w, log') \cup Unreceived(w)' \subseteq Known(w)
        /\ logOpen => Numbers(w, log') \cup Unreceived(w)' = Known(w)
    BY <2>2, <2>4 DEF Known, Unreceived
  <2>6. Below(Numbers(w, log'), Unreceived(w)')
    BY <2>1, <2>2, <2>4 DEF Below, Unreceived
  <2>7. Below(Numbers(w, net'), Unyielded(w)')
    BY <2>1, <2>2, <2>4 DEF Below
  <2>8. Known(w)' \subseteq Known(w) /\ (logOpen => Known(w)' = Known(w))
    BY <2>5 DEF Known
  <2>9. InOrder(w)'
    BY <1>1, <2>1, <2>4, <2>6, <2>7, <2>8 DEF InOrder, Ungot, Unread, Unsent
  <2> QED
    BY <2>8, <2>9
<1>4. OrderInv'
  BY <1>3 DEF OrderInv
<1>5. ItemsInv'
  <2>1. NoEnd(Tail(net)) /\ NoEnd(log) /\ NoEnd(Append(log, h))
    BY <1>1, <1>2, OwnMoves DEF Rest, ItemsInv
  <2>2. NoEnd(net') /\ NoEnd(log')
    BY <1>1, <2>1
  <2> QED
    BY <1>1, <2>2 DEF Rest, ItemsInv
<1>6. HandlerInv'
  BY <1>1 DEF Rest, HandlerInv
<1>7. KeptInv'
  BY <1>1, <1>3 DEF Rest, KeptInv, Sound
<1> QED
  BY <1>4, <1>5, <1>6, <1>7 DEF Rest

LEMMA EndReceiveRest ==
  ASSUME TypeOK, Rest, EndReceive
  PROVE  Rest'
<1>1. /\ receiving' = FALSE /\ net' = <<>>
      /\ UNCHANGED <<posted, proc, queue, call, wire, broker, handler, hand, active,
                     logOpen, log>>
  BY DEF EndReceive, workVars, subVars
<1>2. ASSUME NEW w \in Work
      PROVE  InOrder(w)'
  <2>1. InOrder(w)
    BY DEF Rest, OrderInv
  <2>2. /\ Numbers(w, net') = {} /\ Rising(w, net')
        /\ Unyielded(w)' = Unyielded(w)
    BY <1>1, NoNumbers DEF Unyielded, Ungot, Unread, Unsent
  <2>3. /\ Below(Numbers(w, log), Unreceived(w)')
        /\ Below(Numbers(w, net'), Unyielded(w)')
        /\ Known(w)' \subseteq Known(w)
    BY <1>1, <2>1, <2>2 DEF InOrder, Below, Known, Unreceived
  <2> QED
    BY <1>1, <2>1, <2>2, <2>3 DEF InOrder, Ungot, Unread, Unsent
<1>3. OrderInv'
  BY <1>2 DEF OrderInv
<1>4. ItemsInv'
  BY <1>1 DEF Rest, ItemsInv, NoEnd
<1>5. HandlerInv'
  BY <1>1 DEF Rest, HandlerInv
<1>6. KeptInv'
  BY <1>1 DEF Rest, KeptInv
<1> QED
  BY <1>3, <1>4, <1>5, <1>6 DEF Rest

LEMMA NextRest ==
  ASSUME TypeOK, Rest, [Next]_vars
  PROVE  Rest'
<1>1. ASSUME NEW v \in Work, Connect(v) \/ EndClose(v)
      PROVE  Rest'
  <2>1. UNCHANGED <<Places, handler, active, receiving, logOpen>>
    BY <1>1 DEF Connect, EndClose, Places, workVars, subVars, logVars
  <2>2. \A w \in Work :
          /\ proc'[w] = "none" => proc[w] = "none" /\ call'[w] = call[w]
          /\ Sound(w)' => Sound(w)
    <3>1. CASE Connect(v)
      BY <3>1 DEF Connect, Sound, TypeOK, Rest, KeptInv
    <3>2. CASE EndClose(v)
      BY <3>2 DEF EndClose, Sound, TypeOK
    <3> QED
      BY <1>1, <3>1, <3>2
  <2> QED
    BY <2>1, <2>2, StillRest DEF Places, Rest, HandlerInv
<1>2. CASE Subscribe \/ CheckActive \/ GetTimeout \/ Deactivate \/ CloseLog \/ UNCHANGED vars
  <2>1. /\ UNCHANGED <<posted, queue, wire, broker, hand, net, log, proc, call>>
        /\ handler = "yield" => handler' = "yield"
        /\ receiving' => receiving /\ active'
        /\ logOpen' => logOpen
    BY <1>2
       DEF Subscribe, CheckActive, GetTimeout, Deactivate, CloseLog, vars, workVars,
           subVars, logVars, Rest, HandlerInv
  <2>2. \A w \in Work :
          /\ proc'[w] = "none" => proc[w] = "none" /\ call'[w] = call[w]
          /\ Sound(w)' => Sound(w)
    BY <2>1 DEF Sound
  <2> QED
    BY <2>1, <2>2, StillRest DEF Places
<1> QED
  BY <1>1, <1>2, ProgressUpdateRest, BeginCloseRest, SendRest, LossRest,
     PushEventsRest, GetRest, YieldRest, ReceiveRest, EndReceiveRest
     DEF Next, Moves, SubscribeMoves

-----------------------------------------------------------------------------
(* The theorems.                                                           *)

\* Types, and the order, kinds and whereabouts of all events on their way.
THEOREM Invariance == ASSUME Bounds PROVE Spec => []Inv
<1>1. Init => Inv
  BY InitType, InitRest DEF Inv, Rest
<1>2. Inv /\ [Next]_vars => Inv'
  BY NextType, NextRest DEF Inv, Rest
<1> QED
  BY <1>1, <1>2, PTL DEF Spec

\* The variables of the event path have their types.
THEOREM TypeCorrect == ASSUME Bounds PROVE Spec => []TypeOK
<1>1. Inv => TypeOK
  BY DEF Inv
<1> QED
  BY <1>1, Invariance, PTL

\* What is known is the concatenation of what is at each place, and in order as
\* a whole when every place is and no place is ahead of one nearer to the log.
LEMMA PathInOrder ==
  ASSUME TypeOK, OrderInv, NEW w \in Work
  PROVE  Numbers(w, Path(w)) = Known(w) /\ Rising(w, Path(w))
<1> DEFINE p1 == log \o net
           p2 == p1 \o hand
           p3 == p2 \o broker
           p4 == p3 \o wire[w]
           p5 == p4 \o queue[w]
<1>1. /\ log \in Seq(Item) /\ net \in Seq(Item) /\ hand \in Seq(Item)
      /\ broker \in Seq(Item) /\ wire[w] \in Seq(Item) /\ queue[w] \in Seq(Item)
  BY DEF TypeOK
<1>2. InOrder(w)
  BY DEF OrderInv
<1>3. /\ p1 \in Seq(Item) /\ Rising(w, p1)
      /\ Numbers(w, p1) = Numbers(w, log) \cup Numbers(w, net)
  <2>1. Below(Numbers(w, log), Numbers(w, net))
    BY <1>2 DEF InOrder, Below, Unreceived
  <2> QED
    BY <1>1, <1>2, <2>1, NumbersConcat DEF InOrder
<1> HIDE DEF p1
<1>4. /\ p2 \in Seq(Item) /\ Rising(w, p2)
      /\ Numbers(w, p2) = Numbers(w, p1) \cup Numbers(w, hand)
  <2>1. Below(Numbers(w, p1), Numbers(w, hand))
    BY <1>2, <1>3 DEF InOrder, Below, Unreceived, Unyielded
  <2> QED
    <3>1. p1 \in Seq(Item) /\ Rising(w, p1) /\ Rising(w, hand)
      BY <1>2, <1>3 DEF InOrder
    <3>2. /\ p1 \o hand \in Seq(Item)
          /\ Numbers(w, p1 \o hand) = Numbers(w, p1) \cup Numbers(w, hand)
          /\ Rising(w, p1 \o hand)
      BY <1>1, <2>1, <3>1, NumbersConcat
    <3> QED
      BY <3>2 DEF p2
<1> HIDE DEF p2
<1>5. /\ p3 \in Seq(Item) /\ Rising(w, p3)
      /\ Numbers(w, p3) = Numbers(w, p2) \cup Numbers(w, broker)
  <2>1. Below(Numbers(w, p2), Numbers(w, broker))
    BY <1>2, <1>3, <1>4 DEF InOrder, Below, Unreceived, Unyielded, Ungot
  <2> QED
    <3>1. p2 \in Seq(Item) /\ Rising(w, p2) /\ Rising(w, broker)
      BY <1>2, <1>4 DEF InOrder
    <3>2. /\ p2 \o broker \in Seq(Item)
          /\ Numbers(w, p2 \o broker) = Numbers(w, p2) \cup Numbers(w, broker)
          /\ Rising(w, p2 \o broker)
      BY <1>1, <2>1, <3>1, NumbersConcat
    <3> QED
      BY <3>2 DEF p3
<1> HIDE DEF p3
<1>6. /\ p4 \in Seq(Item) /\ Rising(w, p4)
      /\ Numbers(w, p4) = Numbers(w, p3) \cup Numbers(w, wire[w])
  <2>1. Below(Numbers(w, p3), Numbers(w, wire[w]))
    BY <1>2, <1>3, <1>4, <1>5
       DEF InOrder, Below, Unreceived, Unyielded, Ungot, Unread
  <2> QED
    <3>1. p3 \in Seq(Item) /\ Rising(w, p3) /\ Rising(w, wire[w])
      BY <1>2, <1>5 DEF InOrder
    <3>2. /\ p3 \o wire[w] \in Seq(Item)
          /\ Numbers(w, p3 \o wire[w]) = Numbers(w, p3) \cup Numbers(w, wire[w])
          /\ Rising(w, p3 \o wire[w])
      BY <1>1, <2>1, <3>1, NumbersConcat
    <3> QED
      BY <3>2 DEF p4
<1> HIDE DEF p4
<1>7. /\ Rising(w, p5)
      /\ Numbers(w, p5) = Numbers(w, p4) \cup Numbers(w, queue[w])
  <2>1. Below(Numbers(w, p4), Numbers(w, queue[w]))
    BY <1>2, <1>3, <1>4, <1>5, <1>6
       DEF InOrder, Below, Unreceived, Unyielded, Ungot, Unread, Unsent
  <2> QED
    <3>1. p4 \in Seq(Item) /\ Rising(w, p4) /\ Rising(w, queue[w])
      BY <1>2, <1>6 DEF InOrder
    <3>2. /\ p4 \o queue[w] \in Seq(Item)
          /\ Numbers(w, p4 \o queue[w]) = Numbers(w, p4) \cup Numbers(w, queue[w])
          /\ Rising(w, p4 \o queue[w])
      BY <1>1, <2>1, <3>1, NumbersConcat
    <3> QED
      BY <3>2 DEF p5
<1>8. Path(w) = p5
  BY DEF Path, p1, p2, p3, p4
<1>9. Numbers(w, p5) = Known(w)
  BY <1>3, <1>4, <1>5, <1>6, <1>7
     DEF Known, Unreceived, Unyielded, Ungot, Unread, Unsent
<1> HIDE DEF p5
<1> QED
  BY <1>7, <1>8, <1>9, Zenon

\* No event is lost or out of order on its way from progress_update to the api
\* log while the subscription and the log last, except those of a work whose
\* own call broke or whose process was killed.
THEOREM NothingIsLost == ASSUME Bounds PROVE Spec => []NothingLost
<1>1. ASSUME Inv, receiving, logOpen,
             NEW w \in Work, call[w] # "broken", proc[w] # "killed"
      PROVE  Numbers(w, Path(w)) = 1..posted[w] /\ Rising(w, Path(w))
  <2>1. Numbers(w, Path(w)) = Known(w) /\ Rising(w, Path(w))
    BY <1>1, PathInOrder DEF Inv
  <2>2. 1..posted[w] \subseteq Known(w) /\ Known(w) \subseteq 1..posted[w]
    BY <1>1 DEF Inv, KeptInv, Sound, OrderInv, InOrder
  <2> QED
    BY <2>1, <2>2
<1>2. Inv => NothingLost
  BY <1>1 DEF NothingLost
<1> QED
  BY <1>2, Invariance, PTL

-----------------------------------------------------------------------------
(* The log is a LossyFifo.                                                 *)

\* The numbers of w in the log are those of its lines.
LEMMA LinesOf ==
  ASSUME NEW w, NEW s \in Seq(Item), NEW n \in Nat, <<w, n>> \in ToSet(s), n # 0
  PROVE  n \in Numbers(w, s)
<1>1. PICK i \in DOMAIN s : s[i] = <<w, n>>
  BY DEF ToSet
<1>2. IsEvent(w, s[i]) /\ s[i][2] = n
  BY <1>1 DEF IsEvent
<1> QED
  BY <1>2 DEF Numbers

\* A set of numbers up to a bound has a largest one.
LEMMA HasLargest ==
  ASSUME NEW b \in Nat, NEW S \in SUBSET (0..b), S # {}
  PROVE  \E n \in S : \A m \in S : m <= n
<1> DEFINE R == OpToRel(<, Nat)
           T == {b - m : m \in S}
<1>1. T \subseteq Nat /\ T # {}
  <2>1. \A m \in S : b - m \in Nat
    OBVIOUS
  <2> QED
    BY <2>1
<1>2. IsWellFoundedOn(R, Nat)
  BY NatLessThanWellFounded
<1> HIDE DEF R, T
<1>3. PICK x \in T : \A y \in T : <<y, x>> \notin R
  BY <1>1, <1>2, WFMin
<1>4. \A y \in T : ~(y < x)
  BY <1>1, <1>3 DEF R, OpToRel
<1>5. PICK n \in S : x = b - n
  BY DEF T
<1>6. \A m \in S : m <= n
  BY <1>4, <1>5 DEF T
<1> QED
  BY <1>6

\* Where no line of w has a number of n or more, Latest(w) is below n.
LEMMA LatestBelow ==
  ASSUME TypeOK, NEW w \in Work, NEW n \in 1..posted[w],
         \A m \in 1..posted[w] : <<w, m>> \in ToSet(log) => m < n
  PROVE  n \in (Fifo!Latest(w) + 1)..posted[w]
<1> DEFINE S == {m \in 0..posted[w] : m = 0 \/ <<w, m>> \in ToSet(log)}
           P(k) == /\ k = 0 \/ <<w, k>> \in ToSet(log)
                   /\ \A m \in 1..posted[w] : <<w, m>> \in ToSet(log) => m <= k
<1>1. posted[w] \in Nat
  BY DEF TypeOK
<1>2. \E k \in S : \A m \in S : m <= k
  <2>1. S \in SUBSET (0..posted[w]) /\ 0 \in S
    BY <1>1
  <2> HIDE DEF S
  <2> QED
    BY <1>1, <2>1, HasLargest
<1>3. \E k \in 0..posted[w] : P(k)
  BY <1>1, <1>2
<1>4. Fifo!Latest(w) = CHOOSE k \in 0..posted[w] : P(k)
  BY DEF Fifo!Latest, Fifo!ToSet, ToSet
<1>5. Fifo!Latest(w) \in 0..posted[w] /\ P(Fifo!Latest(w))
  BY <1>3, <1>4
<1> QED
  BY <1>1, <1>5

\* progress_update is a Report.
LEMMA ReportsWell ==
  ASSUME NEW v \in Work, ProgressUpdate(v)
  PROVE  Fifo!Report(v)
BY DEF ProgressUpdate, Fifo!Report, logVars

\* A line written is a Deliver: the event received comes after all of its work
\* that are in the log, since those before it on the way have lower numbers.
LEMMA DeliversWell ==
  ASSUME Inv, Receive
  PROVE  UNCHANGED Fifo!vars \/ \E w \in Work : Fifo!Deliver(w)
<1> DEFINE h == Head(net)
           w == h[1]
           n == h[2]
<1>1. /\ net # <<>> /\ posted' = posted
      /\ log' = IF logOpen THEN Append(log, h) ELSE log
      /\ net \in Seq(Item) /\ log \in Seq(Item) /\ NoEnd(net)
  BY DEF Receive, workVars, Inv, TypeOK, ItemsInv
<1>2. h \in Item /\ n # 0
  BY <1>1, HeadOrTail, OwnMoves
<1>3. w \in Work /\ n \in Nat \ {0} /\ h = <<w, n>>
  BY <1>2 DEF Item
<1> HIDE DEF h, w, n
<1>4. n \in Numbers(w, net)
  <2>1. 1 \in DOMAIN net /\ net[1] = h
    BY <1>1, HeadOrTail DEF h
  <2>2. IsEvent(w, h) /\ h[2] = n
    BY <1>3 DEF IsEvent
  <2> QED
    BY <2>1, <2>2 DEF Numbers
<1>5. n \in Unreceived(w) /\ n \in 1..posted[w]
  BY <1>3, <1>4 DEF Inv, OrderInv, InOrder, Known, Unreceived
<1>6. ASSUME NEW m \in 1..posted[w], <<w, m>> \in ToSet(log)
      PROVE  m < n
  <2>1. m \in Nat /\ m # 0
    BY <1>3 DEF Inv, TypeOK
  <2>2. m \in Numbers(w, log)
    BY <1>1, <1>6, <2>1, LinesOf
  <2>3. Below(Numbers(w, log), Unreceived(w))
    BY <1>3 DEF Inv, OrderInv, InOrder
  <2> QED
    BY <1>5, <2>2, <2>3 DEF Below
<1>7. n \in (Fifo!Latest(w) + 1)..posted[w]
  BY <1>3, <1>5, <1>6, LatestBelow DEF Inv
<1>8. CASE logOpen
  <2>1. log' = Append(log, <<w, n>>)
    BY <1>1, <1>3, <1>8
  <2>2. Fifo!Deliver(w)
    BY <1>1, <1>7, <2>1 DEF Fifo!Deliver
  <2> QED
    BY <1>3, <2>2
<1>9. CASE ~logOpen
  BY <1>1, <1>9 DEF Fifo!vars
<1> QED
  BY <1>8, <1>9

\* The api log is the lossy queue a reader of it may rely on: the events of each
\* work in the order of its reports, each at most once.
THEOREM LogIsLossy == ASSUME Bounds PROVE Spec => LogIsFifo
<1>1. Init => Fifo!Init
  BY DEF Init, Fifo!Init
<1>2. Inv /\ [Next]_vars => [Fifo!Next]_(Fifo!vars)
  <2> SUFFICES ASSUME Inv, [Next]_vars
               PROVE  Fifo!Next \/ UNCHANGED Fifo!vars
    OBVIOUS
  <2>1. ASSUME NEW v \in Work,
               Connect(v) \/ BeginClose(v) \/ EndClose(v) \/ Kill(v) \/ Send(v)
                 \/ BreakCall(v) \/ PushEvents(v)
        PROVE  UNCHANGED Fifo!vars
    BY <2>1 DEF Connect, BeginClose, EndClose, Kill, Send, BreakCall, PushEvents,
                workVars, logVars, Fifo!vars
  <2>2. ASSUME NEW v \in Work, ProgressUpdate(v)
        PROVE  Fifo!Next
    BY <2>2, ReportsWell DEF Fifo!Next
  <2>3. CASE \/ SubscribeMoves \/ Deactivate \/ EndReceive \/ CloseLog
             \/ UNCHANGED vars
    BY <2>3
       DEF SubscribeMoves, Subscribe, CheckActive, Get, GetTimeout, Yield,
           Deactivate, EndReceive, CloseLog, vars, workVars, logVars, Fifo!vars
  <2>4. CASE Receive
    BY <2>4, DeliversWell DEF Fifo!Next
  <2> QED
    BY <2>1, <2>2, <2>3, <2>4 DEF Next, Moves
<1> QED
  BY <1>1, <1>2, Invariance, PTL DEF Spec, LogIsFifo, Fifo!Spec

-----------------------------------------------------------------------------
(* The threads that serve the calls of the works (BrokerPool).             *)

CONSTANTS Session, Pool
VARIABLES session, stage, waiting, serving

Threads == INSTANCE BrokerPool

\* The calls that have been made and not ended.
Made == ToSet(waiting) \cup serving

\* The calls that wait, and those that a thread serves.
Queued ==
  /\ waiting \in Seq(Threads!Call) /\ IsInjective(waiting)
  /\ serving \subseteq Threads!Call \ ToSet(waiting)
  /\ IsFiniteSet(serving) /\ Cardinality(serving) <= Pool

Stage == {"none", "register", "submit", "run", "ask", "close", "shutdown", "ended"}

\* A call that its session or its work has not come to make, or has had the
\* answer of, is not there.
MadeInTurn ==
  /\ session \in [Session -> {"idle", "running", "over"}] /\ stage \in [Threads!Task -> Stage]
  /\ \A s \in Session : \A c \in Threads!Streams(s) : c \in Made => session[s] # "idle"
  /\ \A k \in Threads!Task :
       /\ Threads!Unary(k) \in Made => stage[k] # "none"
       /\ Threads!Push(k) \in Made => stage[k] \in {"run", "ask", "close", "ended"}
       /\ Threads!BarCall(k, 1) \in Made => stage[k] \in {"shutdown", "ended"}

ThreadsInv == Queued /\ MadeInTurn

\* The operators of the libraries are the same in the instance.
LEMMA SameOperators ==
  /\ \A S : Threads!Cardinality(S) = Cardinality(S)
  /\ \A S : Threads!IsFiniteSet(S) <=> IsFiniteSet(S)
  /\ \A s : Threads!ToSet(s) = ToSet(s)
  /\ \A s : Threads!IsInjective(s) <=> IsInjective(s)
  /\ Threads!Made = Made
<1>1. \A S : Threads!Cardinality(S) = Cardinality(S)
  BY Zenon DEF Cardinality, Threads!Cardinality
<1>2. \A S : Threads!IsFiniteSet(S) <=> IsFiniteSet(S)
  BY Zenon DEF IsFiniteSet, Threads!IsFiniteSet
<1>4. \A s : Threads!ToSet(s) = ToSet(s)
  BY Zenon DEF ToSet, Threads!ToSet
<1>5. \A s : Threads!IsInjective(s) <=> IsInjective(s)
  BY Zenon DEF IsInjective, Threads!IsInjective
<1>6. Threads!Made = Made
  BY <1>4, Zenon DEF Made, Threads!Made
<1> QED
  BY <1>1, <1>2, <1>4, <1>5, <1>6

\* Whose a call is.
LEMMA CallKinds ==
  /\ \A s \in Session : \A c \in Threads!Streams(s) :
       /\ c \in Threads!Call
       /\ \A r \in Session : c \in Threads!Streams(r) => r = s
       /\ \A k \in Threads!Task : c \notin Threads!CallsOf(k)
  /\ \A k \in Threads!Task : \A c \in Threads!CallsOf(k) :
       /\ c \in Threads!Call
       /\ \A j \in Threads!Task : c \in Threads!CallsOf(j) => j = k
  /\ \A k \in Threads!Task :
       /\ {Threads!Push(k), Threads!Unary(k), Threads!BarCall(k, 1), Threads!BarCall(k, 2)}
            \subseteq Threads!CallsOf(k)
       /\ Threads!Push(k) # Threads!Unary(k)
       /\ \A i \in 1..2 : Threads!Push(k) # Threads!BarCall(k, i)
                         /\ Threads!Unary(k) # Threads!BarCall(k, i)
       /\ Threads!BarCall(k, 1) # Threads!BarCall(k, 2)
       /\ \A c \in Threads!CallsOf(k) :
            c = Threads!Push(k) \/ c \in {Threads!Unary(k)} \cup Threads!Bars(k)
  /\ \A c \in Threads!Call : \/ \E s \in Session : c \in Threads!Streams(s)
                             \/ \E k \in Threads!Task : c \in Threads!CallsOf(k)
<1>1. ASSUME NEW s, NEW c \in Threads!Streams(s)
      PROVE  c[1] \in {"Subscribe", "SubscribeProgressBars"} /\ c[2][1] = s
  BY DEF Threads!Streams, Threads!Subscribe, Threads!SubscribeProgressBars
<1>2. \A k : /\ Threads!Push(k)[1] = "PushEvents" /\ Threads!Push(k)[2] = k
             /\ Threads!Unary(k)[1] = "unary" /\ Threads!Unary(k)[2] = k
             /\ \A i : /\ Threads!BarCall(k, i)[1] = "SetProgressBar"
                       /\ Threads!BarCall(k, i)[2] = k /\ Threads!BarCall(k, i)[3] = i
  BY DEF Threads!Push, Threads!Unary, Threads!BarCall
<1>3. \A k, c : c \in Threads!CallsOf(k) <=>
        \/ c = Threads!Push(k) \/ c = Threads!Unary(k)
        \/ c = Threads!BarCall(k, 1) \/ c = Threads!BarCall(k, 2)
  <2>1. \A k, c : c \in Threads!Bars(k) <=> \E i \in 1..2 : c = Threads!BarCall(k, i)
    BY Zenon DEF Threads!Bars
  <2>2. ASSUME NEW k, NEW c
        PROVE  (\E i \in 1..2 : c = Threads!BarCall(k, i))
                 <=> c = Threads!BarCall(k, 1) \/ c = Threads!BarCall(k, 2)
    OBVIOUS
  <2>3. \A k, c : c \in Threads!CallsOf(k) <=>
          c = Threads!Push(k) \/ c = Threads!Unary(k) \/ c \in Threads!Bars(k)
    BY Zenon DEF Threads!CallsOf
  <2>4. \A k, c : c \in Threads!Bars(k) <=>
          c = Threads!BarCall(k, 1) \/ c = Threads!BarCall(k, 2)
    BY <2>1, <2>2
  <2> QED
    BY <2>3, <2>4, Zenon
<1>4. ASSUME NEW k, NEW c \in Threads!CallsOf(k)
      PROVE  c[1] \in {"PushEvents", "unary", "SetProgressBar"} /\ c[2] = k
  BY <1>2, <1>3
<1>5. \A c : c \in Threads!Call <=>
        \/ \E s \in Session : c \in Threads!Streams(s)
        \/ \E k \in Threads!Task : c \in Threads!CallsOf(k)
  BY Zenon DEF Threads!Call
<1>6. /\ \A s \in Session : \A c \in Threads!Streams(s) :
           /\ c \in Threads!Call
           /\ \A r \in Session : c \in Threads!Streams(r) => r = s
           /\ \A k \in Threads!Task : c \notin Threads!CallsOf(k)
      /\ \A k \in Threads!Task : \A c \in Threads!CallsOf(k) :
           /\ c \in Threads!Call
           /\ \A j \in Threads!Task : c \in Threads!CallsOf(j) => j = k
  BY <1>1, <1>4, <1>5
<1>7. ASSUME NEW k \in Threads!Task
      PROVE  /\ {Threads!Push(k), Threads!Unary(k), Threads!BarCall(k, 1), Threads!BarCall(k, 2)}
                  \subseteq Threads!CallsOf(k)
             /\ Threads!Push(k) # Threads!Unary(k)
             /\ \A i \in 1..2 : Threads!Push(k) # Threads!BarCall(k, i)
                               /\ Threads!Unary(k) # Threads!BarCall(k, i)
             /\ Threads!BarCall(k, 1) # Threads!BarCall(k, 2)
  BY <1>2, <1>3
<1>8. \A k : \A c \in Threads!CallsOf(k) :
        c = Threads!Push(k) \/ c \in {Threads!Unary(k)} \cup Threads!Bars(k)
  BY Zenon DEF Threads!CallsOf
<1> QED
  BY <1>5, <1>6, <1>7, <1>8

LEMMA AppendSet ==
  ASSUME NEW S, NEW s \in Seq(S), NEW e \in S
  PROVE  /\ Append(s, e) \in Seq(S) /\ ToSet(Append(s, e)) = ToSet(s) \cup {e}
         /\ IsInjective(s) /\ e \notin ToSet(s) => IsInjective(Append(s, e))
<1> DEFINE q == Append(s, e)
<1>1. /\ Len(s) \in Nat /\ q \in Seq(S) /\ Len(q) = Len(s) + 1
      /\ \A i \in 1..Len(s) : q[i] = s[i]
      /\ q[Len(s) + 1] = e
  BY AppendProperties, LenProperties
<1>2. DOMAIN s = 1..Len(s) /\ DOMAIN q = 1..(Len(s) + 1)
  BY <1>1, LenProperties
<1>3. /\ Len(s) + 1 \in 1..(Len(s) + 1)
      /\ \A i \in 1..(Len(s) + 1) : i \in 1..Len(s) \/ i = Len(s) + 1
      /\ \A i \in 1..Len(s) : i \in 1..(Len(s) + 1)
  BY <1>1
<1> HIDE DEF q
<1>4. \A x : x \in ToSet(q) <=> x \in ToSet(s) \/ x = e
  <2>1. \A x : x \in ToSet(q) <=> \E i \in 1..(Len(s) + 1) : x = q[i]
    BY <1>2 DEF ToSet
  <2>2. \A x : x \in ToSet(s) <=> \E i \in 1..Len(s) : x = s[i]
    BY <1>2 DEF ToSet
  <2> QED
    BY <1>1, <1>3, <2>1, <2>2
<1>5. ASSUME IsInjective(s), e \notin ToSet(s)
      PROVE  IsInjective(q)
  <2>1. \A i \in 1..Len(s) : s[i] # e
    BY <1>2, <1>5 DEF ToSet
  <2>2. \A i, j \in 1..Len(s) : s[i] = s[j] => i = j
    BY <1>2, <1>5 DEF IsInjective
  <2> QED
    BY <1>1, <1>2, <1>3, <2>1, <2>2 DEF IsInjective
<1> QED
  BY <1>1, <1>4, <1>5 DEF q

LEMMA TailSet ==
  ASSUME NEW S, NEW s \in Seq(S), s # <<>>
  PROVE  /\ Tail(s) \in Seq(S) /\ Head(s) \in ToSet(s)
         /\ ToSet(s) = ToSet(Tail(s)) \cup {Head(s)}
         /\ IsInjective(s) => IsInjective(Tail(s)) /\ Head(s) \notin ToSet(Tail(s))
<1>1. /\ Tail(s) \in Seq(S) /\ 1 \in DOMAIN s /\ s[1] = Head(s)
      /\ \A i \in DOMAIN Tail(s) : i + 1 \in DOMAIN s /\ Tail(s)[i] = s[i + 1]
      /\ \A i \in DOMAIN s : i # 1 => i - 1 \in DOMAIN Tail(s) /\ Tail(s)[i - 1] = s[i]
      /\ DOMAIN s \subseteq Nat \ {0} /\ DOMAIN Tail(s) \subseteq Nat
  BY HeadOrTail
<1>2. DOMAIN Tail(s) = 1..Len(Tail(s))
  BY <1>1, LenProperties
<1>3. \A i \in DOMAIN Tail(s) : i + 1 # 1
  BY <1>2
<1>4. \A x : x \in ToSet(s) <=> x \in ToSet(Tail(s)) \/ x = Head(s)
  <2>1. \A x : x \in ToSet(s) <=> \E i \in DOMAIN s : x = s[i]
    BY Zenon DEF ToSet
  <2>2. \A x : x \in ToSet(Tail(s)) <=> \E i \in DOMAIN Tail(s) : x = Tail(s)[i]
    BY Zenon DEF ToSet
  <2>3. ASSUME NEW i \in DOMAIN s
        PROVE  s[i] = Head(s) \/ \E j \in DOMAIN Tail(s) : s[i] = Tail(s)[j]
    BY <1>1
  <2> QED
    BY <1>1, <2>1, <2>2, <2>3
<1>5. ASSUME IsInjective(s)
      PROVE  IsInjective(Tail(s)) /\ Head(s) \notin ToSet(Tail(s))
  <2>1. \A i, j \in DOMAIN s : s[i] = s[j] => i = j
    BY <1>5 DEF IsInjective
  <2>2. \A i, j \in DOMAIN Tail(s) : i + 1 = j + 1 => i = j
    BY <1>1
  <2>3. \A i, j \in DOMAIN Tail(s) : Tail(s)[i] = Tail(s)[j] => i = j
    BY <1>1, <2>1, <2>2
  <2>4. \A i \in DOMAIN Tail(s) : Tail(s)[i] # s[1]
    BY <1>1, <1>3, <2>1
  <2> QED
    BY <1>1, <2>3, <2>4 DEF IsInjective, ToSet
<1> QED
  BY <1>1, <1>4, <1>5

\* A session's subscriptions, in order.
LEMMA StreamCalls ==
  ASSUME NEW s \in Session
  PROVE  LET calls == <<Threads!Subscribe(s), Threads!SubscribeProgressBars(s)>>
         IN  /\ calls \in Seq(Threads!Call) /\ IsInjective(calls)
             /\ ToSet(calls) \subseteq Threads!Streams(s)
<1> DEFINE a == Threads!Subscribe(s)
           b == Threads!SubscribeProgressBars(s)
           calls == <<a, b>>
<1>1. a # b
  BY DEF Threads!Subscribe, Threads!SubscribeProgressBars
<1>2. a \in Threads!Streams(s) /\ b \in Threads!Streams(s)
  BY DEF Threads!Streams
<1>3. a \in Threads!Call /\ b \in Threads!Call
  BY <1>2, CallKinds
<1> HIDE DEF a, b
<1>4. calls \in Seq(Threads!Call)
  BY <1>3
<1>5. DOMAIN calls = {1, 2} /\ calls[1] = a /\ calls[2] = b
  OBVIOUS
<1> HIDE DEF calls
<1>6. IsInjective(calls) /\ ToSet(calls) \subseteq Threads!Streams(s)
  BY <1>1, <1>2, <1>5 DEF IsInjective, ToSet
<1> QED
  BY <1>4, <1>6 DEF calls, a, b

LEMMA ConcatSet ==
  ASSUME NEW S, NEW s \in Seq(S), NEW r \in Seq(S), IsInjective(s), IsInjective(r),
         ToSet(s) \cap ToSet(r) = {}
  PROVE  /\ s \o r \in Seq(S) /\ IsInjective(s \o r)
         /\ ToSet(s \o r) \subseteq ToSet(s) \cup ToSet(r)
<1> DEFINE q == s \o r
<1>1. /\ Len(s) \in Nat /\ Len(r) \in Nat /\ q \in Seq(S) /\ Len(q) = Len(s) + Len(r)
      /\ \A i \in 1..(Len(s) + Len(r)) :
           q[i] = IF i <= Len(s) THEN s[i] ELSE r[i - Len(s)]
  BY ConcatProperties, LenProperties
<1>2. DOMAIN s = 1..Len(s) /\ DOMAIN r = 1..Len(r) /\ DOMAIN q = 1..(Len(s) + Len(r))
  BY <1>1, LenProperties
<1>3. /\ \A i, j \in 1..Len(s) : s[i] = s[j] => i = j
      /\ \A i, j \in 1..Len(r) : r[i] = r[j] => i = j
  BY <1>2 DEF IsInjective
<1>4. /\ \A i \in 1..Len(s) : s[i] \in ToSet(s)
      /\ \A i \in 1..Len(r) : r[i] \in ToSet(r)
  BY <1>2 DEF ToSet
<1>5. \A i \in 1..Len(s), j \in 1..Len(r) : s[i] # r[j]
  BY <1>4
<1>6. ASSUME NEW i \in 1..(Len(s) + Len(r))
      PROVE  \/ i \in 1..Len(s) /\ q[i] = s[i]
             \/ i - Len(s) \in 1..Len(r) /\ q[i] = r[i - Len(s)]
  BY <1>1
<1> HIDE DEF q
<1>7. ASSUME NEW i \in 1..(Len(s) + Len(r)), NEW j \in 1..(Len(s) + Len(r)), q[i] = q[j]
      PROVE  i = j
  <2>1. CASE i \in 1..Len(s) /\ q[i] = s[i] /\ j \in 1..Len(s) /\ q[j] = s[j]
    BY <1>3, <1>7, <2>1
  <2>2. CASE i - Len(s) \in 1..Len(r) /\ q[i] = r[i - Len(s)]
             /\ j - Len(s) \in 1..Len(r) /\ q[j] = r[j - Len(s)]
    <3>1. i - Len(s) = j - Len(s)
      BY <1>3, <1>7, <2>2
    <3> QED
      BY <1>1, <3>1
  <2>3. CASE i \in 1..Len(s) /\ q[i] = s[i]
             /\ j - Len(s) \in 1..Len(r) /\ q[j] = r[j - Len(s)]
    BY <1>5, <1>7, <2>3
  <2>4. CASE i - Len(s) \in 1..Len(r) /\ q[i] = r[i - Len(s)]
             /\ j \in 1..Len(s) /\ q[j] = s[j]
    BY <1>5, <1>7, <2>4
  <2> QED
    BY <1>6, <2>1, <2>2, <2>3, <2>4
<1>8. IsInjective(q)
  BY <1>2, <1>7 DEF IsInjective
<1>9. \A x \in ToSet(q) : x \in ToSet(s) \cup ToSet(r)
  <2>1. \A i \in 1..(Len(s) + Len(r)) : q[i] \in ToSet(s) \cup ToSet(r)
    BY <1>4, <1>6
  <2> QED
    BY <1>2, <2>1 DEF ToSet
<1> QED
  BY <1>1, <1>8, <1>9 DEF q

LEMMA ServingLess ==
  ASSUME Threads!Bounds, Queued, NEW C
  PROVE  /\ IsFiniteSet(serving \ C) /\ Cardinality(serving \ C) <= Pool
<1>1. IsFiniteSet(serving \ C) /\ Cardinality(serving \ C) <= Cardinality(serving)
  BY FS_Subset DEF Queued
<1>2. Cardinality(serving \ C) \in Nat /\ Cardinality(serving) \in Nat /\ Pool \in Nat
  BY <1>1, FS_CardinalityType DEF Queued, Threads!Bounds
<1> QED
  BY <1>1, <1>2 DEF Queued

LEMMA CallQueued ==
  ASSUME Threads!Bounds, Queued, NEW C, NEW c \in Threads!Call, c \notin Made,
         waiting' = Append(waiting, c), serving' = serving \ C
  PROVE  /\ Queued' /\ Made' \subseteq Made \cup {c}
         /\ \A d \in C : d \in serving => d \notin Made'
<1>1. waiting \in Seq(Threads!Call) /\ IsInjective(waiting) /\ c \notin ToSet(waiting)
  BY DEF Queued, Made
<1>2. /\ waiting' \in Seq(Threads!Call) /\ IsInjective(waiting')
      /\ ToSet(waiting') = ToSet(waiting) \cup {c}
  BY <1>1, AppendSet
<1>3. IsFiniteSet(serving') /\ Cardinality(serving') <= Pool
  BY ServingLess
<1> QED
  BY <1>2, <1>3 DEF Queued, Made

LEMMA StreamsQueued ==
  ASSUME Queued, NEW s \in Session, \A c \in Threads!Streams(s) : c \notin Made,
         waiting' = waiting \o <<Threads!Subscribe(s), Threads!SubscribeProgressBars(s)>>,
         serving' = serving
  PROVE  Queued' /\ Made' \subseteq Made \cup Threads!Streams(s)
<1> DEFINE calls == <<Threads!Subscribe(s), Threads!SubscribeProgressBars(s)>>
<1>1. /\ calls \in Seq(Threads!Call) /\ IsInjective(calls)
      /\ ToSet(calls) \subseteq Threads!Streams(s)
  BY StreamCalls
<1>2. waiting \in Seq(Threads!Call) /\ IsInjective(waiting) /\ ToSet(waiting) \subseteq Made
  BY DEF Queued, Made
<1>3. waiting' = waiting \o calls
  OBVIOUS
<1> HIDE DEF calls
<1>4. ToSet(waiting) \cap ToSet(calls) = {}
  BY <1>1, <1>2
<1>5. /\ waiting' \in Seq(Threads!Call) /\ IsInjective(waiting')
      /\ ToSet(waiting') \subseteq ToSet(waiting) \cup ToSet(calls)
  <2>1. /\ waiting \o calls \in Seq(Threads!Call) /\ IsInjective(waiting \o calls)
        /\ ToSet(waiting \o calls) \subseteq ToSet(waiting) \cup ToSet(calls)
    BY <1>1, <1>2, <1>4, ConcatSet
  <2> QED
    BY <1>3, <2>1
<1>6. \A c \in serving : c \notin ToSet(waiting')
  BY <1>1, <1>5 DEF Queued, Made
<1> QED
  BY <1>1, <1>5, <1>6 DEF Queued, Made

LEMMA CallServed ==
  ASSUME Threads!Bounds, Queued, Threads!Serve
  PROVE  Queued' /\ Made' = Made
<1>1. /\ waiting # <<>> /\ Cardinality(serving) < Pool
      /\ serving' = serving \cup {Head(waiting)} /\ waiting' = Tail(waiting)
  BY SameOperators DEF Threads!Serve
<1>2. /\ waiting \in Seq(Threads!Call) /\ IsInjective(waiting)
      /\ serving \subseteq Threads!Call \ ToSet(waiting) /\ IsFiniteSet(serving)
  BY DEF Queued
<1>3. /\ waiting' \in Seq(Threads!Call) /\ IsInjective(waiting')
      /\ Head(waiting) \in ToSet(waiting) /\ Head(waiting) \notin ToSet(waiting')
      /\ ToSet(waiting) = ToSet(waiting') \cup {Head(waiting)}
  BY <1>1, <1>2, TailSet
<1>4. Head(waiting) \in Threads!Call
  BY <1>1, <1>2, HeadOrTail
<1>5. IsFiniteSet(serving') /\ Cardinality(serving') <= Pool
  <2>1. /\ IsFiniteSet(serving')
        /\ Cardinality(serving') = IF Head(waiting) \in serving THEN Cardinality(serving)
                                   ELSE Cardinality(serving) + 1
    BY <1>1, <1>2, FS_AddElement
  <2>2. Cardinality(serving) \in Nat /\ Pool \in Nat
    BY <1>2, FS_CardinalityType DEF Threads!Bounds
  <2> QED
    BY <1>1, <2>1, <2>2
<1>6. serving' \subseteq Threads!Call \ ToSet(waiting')
  BY <1>1, <1>2, <1>3, <1>4
<1> QED
  BY <1>1, <1>3, <1>5, <1>6 DEF Queued, Made

LEMMA CallEnded ==
  ASSUME Threads!Bounds, Queued, NEW C, waiting' = waiting, serving' = serving \ C
  PROVE  /\ Queued' /\ Made' \subseteq Made
         /\ \A d \in C : d \in serving => d \notin Made'
<1>1. IsFiniteSet(serving') /\ Cardinality(serving') <= Pool
  BY ServingLess
<1> QED
  BY <1>1 DEF Queued, Made

\* A work gets to x, or stays there; what is made or ended is its own.
LEMMA WorkInTurn ==
  ASSUME MadeInTurn, session' = session, NEW k \in Threads!Task, NEW x \in Stage,
         stage' = [stage EXCEPT ![k] = x],
         NEW C \in SUBSET Threads!CallsOf(k), Made' \subseteq Made \cup C,
         Threads!Unary(k) \in Made' => x # "none",
         Threads!Push(k) \in Made' => x \in {"run", "ask", "close", "ended"},
         Threads!BarCall(k, 1) \in Made' => x \in {"shutdown", "ended"}
  PROVE  MadeInTurn'
<1>1. stage' \in [Threads!Task -> Stage] /\ stage'[k] = x
  BY DEF MadeInTurn
<1>2. ASSUME NEW s \in Session, NEW c \in Threads!Streams(s), c \in Made'
      PROVE  session'[s] # "idle"
  <2>1. c \notin Threads!CallsOf(k)
    BY CallKinds
  <2>2. c \in Made
    BY <1>2, <2>1
  <2> QED
    BY <2>2 DEF MadeInTurn
<1>3. ASSUME NEW j \in Threads!Task
      PROVE  /\ Threads!Unary(j) \in Made' => stage'[j] # "none"
             /\ Threads!Push(j) \in Made' => stage'[j] \in {"run", "ask", "close", "ended"}
             /\ Threads!BarCall(j, 1) \in Made' => stage'[j] \in {"shutdown", "ended"}
  <2>1. CASE j = k
    BY <1>1, <2>1
  <2>2. CASE j # k
    <3>1. stage'[j] = stage[j]
      BY <2>2 DEF MadeInTurn
    <3>2. {Threads!Unary(j), Threads!Push(j), Threads!BarCall(j, 1)} \subseteq Threads!CallsOf(j)
      BY CallKinds
    <3>3. \A c \in Threads!CallsOf(j) : c \notin C
      BY <2>2, CallKinds
    <3> QED
      BY <3>1, <3>2, <3>3 DEF MadeInTurn
  <2> QED
    BY <2>1, <2>2
<1> QED
  BY <1>1, <1>2, <1>3 DEF MadeInTurn

\* The steps of a work.
LEMMA WorkThreads ==
  ASSUME Threads!Bounds, ThreadsInv, NEW k \in Threads!Task,
         \/ Threads!WorkMoves(k) \/ Threads!Ask(k) \/ Threads!SendBar(k)
         \/ Threads!Close(k) \/ Threads!Kill(k) \/ \E i \in 1..2 : Threads!AnswerBar(k, i)
  PROVE  ThreadsInv'
<1> DEFINE u == Threads!Unary(k)
           p == Threads!Push(k)
           b(i) == Threads!BarCall(k, i)
<1>1. /\ {u, p, b(1), b(2)} \subseteq Threads!CallsOf(k)
      /\ {u, p, b(1), b(2)} \subseteq Threads!Call
      /\ u # p /\ u # b(1) /\ u # b(2) /\ p # b(1) /\ p # b(2) /\ b(1) # b(2)
  <2>1. 1 \in 1..2 /\ 2 \in 1..2
    OBVIOUS
  <2> QED
    BY <2>1, CallKinds
<1>2. /\ stage[k] \in Stage /\ stage \in [Threads!Task -> Stage]
      /\ u \in Made => stage[k] # "none"
      /\ p \in Made => stage[k] \in {"run", "ask", "close", "ended"}
      /\ b(1) \in Made => stage[k] \in {"shutdown", "ended"}
  BY DEF ThreadsInv, MadeInTurn
<1>3. Threads!Made = Made
  BY SameOperators
<1> HIDE DEF u, p, b
<1>4. ASSUME NEW x \in Stage, NEW c \in {u, p, b(1), b(2)}, c \notin Made, NEW D,
             session' = session, stage' = [stage EXCEPT ![k] = x],
             waiting' = Append(waiting, c), serving' = serving \ D,
             u \in Made \cup {c} => x # "none",
             p \in Made' => x \in {"run", "ask", "close", "ended"},
             b(1) \in Made \cup {c} => x \in {"shutdown", "ended"}
      PROVE  ThreadsInv'
  <2>1. Queued' /\ Made' \subseteq Made \cup {c}
    BY <1>1, <1>4, CallQueued DEF ThreadsInv
  <2>2. {c} \in SUBSET Threads!CallsOf(k)
    BY <1>1
  <2>3. /\ u \in Made' => x # "none"
        /\ b(1) \in Made' => x \in {"shutdown", "ended"}
    BY <1>4, <2>1
  <2>4. MadeInTurn'
    BY <1>4, <2>1, <2>2, <2>3, WorkInTurn DEF ThreadsInv, u, p, b
  <2> QED
    BY <2>1, <2>4 DEF ThreadsInv
<1>5. ASSUME NEW x \in Stage, NEW D,
             session' = session, stage' = [stage EXCEPT ![k] = x],
             waiting' = waiting, serving' = serving \ D,
             u \in Made => x # "none",
             p \in Made' => x \in {"run", "ask", "close", "ended"},
             b(1) \in Made => x \in {"shutdown", "ended"}
      PROVE  ThreadsInv'
  <2>1. Queued' /\ Made' \subseteq Made
    BY <1>5, CallEnded DEF ThreadsInv
  <2>2. {} \in SUBSET Threads!CallsOf(k) /\ Made' \subseteq Made \cup {}
    BY <2>1
  <2>3. /\ u \in Made' => x # "none"
        /\ b(1) \in Made' => x \in {"shutdown", "ended"}
    BY <1>5, <2>1
  <2>4. MadeInTurn'
    BY <1>5, <2>2, <2>3, WorkInTurn DEF ThreadsInv, u, p, b
  <2> QED
    BY <2>1, <2>4 DEF ThreadsInv
<1>6. ASSUME NEW x \in Stage, stage[k] # "none", x # "none",
             p \in Made => x \in {"run", "ask", "close", "ended"},
             b(1) \in Made => x \in {"shutdown", "ended"}, NEW D,
             session' = session, stage' = [stage EXCEPT ![k] = x],
             waiting' = waiting, serving' = serving \ D
      PROVE  ThreadsInv'
  <2>1. Made' \subseteq Made
    BY <1>6, CallEnded DEF ThreadsInv
  <2> QED
    BY <1>5, <1>6, <2>1
<1>7. CASE Threads!RegisterParams(k)
  <2>1. /\ stage[k] = "none" /\ session' = session
        /\ stage' = [stage EXCEPT ![k] = "register"]
        /\ waiting' = Append(waiting, u) /\ serving' = serving \ {}
    BY <1>7 DEF Threads!RegisterParams, u
  <2>2. u \notin Made /\ p \notin Made /\ b(1) \notin Made
    BY <1>2, <2>1
  <2>3. Made' \subseteq Made \cup {u}
    BY <1>1, <2>1, <2>2, CallQueued DEF ThreadsInv
  <2>4. p \notin Made' /\ b(1) \notin Made \cup {u} /\ "register" \in Stage
    BY <1>1, <2>2, <2>3 DEF Stage
  <2> QED
    BY <1>4, <2>1, <2>2, <2>4
<1>8. CASE Threads!Connect(k)
  <2>1. /\ stage[k] = "submit" /\ session' = session
        /\ stage' = [stage EXCEPT ![k] = "run"]
        /\ waiting' = Append(waiting, p) /\ serving' = serving \ {}
    BY <1>8 DEF Threads!Connect, p
  <2>2. p \notin Made /\ b(1) \notin Made \cup {p} /\ "run" \in Stage
    BY <1>1, <1>2, <2>1 DEF Stage
  <2> QED
    BY <1>4, <2>1, <2>2
<1>9. CASE Threads!Ask(k)
  <2>1. /\ stage[k] = "run" /\ u \notin Made /\ session' = session
        /\ stage' = [stage EXCEPT ![k] = "ask"]
        /\ waiting' = Append(waiting, u) /\ serving' = serving \ {}
    BY <1>3, <1>9 DEF Threads!Ask, u
  <2>2. b(1) \notin Made \cup {u} /\ "ask" \in Stage
    BY <1>1, <1>2, <2>1 DEF Stage
  <2> QED
    BY <1>4, <2>1, <2>2
<1>10. CASE Threads!SendBar(k)
  <2>1. /\ stage[k] \in {"run", "ask", "close"} /\ b(2) \notin Made /\ session' = session
        /\ stage' = [stage EXCEPT ![k] = stage[k]]
        /\ waiting' = Append(waiting, b(2)) /\ serving' = serving \ {}
    BY <1>2, <1>3, <1>10 DEF Threads!SendBar, b
  <2>2. b(1) \notin Made \cup {b(2)}
    BY <1>1, <1>2, <2>1
  <2> QED
    BY <1>2, <1>4, <2>1, <2>2
<1>11. CASE Threads!EndPush(k)
  <2>1. /\ stage[k] = "close" /\ p \in serving /\ session' = session
        /\ stage' = [stage EXCEPT ![k] = "shutdown"] /\ serving' = serving \ {p}
        /\ waiting' = waiting \/ waiting' = Append(waiting, b(1))
    BY <1>11 DEF Threads!EndPush, p, b
  <2>2. b(1) \notin Made /\ "shutdown" \in Stage
    BY <1>2, <2>1 DEF Stage
  <2>3. CASE waiting' = waiting
    <3>1. p \notin Made'
      BY <2>1, <2>3, CallEnded DEF ThreadsInv
    <3> QED
      BY <1>5, <2>1, <2>2, <2>3, <3>1
  <2>4. CASE waiting' = Append(waiting, b(1))
    <3>1. p \notin Made'
      BY <1>1, <2>1, <2>2, <2>4, CallQueued DEF ThreadsInv
    <3> QED
      BY <1>4, <2>1, <2>2, <2>4, <3>1
  <2> QED
    BY <2>1, <2>3, <2>4
<1>12. CASE Threads!EndWork(k) \/ Threads!Kill(k)
  <2>1. /\ stage[k] # "none" /\ session' = session
        /\ stage' = [stage EXCEPT ![k] = "ended"]
        /\ waiting' = waiting /\ serving' = serving \ {}
    BY <1>12 DEF Threads!EndWork, Threads!Kill
  <2>2. "ended" \in Stage
    BY DEF Stage
  <2> QED
    BY <1>6, <2>1, <2>2
<1>13. CASE Threads!Close(k)
  <2>1. /\ stage[k] = "run" /\ session' = session
        /\ stage' = [stage EXCEPT ![k] = "close"]
        /\ waiting' = waiting /\ serving' = serving \ {}
    BY <1>13 DEF Threads!Close
  <2>2. "close" \in Stage
    BY DEF Stage
  <2> QED
    BY <1>2, <1>6, <2>1, <2>2
<1>14. CASE Threads!Answer(k)
  <2> DEFINE x == CASE stage[k] = "register" -> "submit"
                    [] stage[k] = "ask" -> "run" [] OTHER -> stage[k]
  <2>1. /\ u \in serving /\ session' = session
        /\ stage' = [stage EXCEPT ![k] = x]
        /\ waiting' = waiting /\ serving' = serving \ {u}
    BY <1>2, <1>14 DEF Threads!Answer, u
  <2>2. stage[k] # "none"
    BY <1>2, <2>1 DEF Made
  <2>3. /\ x \in Stage /\ x # "none"
        /\ stage[k] \in {"run", "ask", "close", "ended"} =>
             x \in {"run", "ask", "close", "ended"}
        /\ stage[k] \in {"shutdown", "ended"} => x \in {"shutdown", "ended"}
    BY <1>2, <2>2 DEF Stage
  <2> HIDE DEF x
  <2> QED
    BY <1>2, <1>6, <2>1, <2>2, <2>3
<1>15. ASSUME NEW i \in 1..2, Threads!AnswerBar(k, i)
       PROVE  ThreadsInv'
  <2>1. /\ session' = session /\ stage' = [stage EXCEPT ![k] = stage[k]]
        /\ waiting' = waiting /\ serving' = serving \ {b(i)}
    BY <1>2, <1>15 DEF Threads!AnswerBar, b
  <2>2. Made' \subseteq Made
    BY <2>1, CallEnded DEF ThreadsInv
  <2> QED
    BY <1>2, <1>5, <2>1, <2>2
<1> QED
  BY <1>7, <1>8, <1>9, <1>10, <1>11, <1>12, <1>13, <1>14, <1>15 DEF Threads!WorkMoves

LEMMA SessionStarts ==
  ASSUME Threads!Bounds, ThreadsInv, NEW s \in Session, Threads!StartSession(s)
  PROVE  ThreadsInv'
<1>1. /\ session[s] = "idle" /\ session' = [session EXCEPT ![s] = "running"]
      /\ waiting' = waiting \o <<Threads!Subscribe(s), Threads!SubscribeProgressBars(s)>>
      /\ stage' = stage /\ serving' = serving
  BY DEF Threads!StartSession
<1>2. \A c \in Threads!Streams(s) : c \notin Made
  BY <1>1 DEF ThreadsInv, MadeInTurn
<1>3. Queued' /\ Made' \subseteq Made \cup Threads!Streams(s)
  BY <1>1, <1>2, StreamsQueued DEF ThreadsInv
<1>4. /\ session' \in [Session -> {"idle", "running", "over"}]
      /\ session'[s] = "running" /\ \A r \in Session : r # s => session'[r] = session[r]
  BY <1>1 DEF ThreadsInv, MadeInTurn
<1>5. ASSUME NEW r \in Session, NEW c \in Threads!Streams(r), c \in Made'
      PROVE  session'[r] # "idle"
  <2>1. CASE r = s
    BY <1>4, <2>1
  <2>2. CASE r # s
    <3>1. c \notin Threads!Streams(s)
      BY <2>2, CallKinds
    <3> QED
      BY <1>3, <1>4, <1>5, <2>2, <3>1 DEF ThreadsInv, MadeInTurn
  <2> QED
    BY <2>1, <2>2
<1>6. ASSUME NEW k \in Threads!Task
      PROVE  /\ Threads!Unary(k) \in Made' => Threads!Unary(k) \in Made
             /\ Threads!Push(k) \in Made' => Threads!Push(k) \in Made
             /\ Threads!BarCall(k, 1) \in Made' => Threads!BarCall(k, 1) \in Made
  <2>1. \A c \in Threads!Streams(s) :
          c # Threads!Unary(k) /\ c # Threads!Push(k) /\ c # Threads!BarCall(k, 1)
    BY CallKinds
  <2> QED
    BY <1>3, <2>1
<1>7. MadeInTurn'
  BY <1>1, <1>4, <1>5, <1>6 DEF ThreadsInv, MadeInTurn
<1> QED
  BY <1>3, <1>7 DEF ThreadsInv

\* A session is over, and what has not been submitted of it with it.
LEMMA SessionEnds ==
  ASSUME ThreadsInv, NEW s \in Session,
         Threads!EndSession(s) \/ Threads!StopSession(s)
  PROVE  ThreadsInv'
<1>1. /\ session \in [Session -> {"idle", "running", "over"}]
      /\ stage \in [Threads!Task -> Stage]
  BY DEF ThreadsInv, MadeInTurn
<1>2. /\ session' = [session EXCEPT ![s] = "over"]
      /\ waiting' = waiting /\ serving' = serving
  BY DEF Threads!EndSession, Threads!StopSession
<1>3. /\ stage' \in [Threads!Task -> Stage]
      /\ \A k \in Threads!Task : stage'[k] \in {stage[k], "ended"}
  <2>1. CASE Threads!StopSession(s)
    <3>1. stage' = [k \in Threads!Task |->
            IF k[1] = s /\ stage[k] \in {"none", "register"} THEN "ended" ELSE stage[k]]
      BY <2>1 DEF Threads!StopSession
    <3> QED
      BY <1>1, <3>1 DEF Stage
  <2>2. CASE Threads!EndSession(s)
    BY <1>1, <2>2 DEF Threads!EndSession
  <2> QED
    BY <2>1, <2>2
<1>4. Made' = Made /\ Queued'
  BY <1>2 DEF Made, ThreadsInv, Queued
<1>5. /\ session' \in [Session -> {"idle", "running", "over"}]
      /\ \A r \in Session : session'[r] \in {session[r], "over"}
  BY <1>1, <1>2
<1>6. MadeInTurn'
  BY <1>3, <1>4, <1>5 DEF ThreadsInv, MadeInTurn
<1> QED
  BY <1>4, <1>6 DEF ThreadsInv

LEMMA InitThreads == Threads!Bounds /\ Threads!Init => ThreadsInv
<1> SUFFICES ASSUME Threads!Bounds, Threads!Init
             PROVE  ThreadsInv
  OBVIOUS
<1>1. /\ session = [s \in Session |-> "idle"] /\ stage = [k \in Threads!Task |-> "none"]
      /\ waiting = <<>> /\ serving = {}
  BY DEF Threads!Init
<1>2. Made = {} /\ ToSet(waiting) = {}
  BY <1>1 DEF Made, ToSet
<1>3. Queued
  BY <1>1, <1>2, FS_EmptySet DEF Queued, IsInjective, Threads!Bounds
<1>4. MadeInTurn
  BY <1>1, <1>2 DEF MadeInTurn, Stage
<1> QED
  BY <1>3, <1>4 DEF ThreadsInv

LEMMA NextThreads ==
  Threads!Bounds /\ ThreadsInv /\ [Threads!Next]_(Threads!vars) => ThreadsInv'
<1> SUFFICES ASSUME Threads!Bounds, ThreadsInv, [Threads!Next]_(Threads!vars)
             PROVE  ThreadsInv'
  OBVIOUS
<1>1. ASSUME session' = session, stage' = stage, Queued', Made' \subseteq Made
      PROVE  ThreadsInv'
  BY <1>1 DEF ThreadsInv, MadeInTurn
<1>2. CASE Threads!Serve
  <2>1. Queued' /\ Made' = Made
    BY <1>2, CallServed DEF ThreadsInv
  <2> QED
    BY <1>1, <1>2, <2>1 DEF Threads!Serve
<1>3. ASSUME NEW c, Threads!Release(c)
      PROVE  ThreadsInv'
  <2>1. /\ session' = session /\ stage' = stage
        /\ serving' = serving \ {c} /\ waiting' = waiting
    BY <1>3 DEF Threads!Release
  <2>2. Queued' /\ Made' \subseteq Made
    BY <2>1, CallEnded DEF ThreadsInv
  <2> QED
    BY <1>1, <2>1, <2>2
<1>4. CASE UNCHANGED Threads!vars
  BY <1>1, <1>4 DEF Threads!vars, Made, Queued, ThreadsInv
<1> QED
  BY <1>2, <1>3, <1>4, SessionStarts, SessionEnds, WorkThreads DEF Threads!Next

THEOREM ThreadsInvariance == ASSUME Threads!Bounds PROVE Threads!Spec => []ThreadsInv
BY InitThreads, NextThreads, PTL DEF Threads!Spec

\* A call waits or is served, once, and there are at most max_workers threads.
THEOREM ThreadsType == ASSUME Threads!Bounds PROVE Threads!Spec => []Threads!TypeOK
<1>1. ThreadsInv => Threads!TypeOK
  BY SameOperators, Zenon DEF ThreadsInv, Queued, MadeInTurn, Stage, Threads!TypeOK
<1> QED
  BY <1>1, ThreadsInvariance, PTL

\* What may hold a thread for long: the two subscriptions of each session of R,
\* and the PushEvents of each work of W.
Held(R, W) == {<<m, <<s>>>> : m \in {"Subscribe", "SubscribeProgressBars"}, s \in R}
                \cup {Threads!Push(k) : k \in W}

LEMMA HeldFew ==
  ASSUME NEW R, IsFiniteSet(R), NEW W, IsFiniteSet(W)
  PROVE  /\ IsFiniteSet(Held(R, W))
         /\ Cardinality(Held(R, W)) <= 2 * Cardinality(R) + Cardinality(W)
<1> DEFINE N == {"Subscribe", "SubscribeProgressBars"}
           A == {<<m, <<s>>>> : m \in N, s \in R}
           B == {Threads!Push(k) : k \in W}
           f == [x \in N \X R |-> <<x[1], <<x[2]>>>>]
           g == [k \in W |-> Threads!Push(k)]
<1>1. Cardinality(R) \in Nat /\ Cardinality(W) \in Nat
  BY FS_CardinalityType
<1>2. IsFiniteSet(N) /\ Cardinality(N) = 2
  <2>1. /\ IsFiniteSet({"Subscribe"}) /\ Cardinality({"Subscribe"}) = 1
        /\ N = {"Subscribe"} \cup {"SubscribeProgressBars"}
    BY FS_Singleton
  <2>2. "SubscribeProgressBars" \notin {"Subscribe"}
    OBVIOUS
  <2>3. \A S, x : IsFiniteSet(S) /\ x \notin S =>
          IsFiniteSet(S \cup {x}) /\ Cardinality(S \cup {x}) = Cardinality(S) + 1
    BY FS_AddElement
  <2> QED
    BY <2>1, <2>2, <2>3
<1>3. IsFiniteSet(N \X R) /\ Cardinality(N \X R) = 2 * Cardinality(R)
  BY <1>2, FS_Product
<1>4. f \in Surjection(N \X R, A)
  <2>1. \A x \in N \X R : f[x] = <<x[1], <<x[2]>>>> /\ f[x] \in A
    OBVIOUS
  <2>2. f \in [N \X R -> A]
    BY <2>1
  <2>3. ASSUME NEW a \in A
        PROVE  \E x \in N \X R : f[x] = a
    <3>1. PICK m \in N, s \in R : a = <<m, <<s>>>>
      OBVIOUS
    <3>2. <<m, s>> \in N \X R /\ <<m, s>>[1] = m /\ <<m, s>>[2] = s
      OBVIOUS
    <3>3. f[<<m, s>>] = a
      BY <2>1, <3>1, <3>2
    <3> QED
      BY <3>2, <3>3
  <2> HIDE DEF f, A, N
  <2> QED
    BY <2>2, <2>3 DEF Surjection
<1>5. g \in Surjection(W, B)
  BY DEF Surjection
<1>6. IsFiniteSet(A) /\ Cardinality(A) <= Cardinality(N \X R)
  BY <1>3, <1>4, FS_Surjection
<1>7. IsFiniteSet(B) /\ Cardinality(B) <= Cardinality(W)
  BY <1>5, FS_Surjection
<1>8. Held(R, W) = A \cup B
  BY DEF Held
<1> HIDE DEF A, B, N, f, g
<1>9. /\ IsFiniteSet(A \cup B) /\ IsFiniteSet(A \cap B)
      /\ Cardinality(A \cup B) = Cardinality(A) + Cardinality(B) - Cardinality(A \cap B)
  <2>1. A \cap B \in SUBSET A
    OBVIOUS
  <2> QED
    BY <1>6, <1>7, <2>1, FS_Union, FS_Subset
<1>10. /\ Cardinality(A) \in Nat /\ Cardinality(B) \in Nat
       /\ Cardinality(A \cap B) \in Nat /\ Cardinality(A \cup B) \in Nat
  BY <1>6, <1>7, <1>9, FS_CardinalityType
<1>11. Cardinality(A \cup B) <= 2 * Cardinality(R) + Cardinality(W)
  BY <1>1, <1>3, <1>6, <1>7, <1>9, <1>10
<1> QED
  BY <1>8, <1>9, <1>11

\* If the sessions that run and the works that are connected, also those whose
\* session is over, hold fewer streams than there are threads, then a thread is
\* free or one of the calls that are served ends by itself, for any sessions and
\* works and any number of threads.
THEOREM ThreadToSpare ==
  ASSUME Threads!Bounds PROVE Threads!Spec => []Threads!SpareThread
<1> DEFINE R == Threads!Running
           W == Threads!Connected
<1>1. /\ IsFiniteSet(R) /\ IsFiniteSet(W)
      /\ Threads!Crowd = 2 * Cardinality(R) + Cardinality(W)
  <2>1. IsFiniteSet(Session) /\ IsFiniteSet(Work)
    BY SameOperators DEF Threads!Bounds
  <2>2. IsFiniteSet(Session \X Work)
    BY <2>1, FS_Product
  <2>3. R \subseteq Session /\ W \subseteq Session \X Work
    BY DEF Threads!Running, Threads!Connected, Threads!Task
  <2>4. Threads!Crowd = 2 * Cardinality(R) + Cardinality(W)
    BY SameOperators, Zenon DEF Threads!Crowd
  <2> QED
    BY <2>1, <2>2, <2>3, <2>4, FS_Subset
<1>2. ASSUME ThreadsInv, \A c \in serving : ~Threads!Passing(c)
      PROVE  Cardinality(serving) <= Threads!Crowd
  <2>1. ASSUME NEW c \in serving
        PROVE  c \in Held(R, W)
    <3>1. c \in Threads!Call /\ c \in Made /\ ~Threads!Gone(c)
      BY <1>2, <2>1 DEF ThreadsInv, Queued, Made, Threads!Passing
    <3>2. ASSUME NEW s \in Session, c \in Threads!Streams(s)
          PROVE  c \in Held(R, W)
      <4>1. session[s] \in {"idle", "running", "over"} /\ session[s] # "idle"
        BY <1>2, <3>1, <3>2 DEF ThreadsInv, MadeInTurn
      <4>2. session[s] # "over"
        BY <3>1, <3>2 DEF Threads!Gone
      <4>3. s \in R
        BY <4>1, <4>2 DEF Threads!Running
      <4> QED
        BY <3>2, <4>3 DEF Threads!Streams, Threads!Subscribe,
             Threads!SubscribeProgressBars, Held
    <3>3. ASSUME NEW k \in Threads!Task, c \in Threads!CallsOf(k)
          PROVE  c \in Held(R, W)
      <4>1. c \notin {Threads!Unary(k)} \cup Threads!Bars(k)
        BY <1>2, <2>1 DEF Threads!Passing
      <4>2. c = Threads!Push(k)
        BY <3>3, <4>1, CallKinds
      <4>3. stage[k] \in {"run", "ask", "close", "ended"}
        BY <1>2, <3>1, <4>2 DEF ThreadsInv, MadeInTurn
      <4>4. stage[k] # "close"
        BY <1>2, <2>1, <4>2 DEF Threads!Passing
      <4>5. stage[k] # "ended"
        BY <3>1, <3>3 DEF Threads!Gone
      <4>6. k \in W
        BY <4>3, <4>4, <4>5 DEF Threads!Connected
      <4> QED
        BY <4>2, <4>6 DEF Held
    <3> QED
      BY <3>1, <3>2, <3>3, CallKinds
  <2>2. serving \subseteq Held(R, W)
    BY <2>1
  <2>3. /\ IsFiniteSet(Held(R, W))
        /\ Cardinality(Held(R, W)) <= 2 * Cardinality(R) + Cardinality(W)
    BY <1>1, HeldFew
  <2>4. IsFiniteSet(serving) /\ Cardinality(serving) <= Cardinality(Held(R, W))
    BY <2>2, <2>3, FS_Subset
  <2>5. /\ Cardinality(serving) \in Nat /\ Cardinality(Held(R, W)) \in Nat
        /\ Cardinality(R) \in Nat /\ Cardinality(W) \in Nat
    BY <1>1, <2>3, <2>4, FS_CardinalityType
  <2> QED
    BY <1>1, <2>3, <2>4, <2>5
<1>3. ASSUME ThreadsInv, Threads!Crowd < Pool, \A c \in serving : ~Threads!Passing(c)
      PROVE  Threads!Cardinality(serving) < Pool
  <2>1. Threads!Crowd \in Nat
    <3>1. Cardinality(R) \in Nat /\ Cardinality(W) \in Nat
      BY <1>1, FS_CardinalityType
    <3> QED
      BY <1>1, <3>1
  <2>2. Cardinality(serving) \in Nat /\ Pool \in Nat
    BY <1>3, FS_CardinalityType DEF ThreadsInv, Queued, Threads!Bounds
  <2>3. Cardinality(serving) <= Threads!Crowd
    BY <1>2, <1>3
  <2>4. Cardinality(serving) < Pool
    BY <1>3, <2>1, <2>2, <2>3
  <2> QED
    BY <2>4, SameOperators
<1>4. ThreadsInv => Threads!SpareThread
  BY <1>3, Zenon DEF Threads!SpareThread
<1> QED
  BY <1>4, ThreadsInvariance, PTL
=============================================================================
