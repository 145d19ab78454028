----------------------- MODULE DaemonLifecycleProofs -----------------------
(* Proofs about the daemon's lifecycle: its type, and the three safety       *)
(* properties of startup and teardown, for any modes and any number of       *)
(* client connections.  At the end, what carries over to a client that       *)
(* watches the daemon (LifecycleView), and what that client may report.      *)
EXTENDS LifecycleView, TLAPS

-----------------------------------------------------------------------------
(* Types.                                                                    *)

LEMMA MarkType ==
  ASSUME NEW ps, NEW n, NEW st \in PhaseStatus,
         \A k \in DOMAIN ps : ps[k] \in PhaseStatus
  PROVE  \A k \in DOMAIN Mark(ps, n, st) : Mark(ps, n, st)[k] \in PhaseStatus
BY DEF Mark

LEMMA FinishedType ==
  ASSUME NEW ps, NEW n, NEW ok,
         \A k \in DOMAIN ps : ps[k] \in PhaseStatus
  PROVE  \A k \in DOMAIN Finished(ps, n, ok) : Finished(ps, n, ok)[k] \in PhaseStatus
<1>1. (IF ok THEN "done" ELSE "failed") \in PhaseStatus BY DEF PhaseStatus
<1> QED BY <1>1, MarkType DEF Finished

LEMMA StartedType ==
  ASSUME NEW ps, NEW n,
         \A k \in DOMAIN ps : ps[k] \in PhaseStatus
  PROVE  \A k \in DOMAIN Started(ps, n) : Started(ps, n)[k] \in PhaseStatus
<1>1. "running" \in PhaseStatus BY DEF PhaseStatus
<1> QED BY <1>1, MarkType DEF Started

LEMMA NewPhasesType ==
  ASSUME NEW names, NEW first
  PROVE  \A k \in DOMAIN NewPhases(names, first) :
           NewPhases(names, first)[k] \in PhaseStatus
BY DEF NewPhases, PhaseStatus

\* The three parts of the type, each preserved by every step.

LEMMA FlagStep == TypeOK /\ [Next]_vars => FlagType'
<1> SUFFICES ASSUME TypeOK, [Next]_vars PROVE FlagType'
  OBVIOUS
<1> USE DEF FlagType, contexts, startup, teardown, phaseVars, brokerVars, commands, world
<1>1. CASE BootBegin
  BY <1>1 DEF BootBegin, BootAt, TypeOK
<1>2. CASE RayUp
  BY <1>2 DEF RayUp, BootAt, BootFails, TypeOK
<1>3. CASE StartTunnel
  BY <1>3 DEF StartTunnel, BootAt, TypeOK
<1>4. CASE AwaitTunnel
  BY <1>4 DEF AwaitTunnel, BootAt, BootFails, TypeOK
<1>5. CASE ReachCluster
  BY <1>5 DEF ReachCluster, BootAt, BootFails, TypeOK
<1>6. CASE KeepCluster
  BY <1>6 DEF KeepCluster, BootAt, TypeOK
<1>7. CASE StartBroker
  BY <1>7 DEF StartBroker, BootAt, TypeOK
<1>8. CASE ProbeBroker
  BY <1>8 DEF ProbeBroker, BootAt, TypeOK
<1>9. CASE SubmitBroker
  BY <1>9 DEF SubmitBroker, BootAt, BootFails, TypeOK
<1>10. CASE AwaitBroker
  BY <1>10 DEF AwaitBroker, BootAt, BootFails, TypeOK
<1>11. CASE Publish
  BY <1>11 DEF Publish, BootAt, TypeOK
<1>12. CASE CloseReady
  BY <1>12 DEF CloseReady, BootAt, TypeOK
<1>13. CASE SetRunning
  BY <1>13 DEF SetRunning, BootAt, TypeOK
<1>14. CASE RayUpOrphan
  BY <1>14 DEF RayUpOrphan, TypeOK
<1>15. CASE SSHStart \/ SSHExit \/ TunnelRetry
  <2>1. CASE SSHStart
    BY <2>1 DEF SSHStart, TunnelMoves, TypeOK
  <2>2. CASE SSHExit
    BY <2>2 DEF SSHExit, TunnelMoves, TypeOK
  <2>3. CASE TunnelRetry
    BY <2>3 DEF TunnelRetry, TunnelMoves, TypeOK
  <2> QED
    BY <1>15, <2>1, <2>2, <2>3
<1>16. CASE SSHConnects
  BY <1>16 DEF SSHConnects, TypeOK
<1>17. CASE \E c \in Conn : Apply(c) \/ \E m \in {"shutdown", "disconnect"} : Accept(c, m)
  BY <1>17 DEF Apply, Accept, TypeOK
<1>18. CASE Signal
  BY <1>18 DEF Signal, TypeOK
<1>19. CASE MainStopping
  BY <1>19 DEF MainStopping, CloseConn, TypeOK, PlaceType
<1>20. CASE MainRead
  BY <1>20 DEF MainRead, CloseConn, TypeOK, PlaceType
<1>21. CASE Leave
  BY <1>21 DEF Leave, CloseConn, TypeOK, PlaceType
<1>22. CASE BeginDown
  BY <1>22 DEF BeginDown, CloseConn, TypeOK, PlaceType
<1>23. CASE StopBroker
  BY <1>23 DEF StopBroker, CloseConn, TypeOK, PlaceType
<1>24. CASE RayDown
  BY <1>24 DEF RayDown, CloseConn, TypeOK, PlaceType
<1>25. CASE Exit
  BY <1>25 DEF Exit, CloseConn, TypeOK, PlaceType
<1>26. CASE BrokerStarts
  BY <1>26 DEF BrokerStarts, TypeOK
<1>27. CASE UNCHANGED vars
  BY <1>27 DEF vars, TypeOK
<1> QED BY <1>1, <1>2, <1>3, <1>4, <1>5, <1>6, <1>7, <1>8, <1>9, <1>10, <1>11, <1>12, <1>13, <1>14, <1>15, <1>16, <1>17, <1>18, <1>19, <1>20, <1>21, <1>22, <1>23, <1>24, <1>25, <1>26, <1>27 DEF Next, Boot, Main

LEMMA PlaceStep == TypeOK /\ [Next]_vars => PlaceType'
<1> SUFFICES ASSUME TypeOK, [Next]_vars PROVE PlaceType'
  OBVIOUS
<1> USE DEF TypeOK, PlaceType,
           contexts, startup, teardown, phaseVars, brokerVars, commands, world
<1>1. CASE BootBegin
  BY <1>1 DEF BootBegin, BootAt, BootPcs
<1>2. CASE RayUp
  BY <1>2 DEF RayUp, BootAt, BootFails, BootPcs
<1>3. CASE StartTunnel
  BY <1>3 DEF StartTunnel, BootAt, BootPcs
<1>4. CASE AwaitTunnel
  BY <1>4 DEF AwaitTunnel, BootAt, BootFails, BootPcs
<1>5. CASE ReachCluster
  BY <1>5 DEF ReachCluster, BootAt, BootFails, BootPcs
<1>6. CASE KeepCluster
  BY <1>6 DEF KeepCluster, BootAt, BootPcs
<1>7. CASE StartBroker
  BY <1>7 DEF StartBroker, BootAt, BootPcs
<1>8. CASE ProbeBroker
  BY <1>8 DEF ProbeBroker, BootAt, BootPcs
<1>9. CASE SubmitBroker
  BY <1>9 DEF SubmitBroker, BootAt, BootFails, BootPcs
<1>10. CASE AwaitBroker
  BY <1>10 DEF AwaitBroker, BootAt, BootFails, BootPcs
<1>11. CASE Publish
  BY <1>11 DEF Publish, BootAt, BootPcs
<1>12. CASE CloseReady
  BY <1>12 DEF CloseReady, BootAt, BootPcs
<1>13. CASE SetRunning
  BY <1>13 DEF SetRunning, BootAt, BootPcs
<1>14. CASE RayUpOrphan
  BY <1>14 DEF RayUpOrphan, BootPcs
<1>15. CASE SSHStart \/ SSHExit \/ TunnelRetry
  BY <1>15 DEF SSHStart, SSHExit, TunnelRetry, TunnelMoves
<1>16. CASE SSHConnects
  BY <1>16 DEF SSHConnects
<1>17. CASE \E c \in Conn : Apply(c) \/ \E m \in {"shutdown", "disconnect"} : Accept(c, m)
  <2>1. PICK c \in Conn :
          Apply(c) \/ \E m \in {"shutdown", "disconnect"} : Accept(c, m)
  BY <1>17
  <2>2. CASE Apply(c) BY <2>2 DEF Apply
  <2>3. ASSUME NEW m \in {"shutdown", "disconnect"}, Accept(c, m) PROVE PlaceType'
    BY <2>3 DEF Accept
  <2> QED BY <2>1, <2>2, <2>3
<1>18. CASE Signal
  BY <1>18 DEF Signal
<1>19. CASE MainStopping
  BY <1>19 DEF MainStopping, MainPcs, StatusType
<1>20. CASE MainRead
  <2>1. brokerJobID \in BOOLEAN BY DEF FlagType
  <2>2. (brokerConn = "open") \in BOOLEAN OBVIOUS
  <2>3. seen' \in [conn : BOOLEAN, job : BOOLEAN]
  BY <1>20, <2>1, <2>2 DEF MainRead
  <2> QED BY <1>20, <2>3 DEF MainRead, MainPcs
<1>21. CASE Leave
  BY <1>21 DEF Leave, CloseConn, MainPcs, StatusType
<1>22. CASE BeginDown
  BY <1>22 DEF BeginDown, CloseConn, MainPcs, StatusType
<1>23. CASE StopBroker
  BY <1>23 DEF StopBroker, MainPcs, StatusType
<1>24. CASE RayDown
  BY <1>24 DEF RayDown, MainPcs, StatusType
<1>25. CASE Exit
  BY <1>25 DEF Exit, MainPcs, StatusType
<1>26. CASE BrokerStarts
  BY <1>26 DEF BrokerStarts
<1>27. CASE UNCHANGED vars
  BY <1>27 DEF vars
<1> QED BY <1>1, <1>2, <1>3, <1>4, <1>5, <1>6, <1>7, <1>8, <1>9, <1>10, <1>11,
     <1>12, <1>13, <1>14, <1>15, <1>16, <1>17, <1>18, <1>19, <1>20, <1>21,
     <1>22, <1>23, <1>24, <1>25, <1>26, <1>27 DEF Next, Boot, Main

LEMMA StatusStep == TypeOK /\ [Next]_vars => StatusType'
<1> SUFFICES ASSUME TypeOK, [Next]_vars PROVE StatusType'
  OBVIOUS
<1> USE DEF TypeOK, StatusType,
           contexts, startup, teardown, phaseVars, brokerVars, commands, world
<1>1. CASE BootBegin
  BY <1>1, NewPhasesType DEF BootBegin, BootAt
<1>2. CASE RayUp
  BY <1>2, FinishedType, StartedType DEF RayUp, BootAt, BootFails
<1>3. CASE StartTunnel
  BY <1>3 DEF StartTunnel, BootAt
<1>4. CASE AwaitTunnel
  BY <1>4, FinishedType, StartedType DEF AwaitTunnel, BootAt, BootFails
<1>5. CASE ReachCluster
  BY <1>5, FinishedType, StartedType DEF ReachCluster, BootAt, BootFails
<1>6. CASE KeepCluster
  BY <1>6 DEF KeepCluster, BootAt
<1>7. CASE StartBroker
  BY <1>7, FinishedType, StartedType DEF StartBroker, BootAt
<1>8. CASE ProbeBroker
  BY <1>8 DEF ProbeBroker, BootAt
<1>9. CASE SubmitBroker
  BY <1>9, FinishedType, StartedType DEF SubmitBroker, BootAt, BootFails
<1>10. CASE AwaitBroker
  BY <1>10, FinishedType, StartedType DEF AwaitBroker, BootAt, BootFails
<1>11. CASE Publish
  BY <1>11 DEF Publish, BootAt
<1>12. CASE CloseReady
  BY <1>12, FinishedType, StartedType DEF CloseReady, BootAt
<1>13. CASE SetRunning
  BY <1>13 DEF SetRunning, BootAt
<1>14. CASE RayUpOrphan
  BY <1>14 DEF RayUpOrphan
<1>15. CASE SSHStart \/ SSHExit \/ TunnelRetry
  BY <1>15 DEF SSHStart, SSHExit, TunnelRetry, TunnelMoves
<1>16. CASE SSHConnects
  BY <1>16 DEF SSHConnects
<1>17. CASE \E c \in Conn : Apply(c) \/ \E m \in {"shutdown", "disconnect"} : Accept(c, m)
  BY <1>17 DEF Apply, Accept
<1>18. CASE Signal
  BY <1>18 DEF Signal
<1>19. CASE MainStopping
  BY <1>19 DEF MainStopping
<1>20. CASE MainRead
  BY <1>20 DEF MainRead
<1>21. CASE Leave
  BY <1>21, NewPhasesType DEF Leave, CloseConn, PhaseStatus
<1>22. CASE BeginDown
  BY <1>22, NewPhasesType DEF BeginDown, CloseConn
<1>23. CASE StopBroker
  BY <1>23, FinishedType, StartedType DEF StopBroker
<1>24. CASE RayDown
  BY <1>24, FinishedType, StartedType DEF RayDown
<1>25. CASE Exit
  BY <1>25 DEF Exit
<1>26. CASE BrokerStarts
  BY <1>26 DEF BrokerStarts
<1>27. CASE UNCHANGED vars
  BY <1>27 DEF vars
<1> QED BY <1>1, <1>2, <1>3, <1>4, <1>5, <1>6, <1>7, <1>8, <1>9, <1>10, <1>11,
     <1>12, <1>13, <1>14, <1>15, <1>16, <1>17, <1>18, <1>19, <1>20, <1>21,
     <1>22, <1>23, <1>24, <1>25, <1>26, <1>27 DEF Next, Boot, Main

LEMMA TypeInit == Init => TypeOK
<1> SUFFICES ASSUME Init PROVE TypeOK
  OBVIOUS
<1>1. FlagType BY DEF Init, FlagType
<1>2. PlaceType BY DEF Init, PlaceType, BootPcs, MainPcs
<1>3. StatusType BY DEF Init, StatusType
<1> QED BY <1>1, <1>2, <1>3 DEF TypeOK

LEMMA TypeStep == TypeOK /\ [Next]_vars => TypeOK'
BY FlagStep, PlaceStep, StatusStep DEF TypeOK

\* Every variable keeps its type.
THEOREM TypeCorrect == Spec => []TypeOK
BY TypeInit, TypeStep, PTL DEF Spec

-----------------------------------------------------------------------------
(* Safety.  No property is inductive by itself: each needs to know where the *)
(* other goroutine is.                                                       *)

\* The tunnel's context ends with the stop of the broker or with the process.
TunnelInv == tunnelDone => main \in {"rayDown", "return", "exited"}

\* The startup publishes the client before it closes the channel, and closes
\* the channel before it sets the phase.
ReadyInv ==
  /\ brokerConn # "nil" => boot \in {"close", "ready", "done"}
  /\ seen.conn => brokerConn # "nil"
  /\ boot = "close" \/ brokerReady => brokerClient /\ brokerConn # "nil"
  /\ boot = "ready" \/ phase = "running" => brokerReady

\* Past the reachable cluster, the flag of a connecting daemon is unset only by
\* a shutdown; main may read it only then with a connection that is open.
Kept == {"broker", "probe", "submit", "awaitBroker", "attach", "connect",
         "close", "ready", "done"}

KeepInv ==
  /\ \A c \in Conn : handler[c] = "shutdown" => "shutdown" \in acked
  /\ mode = "connect" /\ boot = "ray" => FALSE
  /\ mode = "connect" /\ boot \in Kept /\ ~disconnectOnly => "shutdown" \in acked
  /\ ConnectedLeavesCluster

Inv == TunnelInv /\ ReadyInv /\ KeepInv

LEMMA InvInit == Init => Inv
BY DEF Init, Inv, TunnelInv, ReadyInv, KeepInv, ConnectedLeavesCluster, Kept

LEMMA TunnelStep == TypeOK /\ TunnelInv /\ [Next]_vars => TunnelInv'
<1> SUFFICES ASSUME TypeOK, TunnelInv, [Next]_vars PROVE TunnelInv'
  OBVIOUS
<1> USE DEF TypeOK, TunnelInv,
           contexts, startup, teardown, phaseVars, brokerVars, commands, world
<1>1. CASE BootBegin
  BY <1>1 DEF BootBegin, BootAt
<1>2. CASE RayUp
  BY <1>2 DEF RayUp, BootAt, BootFails
<1>3. CASE StartTunnel
  BY <1>3 DEF StartTunnel, BootAt
<1>4. CASE AwaitTunnel
  BY <1>4 DEF AwaitTunnel, BootAt, BootFails
<1>5. CASE ReachCluster
  BY <1>5 DEF ReachCluster, BootAt, BootFails
<1>6. CASE KeepCluster
  BY <1>6 DEF KeepCluster, BootAt
<1>7. CASE StartBroker
  BY <1>7 DEF StartBroker, BootAt
<1>8. CASE ProbeBroker
  BY <1>8 DEF ProbeBroker, BootAt
<1>9. CASE SubmitBroker
  BY <1>9 DEF SubmitBroker, BootAt, BootFails
<1>10. CASE AwaitBroker
  BY <1>10 DEF AwaitBroker, BootAt, BootFails
<1>11. CASE Publish
  BY <1>11 DEF Publish, BootAt
<1>12. CASE CloseReady
  BY <1>12 DEF CloseReady, BootAt
<1>13. CASE SetRunning
  BY <1>13 DEF SetRunning, BootAt
<1>14. CASE RayUpOrphan
  BY <1>14 DEF RayUpOrphan
<1>15. CASE SSHStart \/ SSHExit \/ TunnelRetry
  BY <1>15 DEF SSHStart, SSHExit, TunnelRetry, TunnelMoves
<1>16. CASE SSHConnects
  BY <1>16 DEF SSHConnects
<1>17. CASE \E c \in Conn : Apply(c) \/ \E m \in {"shutdown", "disconnect"} : Accept(c, m)
  BY <1>17 DEF Apply, Accept
<1>18. CASE Signal
  BY <1>18 DEF Signal
<1>19. CASE MainStopping
  BY <1>19 DEF MainStopping
<1>20. CASE MainRead
  BY <1>20 DEF MainRead
<1>21. CASE Leave
  BY <1>21 DEF Leave, CloseConn
<1>22. CASE BeginDown
  BY <1>22 DEF BeginDown, CloseConn
<1>23. CASE StopBroker
  BY <1>23 DEF StopBroker
<1>24. CASE RayDown
  BY <1>24 DEF RayDown
<1>25. CASE Exit
  BY <1>25 DEF Exit
<1>26. CASE BrokerStarts
  BY <1>26 DEF BrokerStarts
<1>27. CASE UNCHANGED vars
  BY <1>27 DEF vars
<1> QED BY <1>1, <1>2, <1>3, <1>4, <1>5, <1>6, <1>7, <1>8, <1>9, <1>10, <1>11,
     <1>12, <1>13, <1>14, <1>15, <1>16, <1>17, <1>18, <1>19, <1>20, <1>21,
     <1>22, <1>23, <1>24, <1>25, <1>26, <1>27 DEF Next, Boot, Main

LEMMA ReadyStep == TypeOK /\ ReadyInv /\ [Next]_vars => ReadyInv'
<1> SUFFICES ASSUME TypeOK, ReadyInv, [Next]_vars PROVE ReadyInv'
  OBVIOUS
<1> USE DEF TypeOK, ReadyInv,
           contexts, startup, teardown, phaseVars, brokerVars, commands, world
<1>1. CASE BootBegin
  BY <1>1 DEF BootBegin, BootAt
<1>2. CASE RayUp
  BY <1>2 DEF RayUp, BootAt, BootFails
<1>3. CASE StartTunnel
  BY <1>3 DEF StartTunnel, BootAt
<1>4. CASE AwaitTunnel
  BY <1>4 DEF AwaitTunnel, BootAt, BootFails
<1>5. CASE ReachCluster
  BY <1>5 DEF ReachCluster, BootAt, BootFails
<1>6. CASE KeepCluster
  BY <1>6 DEF KeepCluster, BootAt
<1>7. CASE StartBroker
  BY <1>7 DEF StartBroker, BootAt
<1>8. CASE ProbeBroker
  BY <1>8 DEF ProbeBroker, BootAt
<1>9. CASE SubmitBroker
  BY <1>9 DEF SubmitBroker, BootAt, BootFails
<1>10. CASE AwaitBroker
  BY <1>10 DEF AwaitBroker, BootAt, BootFails
<1>11. CASE Publish
  BY <1>11 DEF Publish, BootAt
<1>12. CASE CloseReady
  BY <1>12 DEF CloseReady, BootAt
<1>13. CASE SetRunning
  BY <1>13 DEF SetRunning, BootAt
<1>14. CASE RayUpOrphan
  BY <1>14 DEF RayUpOrphan
<1>15. CASE SSHStart \/ SSHExit \/ TunnelRetry
  BY <1>15 DEF SSHStart, SSHExit, TunnelRetry, TunnelMoves
<1>16. CASE SSHConnects
  BY <1>16 DEF SSHConnects
<1>17. CASE \E c \in Conn : Apply(c) \/ \E m \in {"shutdown", "disconnect"} : Accept(c, m)
  BY <1>17 DEF Apply, Accept
<1>18. CASE Signal
  BY <1>18 DEF Signal
<1>19. CASE MainStopping
  BY <1>19 DEF MainStopping
<1>20. CASE MainRead
  BY <1>20 DEF MainRead
<1>21. CASE Leave
  BY <1>21 DEF Leave, CloseConn
<1>22. CASE BeginDown
  BY <1>22 DEF BeginDown, CloseConn
<1>23. CASE StopBroker
  BY <1>23 DEF StopBroker
<1>24. CASE RayDown
  BY <1>24 DEF RayDown
<1>25. CASE Exit
  BY <1>25 DEF Exit
<1>26. CASE BrokerStarts
  BY <1>26 DEF BrokerStarts
<1>27. CASE UNCHANGED vars
  BY <1>27 DEF vars
<1> QED BY <1>1, <1>2, <1>3, <1>4, <1>5, <1>6, <1>7, <1>8, <1>9, <1>10, <1>11,
     <1>12, <1>13, <1>14, <1>15, <1>16, <1>17, <1>18, <1>19, <1>20, <1>21,
     <1>22, <1>23, <1>24, <1>25, <1>26, <1>27 DEF Next, Boot, Main

LEMMA KeepStep == TypeOK /\ Inv /\ [Next]_vars => KeepInv'
<1> SUFFICES ASSUME TypeOK, Inv, [Next]_vars PROVE KeepInv'
  OBVIOUS
<1> USE DEF TypeOK, PlaceType, Inv, ReadyInv, KeepInv, ConnectedLeavesCluster, Kept,
           contexts, startup, teardown, phaseVars, brokerVars, commands, world
<1>1. CASE BootBegin
  BY <1>1 DEF BootBegin, BootAt
<1>2. CASE RayUp
  BY <1>2 DEF RayUp, BootAt, BootFails
<1>3. CASE StartTunnel
  BY <1>3 DEF StartTunnel, BootAt
<1>4. CASE AwaitTunnel
  BY <1>4 DEF AwaitTunnel, BootAt, BootFails
<1>5. CASE ReachCluster
  BY <1>5 DEF ReachCluster, BootAt, BootFails
<1>6. CASE KeepCluster
  BY <1>6 DEF KeepCluster, BootAt
<1>7. CASE StartBroker
  BY <1>7 DEF StartBroker, BootAt
<1>8. CASE ProbeBroker
  BY <1>8 DEF ProbeBroker, BootAt
<1>9. CASE SubmitBroker
  BY <1>9 DEF SubmitBroker, BootAt, BootFails
<1>10. CASE AwaitBroker
  BY <1>10 DEF AwaitBroker, BootAt, BootFails
<1>11. CASE Publish
  BY <1>11 DEF Publish, BootAt
<1>12. CASE CloseReady
  BY <1>12 DEF CloseReady, BootAt
<1>13. CASE SetRunning
  BY <1>13 DEF SetRunning, BootAt
<1>14. CASE RayUpOrphan
  BY <1>14 DEF RayUpOrphan
<1>15. CASE SSHStart \/ SSHExit \/ TunnelRetry
  BY <1>15 DEF SSHStart, SSHExit, TunnelRetry, TunnelMoves
<1>16. CASE SSHConnects
  BY <1>16 DEF SSHConnects
<1>17. CASE \E c \in Conn : Apply(c) \/ \E m \in {"shutdown", "disconnect"} : Accept(c, m)
  <2>1. PICK c \in Conn :
          Apply(c) \/ \E m \in {"shutdown", "disconnect"} : Accept(c, m)
  BY <1>17
  <2>2. CASE Apply(c) BY <2>2 DEF Apply
  <2>3. ASSUME NEW m \in {"shutdown", "disconnect"}, Accept(c, m) PROVE KeepInv'
    BY <2>3 DEF Accept
  <2> QED BY <2>1, <2>2, <2>3
<1>18. CASE Signal
  BY <1>18 DEF Signal
<1>19. CASE MainStopping
  BY <1>19 DEF MainStopping
<1>20. CASE MainRead
  BY <1>20 DEF MainRead
<1>21. CASE Leave
  BY <1>21 DEF Leave, CloseConn
<1>22. CASE BeginDown
  BY <1>22 DEF BeginDown, CloseConn
<1>23. CASE StopBroker
  BY <1>23 DEF StopBroker
<1>24. CASE RayDown
  BY <1>24 DEF RayDown
<1>25. CASE Exit
  BY <1>25 DEF Exit
<1>26. CASE BrokerStarts
  BY <1>26 DEF BrokerStarts
<1>27. CASE UNCHANGED vars
  BY <1>27 DEF vars
<1> QED BY <1>1, <1>2, <1>3, <1>4, <1>5, <1>6, <1>7, <1>8, <1>9, <1>10, <1>11,
     <1>12, <1>13, <1>14, <1>15, <1>16, <1>17, <1>18, <1>19, <1>20, <1>21,
     <1>22, <1>23, <1>24, <1>25, <1>26, <1>27 DEF Next, Boot, Main

\* The invariant that the three safety properties rest on.
THEOREM Invariance == Spec => []Inv
<1>1. TypeOK /\ Inv /\ [Next]_vars => Inv'
  BY TunnelStep, ReadyStep, KeepStep DEF Inv
<1> QED BY <1>1, InvInit, TypeCorrect, PTL DEF Spec

\* The tunnel's context outlives the stop of the broker.
THEOREM TunnelOutlives == Spec => []TunnelOutlivesBroker
<1>1. Inv => TunnelOutlivesBroker BY DEF Inv, TunnelInv, TunnelOutlivesBroker
<1> QED BY <1>1, Invariance, PTL

\* Who waited for brokerReady finds a client, and only then is the daemon
\* "running".
THEOREM ReadyFindsClient == Spec => []ReadyHasClient
<1>1. Inv => ReadyHasClient BY DEF Inv, ReadyInv, ReadyHasClient
<1> QED BY <1>1, Invariance, PTL

\* A daemon that connected takes the cluster down only if told to.
THEOREM ClusterIsLeft == Spec => []ConnectedLeavesCluster
<1>1. Inv => ConnectedLeavesCluster BY DEF Inv, KeepInv
<1> QED BY <1>1, Invariance, PTL

-----------------------------------------------------------------------------
(* The client that watches.                                                  *)

\* A step of the composition is a step of the daemon, or leaves it alone.
LEMMA ViewLeavesDaemon == [ViewNext]_<<vars, view>> => [Next]_vars
BY DEF ViewNext

\* Whoever watches does not disturb the daemon: what is proved of it alone
\* holds of it when it is watched.
THEOREM WatchedDaemon == ViewSpec => Spec
BY ViewLeavesDaemon, PTL DEF ViewSpec, Spec

\* A closed channel stays closed.
LEMMA ReadyStays == brokerReady = TRUE /\ [Next]_vars => brokerReady' = TRUE
<1> SUFFICES ASSUME brokerReady = TRUE, [Next]_vars PROVE brokerReady' = TRUE
  OBVIOUS
<1> USE DEF brokerVars
<1>1. CASE Boot
  BY <1>1 DEF Boot, BootBegin, RayUp, StartTunnel, AwaitTunnel, ReachCluster,
     KeepCluster, StartBroker, ProbeBroker, SubmitBroker, AwaitBroker, Publish,
     CloseReady, SetRunning
<1>2. CASE Main
  BY <1>2 DEF Main, MainStopping, MainRead, Leave, BeginDown, StopBroker,
     RayDown, Exit
<1>3. CASE RayUpOrphan \/ SSHStart \/ SSHConnects \/ SSHExit \/ TunnelRetry
  BY <1>3 DEF RayUpOrphan, SSHStart, SSHConnects, SSHExit, TunnelRetry, TunnelMoves
<1>4. CASE Signal \/ BrokerStarts
  BY <1>4 DEF Signal, BrokerStarts
<1>5. ASSUME NEW c \in Conn,
             Apply(c) \/ \E m \in {"shutdown", "disconnect"} : Accept(c, m)
      PROVE  brokerReady' = TRUE
  BY <1>5 DEF Apply, Accept
<1>6. CASE UNCHANGED vars
  BY <1>6 DEF vars
<1> QED BY <1>1, <1>2, <1>3, <1>4, <1>5, <1>6 DEF Next

\* "ready" is said of a snapshot in which the daemon was running, and by then
\* its channel was closed.
ReportInv == verdict = "ready" => brokerReady = TRUE

LEMMA ReportStep ==
  TypeOK /\ Inv /\ ReportInv /\ [ViewNext]_<<vars, view>> => ReportInv'
<1> SUFFICES ASSUME TypeOK, Inv, ReportInv, [ViewNext]_<<vars, view>>
             PROVE  ReportInv'
  OBVIOUS
<1> USE DEF ReportInv
<1>1. CASE verdict' = verdict
  BY <1>1, ReadyStays, ViewLeavesDaemon
<1>2. CASE verdict' # verdict
  <2>1. (Watch \/ Late \/ GiveUp) /\ UNCHANGED vars
    BY <1>2 DEF ViewNext, view
  <2>2. verdict' = "ready" => phase = "running"
    BY <1>2, <2>1 DEF Watch, Gone, Late, GiveUp, PollUp, PollDown, PollLog, StartGone, DownGone
  <2>3. phase = "running" => brokerReady = TRUE
    BY DEF Inv, ReadyInv, TypeOK, FlagType
  <2> QED BY <2>1, <2>2, <2>3 DEF vars, brokerVars
<1> QED BY <1>1, <1>2

\* The daemon's invariants, of the daemon that is watched.
LEMMA WatchedInv == ViewSpec => [](TypeOK /\ Inv)
BY WatchedDaemon, TypeCorrect, Invariance, PTL

\* "Pipeline ready." is said only of a daemon with a broker client, whatever
\* happens to it between the poll and the report.
THEOREM ReadyIsTrue == ViewSpec => []ReadyHasBroker
<1>1. Init /\ ViewInit => ReportInv
  BY DEF ViewInit, ReportInv
<1>2. Inv /\ ReportInv => ReadyHasBroker
  BY DEF Inv, ReadyInv, ReportInv, ReadyHasBroker
<1> QED BY <1>1, <1>2, ReportStep, WatchedInv, PTL DEF ViewSpec
=============================================================================
