------------------------- MODULE ControlSocketProofs -------------------------
(***************************************************************************)
(* Proofs about ControlSocket, for any number of daemons and commands:     *)
(* commands up and down never make two daemons, if no two of them start    *)
(* one at the same time.                                                   *)
(***************************************************************************)
EXTENDS ControlSocket, FiniteSetTheorems, TLAPS

LEMMA InitType == Init => TypeOK
  BY NoneAssumption DEF Init, TypeOK, Over

LEMMA NextType == TypeOK /\ [Next]_vars => TypeOK'
<1> SUFFICES ASSUME TypeOK, [Next]_vars PROVE TypeOK'
  OBVIOUS
<1> USE NoneAssumption DEF TypeOK, Over
<1>1. ASSUME NEW d \in Daemon, DaemonMoves(d) \/ Stop(d) \/ Crash(d)
      PROVE TypeOK'
  BY <1>1 DEF DaemonMoves, RemoveSocket, Listen, CloseListener, Exit, Stop,
     Crash, Moves
<1>2. ASSUME NEW c \in Client, Up(c) \/ SeeNoSocket(c) PROVE TypeOK'
  BY <1>2 DEF Up, SeeNoSocket, Step
<1>3. ASSUME NEW c \in Client, Down(c) PROVE TypeOK'
  <2>1. CASE Running
    <3>1. path \in Daemon
      BY <2>1 DEF Running, Serving
    <3>2. daemon' = [daemon EXCEPT ![path] = "stopping"] /\ UNCHANGED <<signalled, path, peer>>
      BY <1>3, <2>1 DEF Down
    <3>3. \E l \in {"ignored", "poll", "detached"} : Step(c, "idle", l)
      BY <1>3, <2>1 DEF Down
    <3>. QED BY <3>1, <3>2, <3>3 DEF Step
  <2>2. CASE ~Running
    BY <1>3, <2>2 DEF Down, Step
  <2>. QED BY <2>1, <2>2
<1>4. ASSUME NEW c \in Client, Terminate(c) PROVE TypeOK'
  BY <1>4 DEF Terminate, Step
<1>5. ASSUME NEW c \in Client, Waits(c) PROVE TypeOK'
  BY <1>5 DEF Waits, Spawn, SeeSocket, SpawnTimeout, RemoveFile, Step, Moves
<1>6. CASE UNCHANGED vars
  BY <1>6 DEF vars
<1>. QED
  BY <1>1, <1>2, <1>3, <1>4, <1>5, <1>6 DEF Next

\* Every variable keeps its type, for any daemons and commands.
THEOREM TypeCorrect == Spec => []TypeOK
  BY InitType, NextType, PTL DEF Spec

-----------------------------------------------------------------------------
(* One daemon at a time.                                                   *)

\* A daemon on its way to the socket, or there.
Active ==
  {d \in Daemon : daemon[d] \in {"spawned", "removed", "listening", "stopping"}}

Starts(c) == client[c] \in {"spawn", "wait"}

\* At most one daemon is active; one that serves is named by the file, and none
\* serves while one that has closed its listener may still remove the file.
DaemonInv ==
  /\ \A d, e \in Active : d = e
  /\ \A d \in Serving : path = d
  /\ \A d \in Daemon : daemon[d] = "closed" => Serving = {}

\* At most one command starts a daemon; the one that has found none is the one
\* that waits for what it has spawned.
CommandInv ==
  /\ \A c, e \in Client : Starts(c) /\ Starts(e) => c = e
  /\ \A c \in Client : client[c] = "spawn" => Active = {}
  /\ \A c \in Client : client[c] # "remove"
  /\ \A d \in Daemon : daemon[d] \in {"spawned", "removed"} =>
       \E c \in Client : client[c] = "wait" /\ peer[c] = d

InTurn == UpsInTurn /\ Prompt /\ "teardown" \notin Commands

LEMMA DaemonStep ==
  ASSUME InTurn, TypeOK, DaemonInv, CommandInv, NEW d \in Daemon,
         DaemonMoves(d) \/ Stop(d) \/ Crash(d)
  PROVE  DaemonInv' /\ CommandInv'
<1> USE DEF TypeOK, Active, Serving, InTurn, DaemonInv, CommandInv, Starts
<1>1. CASE RemoveSocket(d)
  BY <1>1 DEF RemoveSocket, Moves
<1>2. CASE Listen(d)
  BY <1>2 DEF Listen, Moves
<1>3. CASE CloseListener(d)
  BY <1>3 DEF CloseListener, Moves
<1>4. CASE Exit(d)
  BY <1>4 DEF Exit, Moves
<1>5. CASE Stop(d) \/ Crash(d)
  BY <1>5 DEF Stop, Crash, Moves
<1>. QED BY <1>1, <1>2, <1>3, <1>4, <1>5 DEF DaemonMoves

LEMMA CommandStep ==
  ASSUME InTurn, TypeOK, DaemonInv, CommandInv, NEW c \in Client,
         Up(c) \/ Down(c) \/ Terminate(c) \/ Waits(c) \/ SeeNoSocket(c)
  PROVE  DaemonInv' /\ CommandInv'
<1> USE DEF TypeOK, Active, Serving, InTurn, DaemonInv, CommandInv, Starts, Over
<1>1. CASE Up(c)
  BY <1>1 DEF Up, Begin, Step, Running
<1>2. CASE Down(c)
  BY <1>2 DEF Down, Begin, Step, Running
<1>3. CASE Terminate(c)
  BY <1>3 DEF Terminate, Begin
<1>4. CASE Spawn(c)
  BY <1>4 DEF Spawn, Step, Moves
<1>5. CASE SeeSocket(c)
  BY <1>5 DEF SeeSocket, Step, Running
<1>6. CASE SpawnTimeout(c)
  BY <1>6 DEF SpawnTimeout, Step, Running
<1>7. CASE RemoveFile(c)
  BY <1>7 DEF RemoveFile, Step
<1>8. CASE SeeNoSocket(c)
  BY <1>8 DEF SeeNoSocket, Step
<1>. QED
  BY <1>1, <1>2, <1>3, <1>4, <1>5, <1>6, <1>7, <1>8 DEF Waits

LEMMA OneOfLive ==
  ASSUME DaemonInv PROVE OneReachable
<1>1. CASE Live = {}
  BY <1>1, FS_EmptySet DEF OneReachable, DaemonInv
<1>2. CASE Live # {}
  <2>1. PICK d \in Live : TRUE
    BY <1>2
  <2>2. Live = {d}
    BY <2>1 DEF DaemonInv, Live, Active
  <2>. QED BY <2>2, FS_Singleton DEF OneReachable, DaemonInv
<1>. QED BY <1>1, <1>2

\* Commands up and down, of which no two start a daemon at the same time, keep a
\* directory with at most one, which can be reached, however daemons stop or crash
\* (runDaemon, daemon.go 500-506, 637; spawnDaemon, 427-435).
THEOREM OneDaemonInTurn ==
  ASSUME UpsInTurn, Prompt, "teardown" \notin Commands
  PROVE  Spec => []OneReachable
<1>1. Init => DaemonInv /\ CommandInv
  BY DEF Init, DaemonInv, CommandInv, Active, Serving, Starts, Over
<1>2. TypeOK /\ DaemonInv /\ CommandInv /\ [Next]_vars => DaemonInv' /\ CommandInv'
  <2>1. InTurn
    BY DEF InTurn
  <2>2. UNCHANGED vars /\ DaemonInv /\ CommandInv => DaemonInv' /\ CommandInv'
    BY DEF vars, DaemonInv, CommandInv, Active, Serving, Starts
  <2>. QED BY <2>1, <2>2, DaemonStep, CommandStep DEF Next
<1>. QED BY <1>1, <1>2, TypeCorrect, OneOfLive, PTL DEF Spec
=============================================================================
