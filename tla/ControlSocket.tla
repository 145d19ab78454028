--------------------------- MODULE ControlSocket ---------------------------
(***************************************************************************)
(* The daemons and commands of one project directory, which find each      *)
(* other by a socket file (cli/daemon.go isDaemonRunning, spawnDaemon,     *)
(* sendClientCommand and both ends of runDaemon; cli/commands.go           *)
(* pipelineUp, pipelineDown, tailLogUntilDone, pipelineTeardown; connect   *)
(* and disconnect do the same).                                            *)
(*                                                                         *)
(* The file names the listener that was bound last.  A dial succeeds only  *)
(* if this listener is still there; a file without one is stale.           *)
(***************************************************************************)
EXTENDS Naturals, FiniteSets

CONSTANTS
  Daemon,      \* processes that may be spawned
  Client,      \* one command each
  Commands,    \* subset of "up", "down", "teardown"
  UpsInTurn,   \* no `up` is given while another one starts a daemon
  Prompt,      \* a new daemon listens within the 5s that its client waits, and
               \* one that has closed its listener exits before another listens
  None

ASSUME CommandsAssumption == Commands \subseteq {"up", "down", "teardown"}
ASSUME FlagsAssumption == UpsInTurn \in BOOLEAN /\ Prompt \in BOOLEAN
ASSUME NoneAssumption == None \notin Daemon

VARIABLES
  daemon,      \* where each process is
  signalled,   \* those whose context ended before they listened
  path,        \* the listener that the file names, or None
  client,      \* where each command is
  peer         \* the daemon that the command has spawned, or None

vars == <<daemon, signalled, path, client, peer>>

Over == {"started", "already", "late", "notrunning", "ignored", "detached",
         "stopped", "complete"}

Init ==
  /\ daemon = [d \in Daemon |-> "none"]
  /\ signalled = {}
  /\ path = None
  /\ client = [c \in Client |-> "idle"]
  /\ peer = [c \in Client |-> None]

Serving == {d \in Daemon : daemon[d] \in {"listening", "stopping"}}

\* isDaemonRunning
Running == path \in Serving

-----------------------------------------------------------------------------
(* Daemons.                                                                *)

Moves(d, from, to) ==
  daemon[d] = from /\ daemon' = [daemon EXCEPT ![d] = to]

\* Seeded fault: the file of an earlier daemon is left where it is.
KeepSocket(d) ==
  Moves(d, "spawned", "removed") /\ UNCHANGED <<signalled, path, client, peer>>

\* os.Remove, whatever the file names.
RemoveSocket(d) ==
  Moves(d, "spawned", "removed") /\ path' = None /\ UNCHANGED <<signalled, client, peer>>

\* Seeded fault: a signal that comes before the daemon listens is forgotten.
ListenAnew(d) ==
  /\ IF path = None
     THEN Moves(d, "removed", "listening") /\ path' = d
     ELSE Moves(d, "removed", "failed") /\ UNCHANGED path
  /\ signalled' = signalled \ {d}
  /\ UNCHANGED <<client, peer>>

\* net.Listen fails if there is a file again.
Listen(d) ==
  /\ Prompt => \A e \in Daemon : daemon[e] # "closed"
  /\ IF path = None
     THEN Moves(d, "removed", "listening") /\ path' = d
     ELSE Moves(d, "removed", "failed") /\ UNCHANGED path
  /\ UNCHANGED <<signalled, client, peer>>

\* The daemon's context ends: a signal or a start that fails.
Stop(d) ==
  Moves(d, "listening", "stopping") /\ UNCHANGED <<signalled, path, client, peer>>

\* After the teardown: ln.Close, which removes the file by its name.
CloseListener(d) ==
  Moves(d, "stopping", "closed") /\ path' = None /\ UNCHANGED <<signalled, client, peer>>

\* The deferred os.Remove.
Exit(d) ==
  Moves(d, "closed", "gone") /\ path' = None /\ UNCHANGED <<signalled, client, peer>>

\* Killed: the file stays.
Crash(d) ==
  /\ daemon[d] \in {"spawned", "removed", "listening", "stopping"}
  /\ daemon' = [daemon EXCEPT ![d] = "crashed"]
  /\ UNCHANGED <<signalled, path, client, peer>>

-----------------------------------------------------------------------------
(* Commands.                                                               *)

Step(c, from, to) ==
  client[c] = from /\ client' = [client EXCEPT ![c] = to]

Begin(c, command) ==
  /\ command \in Commands
  /\ command = "up" /\ UpsInTurn => \A e \in Client : client[e] \notin {"spawn", "wait"}
  /\ client[c] = "idle"

\* Seeded fault: `up` does not ask whether there is a daemon.
UpUnasked(c) ==
  /\ Begin(c, "up")
  /\ Step(c, "idle", "spawn")
  /\ UNCHANGED <<daemon, signalled, path, peer>>

\* `up`, `connect`: nothing to do if a daemon can be reached.
Up(c) ==
  /\ Begin(c, "up")
  /\ Step(c, "idle", IF Running THEN "already" ELSE "spawn")
  /\ UNCHANGED <<daemon, signalled, path, peer>>

Spawn(c) ==
  /\ Step(c, "spawn", "wait")
  /\ \E d \in Daemon :
       Moves(d, "none", "spawned") /\ peer' = [peer EXCEPT ![c] = d]
  /\ UNCHANGED <<signalled, path>>

\* spawnDaemon dials every 100ms until somebody answers, or 5s have passed.
SeeSocket(c) ==
  /\ Running
  /\ Step(c, "wait", "started")
  /\ UNCHANGED <<daemon, signalled, path, peer>>

SpawnTimeout(c) ==
  /\ Step(c, "wait", "late")
  /\ ~Running
  /\ Prompt => daemon[peer[c]] \notin {"spawned", "removed"}
  /\ UNCHANGED <<daemon, signalled, path, peer>>

\* `down`, `disconnect`: a daemon that is stopping already refuses.  The one
\* that is asked cancels its context.
Down(c) ==
  /\ Begin(c, "down")
  /\ IF Running
     THEN /\ daemon' = [daemon EXCEPT ![path] = "stopping"]
          /\ \E l \in IF daemon[path] = "stopping" THEN {"ignored"}
                      ELSE {"poll", "detached"} : Step(c, "idle", l)
     ELSE Step(c, "idle", "notrunning") /\ UNCHANGED daemon
  /\ UNCHANGED <<signalled, path, peer>>

\* It reports that the daemon has stopped once nobody can be reached.
SeeNoSocket(c) ==
  ~Running /\ Step(c, "poll", "stopped") /\ UNCHANGED <<daemon, signalled, path, peer>>

\* `teardown`: SIGTERM to every daemon that there is.  It kills one that has no
\* handler yet; one that has goes on to its listener before it looks.
Terminate(c) ==
  /\ Begin(c, "teardown")
  /\ Step(c, "idle", "remove")
  /\ \E early \in SUBSET {d \in Daemon : daemon[d] = "spawned"} :
       /\ daemon' = [d \in Daemon |-> IF d \in early THEN "crashed"
                                     ELSE IF daemon[d] = "listening" THEN "stopping"
                                     ELSE daemon[d]]
       /\ signalled' = signalled \cup {d \in Daemon : daemon'[d] \in {"spawned", "removed"}}
  /\ UNCHANGED <<path, peer>>

\* then remove the file, and take Ray down.
RemoveFile(c) ==
  Step(c, "remove", "complete") /\ path' = None /\ UNCHANGED <<daemon, signalled, peer>>

-----------------------------------------------------------------------------
DaemonMoves(d) ==
  RemoveSocket(d) \/ Listen(d) \/ CloseListener(d) \/ Exit(d)

Waits(c) == Spawn(c) \/ SeeSocket(c) \/ SpawnTimeout(c) \/ RemoveFile(c)

Next ==
  \/ \E d \in Daemon : DaemonMoves(d) \/ Stop(d) \/ Crash(d)
  \/ \E c \in Client :
       Up(c) \/ Down(c) \/ Terminate(c) \/ Waits(c) \/ SeeNoSocket(c)

Spec == Init /\ [][Next]_vars

\* Processes run, also those whose context has ended, and a teardown ends.
Fairness ==
  /\ \A d \in Daemon : WF_vars(DaemonMoves(d)) /\ WF_vars(d \in signalled /\ Stop(d))
  /\ \A c \in Client : WF_vars(Waits(c)) /\ WF_vars(SeeNoSocket(c))

-----------------------------------------------------------------------------
(* Properties.                                                             *)

Live == {d \in Daemon : daemon[d] \in {"removed", "listening", "stopping"}}

TypeOK ==
  /\ daemon \in [Daemon -> {"none", "spawned", "removed", "listening",
                            "stopping", "closed", "gone", "failed", "crashed"}]
  /\ signalled \subseteq Daemon
  /\ path \in Daemon \cup {None}
  /\ client \in [Client -> Over \cup {"idle", "spawn", "wait", "poll", "remove"}]
  /\ peer \in [Client -> Daemon \cup {None}]
  /\ \A c \in Client :
       client[c] \in {"wait", "started", "late"} => peer[c] # None

\* A directory has one daemon at a time, and it can be reached: nobody removes
\* or takes the file of a daemon that serves.
OneReachable ==
  Cardinality(Live) <= 1 /\ \A d \in Serving : path = d

\* A daemon that `teardown` finds comes to an end, wherever it is on its way to
\* its listener, whoever removes or takes the file, and though it cannot be asked
\* to stop once the file is gone.
SignalledEnd ==
  \A d \in Daemon :
    d \in signalled ~> daemon[d] \in {"gone", "failed", "crashed"}

\* `up` always comes to an end, and after a crash it starts a daemon again: a
\* stale file is in nobody's way.  It ends without a daemon only if the one that
\* it has spawned was stopped or killed meanwhile.
UpEnds ==
  \A c \in Client :
    client[c] = "wait" ~>
      \/ client[c] = "started"
      \/ client[c] = "late" /\ daemon[peer[c]] \in {"stopping", "closed", "gone", "crashed"}
=============================================================================
