-------------------------- MODULE DaemonLifecycle --------------------------
(***************************************************************************)
(* The life of one daemon process (runDaemon, startBroker, runTunnelLoop   *)
(* and the shutdown and disconnect commands of handleDaemonConn), in its   *)
(* three modes: local (no cluster configured), up (it starts the cluster)  *)
(* and connect (the cluster is expected to run).                           *)
(*                                                                         *)
(* Four kinds of goroutine share daemonStatus: main, which waits for the   *)
(* context to be done and then tears down; the startup goroutine ("boot"); *)
(* the tunnel loop; and one handler per client connection.  Each action is *)
(* a critical section, or an external command with what follows it up to   *)
(* the next one.  Timeouts may strike at any time.                         *)
(***************************************************************************)
EXTENDS Naturals, FiniteSets

CONSTANTS Mode, Conn   \* modes considered; client connections

ASSUME ModeAssumption == Mode \subseteq {"local", "up", "connect"}

VARIABLES
  mode,
  ctxDone,         \* the daemon's context is cancelled
  tunnelDone,      \* the tunnel's context is cancelled
  boot,            \* where the startup goroutine is
  attaching,       \* startBroker's connectMode
  main,            \* where the main goroutine is
  seen,            \* what main read of daemonStatus once the context was done
  phase,           \* daemonStatus.Phase
  phases,          \* daemonStatus.phases, as the status of each phase
  tunnel,          \* daemonStatus.Tunnel
  brokerClient,    \* daemonStatus.brokerClient is set
  brokerConn,      \* daemonStatus.brokerConn
  brokerJobID,     \* daemonStatus.brokerJobID is not empty
  brokerReady,     \* the channel is closed
  disconnectOnly,
  handler,         \* what each connection's handler is about to do
  acked,           \* commands answered "ok"
  link,            \* the ssh process forwards the ports
  cluster,         \* Ray runs
  broker           \* "absent", "submitted" (by this daemon), "own", "foreign"

contexts   == <<ctxDone, tunnelDone>>
startup    == <<boot, attaching>>
teardown   == <<main, seen>>
phaseVars  == <<phase, phases>>
brokerVars == <<brokerClient, brokerConn, brokerJobID, brokerReady>>
commands   == <<disconnectOnly, handler, acked>>
world      == <<link, cluster, broker>>
vars == <<mode, contexts, startup, teardown, phaseVars, tunnel, brokerVars,
          commands, world>>

-----------------------------------------------------------------------------
(* The phase list.                                                         *)

Startup(m) == CASE m = "local"   -> {"ray start", "broker start", "broker connect"}
                [] m = "connect" -> {"ssh tunnel", "cluster reachable", "broker attach"}
                [] m = "up"      -> {"ray start", "ssh tunnel", "broker start",
                                     "broker connect"}
Shutdown == {"stop broker", "ray down"}
PhaseStatus == {"pending", "running", "done", "failed"}

\* setPhases(names) followed by startPhase(first)
NewPhases(names, first) ==
  [n \in names |-> IF n = first THEN "running" ELSE "pending"]

\* startPhase and endPhase do nothing for a name that is not in the list.
Mark(ps, n, st) == [k \in DOMAIN ps |-> IF k = n THEN st ELSE ps[k]]
Started(ps, n) == Mark(ps, n, "running")

\* Seeded fault: a failed phase gets a status of which no reader knows.
FinishedError(ps, n, ok) == Mark(ps, n, IF ok THEN "done" ELSE "error")

Finished(ps, n, ok) == Mark(ps, n, IF ok THEN "done" ELSE "failed")

Running == main # "exited"
Reach == mode = "local" \/ link

Init ==
  /\ mode \in Mode
  /\ ctxDone = FALSE /\ tunnelDone = FALSE
  /\ boot = "begin" /\ attaching = FALSE
  /\ main = "wait"
  /\ seen = [conn |-> FALSE, job |-> FALSE]
  /\ phase = "starting" /\ phases = <<>>
  /\ tunnel = "stopped"
  /\ brokerClient = FALSE /\ brokerConn = "nil"
  /\ brokerJobID = FALSE /\ brokerReady = FALSE
  /\ disconnectOnly = FALSE
  /\ handler = [c \in Conn |-> "idle"]
  /\ acked = {}
  /\ link = FALSE
  /\ cluster \in IF mode = "connect" THEN BOOLEAN ELSE {FALSE}
  /\ broker \in IF cluster THEN {"absent", "foreign"} ELSE {"absent"}

-----------------------------------------------------------------------------
(* The startup goroutine.                                                  *)

BootAt(label) == Running /\ boot = label

\* endPhase(n, err); cancel(); return
BootFails(n) ==
  /\ phases' = Finished(phases, n, FALSE)
  /\ ctxDone' = TRUE
  /\ boot' = "failed"

BootBegin ==
  /\ BootAt("begin")
  /\ phases' = NewPhases(Startup(mode),
                         IF mode = "connect" THEN "ssh tunnel" ELSE "ray start")
  /\ boot' = IF mode = "connect" THEN "tunnel" ELSE "ray"
  /\ UNCHANGED <<mode, contexts, attaching, teardown, phase, tunnel,
                 brokerVars, commands, world>>

\* `ray up` or `ray start --head`; no context cancels it, and it may fail with
\* Ray running.
RayUp ==
  /\ BootAt("ray")
  /\ \/ /\ cluster' = TRUE
        /\ phases' = IF mode = "local" THEN Finished(phases, "ray start", TRUE)
                     ELSE Started(Finished(phases, "ray start", TRUE), "ssh tunnel")
        /\ boot' = IF mode = "local" THEN "broker" ELSE "tunnel"
        /\ UNCHANGED ctxDone
     \/ cluster' \in BOOLEAN /\ BootFails("ray start")
  /\ UNCHANGED <<mode, tunnelDone, attaching, teardown, phase, tunnel,
                 brokerVars, commands, link, broker>>

\* The command outlives the daemon.
RayUpOrphan ==
  /\ ~Running /\ boot = "ray"
  /\ cluster' = TRUE
  /\ boot' = "gone"
  /\ UNCHANGED <<mode, contexts, attaching, teardown, phaseVars, tunnel,
                 brokerVars, commands, link, broker>>

\* go runTunnelLoop
StartTunnel ==
  /\ BootAt("tunnel")
  /\ tunnel' = "connecting"
  /\ boot' = "awaitTunnel"
  /\ UNCHANGED <<mode, contexts, attaching, teardown, phaseVars, brokerVars,
                 commands, world>>

\* waitForTunnelUp looks only at daemonStatus.Tunnel.
AwaitTunnel ==
  /\ BootAt("awaitTunnel")
  /\ \/ /\ tunnel = "up"
        /\ phases' = Finished(phases, "ssh tunnel", TRUE)
        /\ boot' = IF mode = "connect" THEN "reach" ELSE "broker"
        /\ UNCHANGED ctxDone
     \/ tunnel # "up" /\ BootFails("ssh tunnel")
  /\ UNCHANGED <<mode, tunnelDone, attaching, teardown, phase, tunnel,
                 brokerVars, commands, world>>

\* waitForTCP(8265); then, in a critical section of its own, disconnectOnly.
ReachCluster ==
  /\ BootAt("reach")
  /\ \/ /\ Reach /\ cluster
        /\ phases' = Finished(Started(phases, "cluster reachable"),
                              "cluster reachable", TRUE)
        /\ boot' = "keep"
        /\ UNCHANGED ctxDone
     \/ BootFails("cluster reachable")
  /\ UNCHANGED <<mode, tunnelDone, attaching, teardown, phase, tunnel,
                 brokerVars, commands, world>>

\* Seeded fault: the flag is left as it is.
KeepNothing ==
  /\ BootAt("keep")
  /\ boot' = "broker"
  /\ UNCHANGED <<mode, contexts, attaching, teardown, phaseVars, tunnel,
                 brokerVars, commands, world>>

KeepCluster ==
  /\ BootAt("keep")
  /\ disconnectOnly' = TRUE
  /\ boot' = "broker"
  /\ UNCHANGED <<mode, contexts, attaching, teardown, phaseVars, tunnel,
                 brokerVars, handler, acked, world>>

\* startBroker reads the flag that a command may have changed meanwhile.
BrokerPhase == IF attaching THEN "broker attach" ELSE "broker start"

StartBroker ==
  /\ BootAt("broker")
  /\ attaching' = disconnectOnly
  /\ phases' = Started(phases, IF disconnectOnly THEN "broker attach" ELSE "broker start")
  /\ boot' = IF disconnectOnly THEN "probe" ELSE "submit"
  /\ UNCHANGED <<mode, contexts, teardown, phase, tunnel, brokerVars, commands,
                 world>>

\* waitForTCP(5001, 5s)
BrokerUp == Reach /\ broker \in {"own", "foreign"}

\* Seeded fault: attaching skips the publication of the client.
ProbeBrokerOnly ==
  /\ BootAt("probe")
  /\ \/ BrokerUp /\ boot' = "close"
     \/ boot' = "submit"
  /\ UNCHANGED <<mode, contexts, attaching, teardown, phaseVars, tunnel,
                 brokerVars, commands, world>>

ProbeBroker ==
  /\ BootAt("probe")
  /\ \/ BrokerUp /\ boot' = "attach"
     \/ boot' = "submit"
  /\ UNCHANGED <<mode, contexts, attaching, teardown, phaseVars, tunnel,
                 brokerVars, commands, world>>

\* `ray job submit --no-wait` under the context; killed, it may have been heard.
SubmitBroker ==
  /\ BootAt("submit")
  /\ LET heard == IF broker = "absent" /\ Reach /\ cluster THEN "submitted" ELSE broker
     IN  \/ /\ ~ctxDone /\ Reach /\ cluster
            /\ broker' = heard
            /\ boot' = "awaitBroker"
            /\ UNCHANGED <<phases, ctxDone>>
         \/ broker' \in {heard, broker} /\ BootFails(BrokerPhase)
  /\ UNCHANGED <<mode, tunnelDone, attaching, teardown, phase, tunnel,
                 brokerVars, commands, link, cluster>>

\* waitForTCP(5001, 60s)
AwaitBroker ==
  /\ BootAt("awaitBroker")
  /\ \/ /\ BrokerUp
        /\ phases' = IF attaching THEN phases
                     ELSE Started(Finished(phases, "broker start", TRUE), "broker connect")
        /\ boot' = "connect"
        /\ UNCHANGED ctxDone
     \/ BootFails(BrokerPhase)
  /\ UNCHANGED <<mode, tunnelDone, attaching, teardown, phase, tunnel,
                 brokerVars, commands, world>>

\* Client, connection and (of a broker submitted here) job id: one critical
\* section.
Publish ==
  /\ Running /\ boot \in {"attach", "connect"}
  /\ brokerClient' = TRUE
  /\ brokerConn' = "open"
  /\ brokerJobID' = (boot = "connect")
  /\ boot' = "close"
  /\ UNCHANGED <<mode, contexts, attaching, teardown, phaseVars, tunnel,
                 brokerReady, commands, world>>

\* Seeded fault: the phase it ends is the one of the other mode.
CloseReadyConnect ==
  /\ BootAt("close")
  /\ brokerReady' = TRUE
  /\ phases' = Finished(phases, "broker connect", TRUE)
  /\ boot' = "ready"
  /\ UNCHANGED <<mode, contexts, attaching, teardown, phase, tunnel,
                 brokerClient, brokerConn, brokerJobID, commands, world>>

CloseReady ==
  /\ BootAt("close")
  /\ brokerReady' = TRUE
  /\ phases' = Finished(phases,
                 IF attaching THEN "broker attach" ELSE "broker connect", TRUE)
  /\ boot' = "ready"
  /\ UNCHANGED <<mode, contexts, attaching, teardown, phase, tunnel,
                 brokerClient, brokerConn, brokerJobID, commands, world>>

\* setPhase("running"), whatever the phase is by now.
SetRunning ==
  /\ BootAt("ready")
  /\ phase' = "running"
  /\ boot' = "done"
  /\ UNCHANGED <<mode, contexts, attaching, teardown, phases, tunnel,
                 brokerVars, commands, world>>

-----------------------------------------------------------------------------
(* The tunnel loop; link is up while its ssh process forwards.             *)

TunnelMoves(from, to) ==
  /\ Running
  /\ tunnel = from
  /\ tunnel' = to
  /\ UNCHANGED <<mode, contexts, startup, teardown, phaseVars, brokerVars,
                 commands, cluster, broker>>

\* cmd.Start; the tunnel is called up before ssh has connected.
SSHStart ==
  /\ link' = FALSE
  /\ \/ ~tunnelDone /\ TunnelMoves("connecting", "up")
     \/ TunnelMoves("connecting", IF tunnelDone THEN "stopped" ELSE "reconnecting")

SSHConnects ==
  /\ Running /\ tunnel = "up" /\ ~link
  /\ link' = TRUE
  /\ UNCHANGED <<mode, contexts, startup, teardown, phaseVars, tunnel,
                 brokerVars, commands, cluster, broker>>

\* ssh exits, by itself or killed when the tunnel's context is done.
SSHExit ==
  /\ link' = FALSE
  /\ \/ TunnelMoves("up", "reconnecting")
     \/ tunnelDone /\ TunnelMoves("up", "stopped")

\* The 5s pause ends with another try or with the context.
TunnelRetry ==
  /\ link' = FALSE
  /\ \/ TunnelMoves("reconnecting", "connecting")
     \/ tunnelDone /\ TunnelMoves("reconnecting", "stopped")

-----------------------------------------------------------------------------
(* Commands and signals.                                                   *)

\* The handler reads the phase, and later answers "ok".
Accept(c, command) ==
  /\ Running
  /\ handler[c] = "idle"
  /\ phase # "stopping"
  /\ handler' = [handler EXCEPT ![c] = command]
  /\ acked' = acked \cup {command}
  /\ UNCHANGED <<mode, contexts, startup, teardown, phaseVars, tunnel,
                 brokerVars, disconnectOnly, world>>

\* It sets the flag, then cancels the daemon's context.
Apply(c) ==
  /\ Running
  /\ handler[c] \in {"shutdown", "disconnect"}
  /\ disconnectOnly' = (handler[c] = "disconnect")
  /\ ctxDone' = TRUE
  /\ handler' = [handler EXCEPT ![c] = "done"]
  /\ UNCHANGED <<mode, tunnelDone, startup, teardown, phaseVars, tunnel,
                 brokerVars, acked, world>>

\* SIGTERM or SIGINT.
Signal ==
  /\ Running /\ ~ctxDone
  /\ ctxDone' = TRUE
  /\ UNCHANGED <<mode, tunnelDone, startup, teardown, phaseVars, tunnel,
                 brokerVars, commands, world>>

-----------------------------------------------------------------------------
(* The main goroutine, from <-ctx.Done() to the end of the process.        *)

MainStopping ==
  /\ main = "wait" /\ ctxDone
  /\ phase' = "stopping"
  /\ main' = "read"
  /\ UNCHANGED <<mode, contexts, startup, seen, phases, tunnel, brokerVars,
                 commands, world>>

MainRead ==
  /\ main = "read"
  /\ seen' = [conn |-> brokerConn = "open", job |-> brokerJobID]
  /\ main' = IF disconnectOnly THEN "leave" ELSE "down"
  /\ UNCHANGED <<mode, contexts, startup, phaseVars, tunnel, brokerVars,
                 commands, world>>

CloseConn == brokerConn' = IF seen.conn THEN "closed" ELSE brokerConn

\* The connection is closed under the one phase "close broker connection".
Leave ==
  /\ main = "leave"
  /\ CloseConn
  /\ phases' = [n \in {"close broker connection"} |-> "done"]
  /\ main' = "return"
  /\ UNCHANGED <<mode, contexts, startup, seen, phase, tunnel, brokerClient,
                 brokerJobID, brokerReady, commands, world>>

\* Seeded fault: the tunnel is torn down with the connection.
BeginDownNoTunnel ==
  /\ main = "down"
  /\ CloseConn
  /\ tunnelDone' = TRUE
  /\ phases' = NewPhases(Shutdown, "stop broker")
  /\ main' = "stopBroker"
  /\ UNCHANGED <<mode, ctxDone, startup, seen, phase, tunnel, brokerClient,
                 brokerJobID, brokerReady, commands, world>>

BeginDown ==
  /\ main = "down"
  /\ CloseConn
  /\ phases' = NewPhases(Shutdown, "stop broker")
  /\ main' = "stopBroker"
  /\ UNCHANGED <<mode, contexts, startup, seen, phase, tunnel, brokerClient,
                 brokerJobID, brokerReady, commands, world>>

\* Seeded fault: the broker must be reachable to be stopped.
StopBrokerReached ==
  /\ main = "stopBroker"
  /\ seen.job => BrokerUp
  /\ broker' = IF seen.job /\ broker = "own" THEN "absent" ELSE broker
  /\ tunnelDone' = TRUE
  /\ phases' = Started(Finished(phases, "stop broker", TRUE), "ray down")
  /\ main' = "rayDown"
  /\ UNCHANGED <<mode, ctxDone, startup, seen, phase, tunnel, brokerVars,
                 commands, link, cluster>>

\* `ray job stop` of the broker, if its job id was read; then tunnelCancel.
StopBroker ==
  /\ main = "stopBroker"
  /\ \E ok \in IF seen.job THEN BOOLEAN ELSE {TRUE} :
       /\ ok /\ seen.job => Reach
       /\ broker' = IF ok /\ seen.job /\ broker \in {"submitted", "own"}
                    THEN "absent" ELSE broker
       /\ phases' = Started(Finished(phases, "stop broker", ok), "ray down")
  /\ tunnelDone' = TRUE
  /\ main' = "rayDown"
  /\ UNCHANGED <<mode, ctxDone, startup, seen, phase, tunnel, brokerVars,
                 commands, link, cluster>>

\* `ray down` or `ray stop`.
RayDown ==
  /\ main = "rayDown"
  /\ \E ok \in BOOLEAN :
       /\ phases' = Finished(phases, "ray down", ok)
       /\ IF ok THEN cluster' = FALSE /\ broker' = "absent"
                ELSE UNCHANGED <<cluster, broker>>
  /\ main' = "return"
  /\ UNCHANGED <<mode, contexts, startup, seen, phase, tunnel, brokerVars,
                 commands, link>>

\* runDaemon returns: the listener closes, the socket is removed, all
\* goroutines end with the process.  Nobody waits for the tunnel loop to kill
\* ssh, which may be left.
Exit ==
  /\ main = "return"
  /\ main' = "exited"
  /\ tunnelDone' = TRUE
  /\ link' \in {link, FALSE}
  /\ UNCHANGED <<mode, ctxDone, startup, seen, phaseVars, tunnel, brokerVars,
                 commands, cluster, broker>>

-----------------------------------------------------------------------------
(* The cluster: a submitted broker starts to listen.                       *)

BrokerStarts ==
  /\ broker = "submitted"
  /\ broker' = IF cluster THEN "own" ELSE "absent"
  /\ UNCHANGED <<mode, contexts, startup, teardown, phaseVars, tunnel,
                 brokerVars, commands, link, cluster>>

-----------------------------------------------------------------------------
Boot ==
  \/ BootBegin \/ RayUp \/ StartTunnel \/ AwaitTunnel \/ ReachCluster
  \/ KeepCluster \/ StartBroker \/ ProbeBroker \/ SubmitBroker \/ AwaitBroker
  \/ Publish \/ CloseReady \/ SetRunning

Main ==
  \/ MainStopping \/ MainRead \/ Leave \/ BeginDown \/ StopBroker \/ RayDown
  \/ Exit

Next ==
  \/ Boot \/ RayUpOrphan
  \/ SSHStart \/ SSHConnects \/ SSHExit \/ TunnelRetry
  \/ \E c \in Conn : Apply(c) \/ \E m \in {"shutdown", "disconnect"} : Accept(c, m)
  \/ Signal \/ Main \/ BrokerStarts

Spec == Init /\ [][Next]_vars

\* The goroutines run; every wait of the startup has a timeout and every
\* command returns.  Nothing is asked of ssh, of Ray or of clients.
FairSpec ==
  /\ Spec
  /\ WF_vars(Boot) /\ WF_vars(Main)
  /\ \A c \in Conn : WF_vars(Apply(c))

-----------------------------------------------------------------------------
(* Properties.                                                             *)

BootPcs == {"begin", "ray", "tunnel", "awaitTunnel", "reach", "keep", "broker",
            "probe", "submit", "awaitBroker", "attach", "connect", "close",
            "ready", "done", "failed", "gone"}
MainPcs == {"wait", "read", "leave", "down", "stopBroker", "rayDown", "return",
            "exited"}

FlagType ==
  /\ ctxDone \in BOOLEAN /\ tunnelDone \in BOOLEAN /\ attaching \in BOOLEAN
  /\ brokerClient \in BOOLEAN /\ brokerJobID \in BOOLEAN
  /\ brokerReady \in BOOLEAN /\ disconnectOnly \in BOOLEAN
  /\ link \in BOOLEAN /\ cluster \in BOOLEAN

PlaceType ==
  /\ mode \in Mode
  /\ boot \in BootPcs
  /\ main \in MainPcs
  /\ seen \in [conn : BOOLEAN, job : BOOLEAN]
  /\ handler \in [Conn -> {"idle", "shutdown", "disconnect", "done"}]
  /\ acked \subseteq {"shutdown", "disconnect"}

StatusType ==
  /\ phase \in {"starting", "running", "stopping"}
  /\ \A n \in DOMAIN phases : phases[n] \in PhaseStatus
  /\ tunnel \in {"connecting", "up", "reconnecting", "stopped"}
  /\ brokerConn \in {"nil", "open", "closed"}
  /\ broker \in {"absent", "submitted", "own", "foreign"}

TypeOK == FlagType /\ PlaceType /\ StatusType

\* The startup published a client before anyone may wait for brokerReady, and
\* only a daemon whose startup went through is ever "running".
ReadyHasClient ==
  /\ brokerReady => brokerClient /\ brokerConn # "nil"
  /\ phase = "running" => brokerReady

\* The tunnel's context outlives the stop of the broker.
TunnelOutlivesBroker ==
  main \in {"wait", "read", "down", "stopBroker"} => ~tunnelDone

\* A daemon that has connected to a running cluster takes it down only if it
\* was told to shut down: not on a signal, nor on a disconnect.
ConnectedLeavesCluster ==
  mode = "connect" /\ main \in {"down", "stopBroker", "rayDown"} /\ seen.conn
    => "shutdown" \in acked

\* A startup that has failed, and a shutdown or disconnect that was answered
\* "ok", end the daemon, whatever else is under way.
DaemonEnds == (boot = "failed" \/ acked # {}) ~> ~Running

\* A disconnect that was acknowledged leaves the cluster running, unless a
\* shutdown was acknowledged as well.
DisconnectKeepsCluster ==
  "disconnect" \in acked /\ "shutdown" \notin acked =>
    main \notin {"stopBroker", "rayDown"}
=============================================================================
