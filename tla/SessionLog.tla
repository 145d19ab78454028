----------------------------- MODULE SessionLog -----------------------------
(***************************************************************************)
(* The api log of one session, and the clients that follow it             *)
(* (startSession and the deferred calls of runSessionWorker in             *)
(* cli/daemon.go; pipelineRun and pipelineProgress in cli/commands.go;     *)
(* tailAPILogUntilDone and tailAPILogPlain in cli/progress_render.go).     *)
(*                                                                         *)
(* Two goroutines of the daemon, one per broker stream, append lines to    *)
(* the log.  When the session is over its deferred calls wait for them (at *)
(* most 5s), close the log, and only then write the .done marker.  A       *)
(* follower reads the log to its end, looks for the marker, and once it    *)
(* has seen it reads to the end one last time.                             *)
(*                                                                         *)
(* A line is known by its number; only how many there are matters.         *)
(***************************************************************************)
EXTENDS Naturals

CONSTANTS
  Client,     \* command line clients, each running one command
  MaxLines,   \* bound on the lines that the streams bring
  TailLines   \* lines kept by openTailAt, which seeks to the last 4 KB

ASSUME BoundsAssumption == MaxLines \in Nat /\ TailLines \in Nat

Stream == {"events", "bars"}

VARIABLES
  ready,     \* brokerReady is closed
  exited,    \* the daemon process has ended
  status,    \* runnerSession.Status; "none" before the session exists
  pc,        \* where startSession, then the session's goroutine, is
  stream,    \* the receiving goroutine of each broker stream
  hasLog,    \* the api log file exists
  written,   \* the lines in it
  doneFile,  \* the .done marker exists
  client,    \* where each client is
  shown      \* how far each follower has come in the log

sessionVars == <<status, pc, stream, hasLog, written, doneFile>>
clientVars  == <<client, shown>>
vars == <<ready, exited, sessionVars, clientVars>>

Following == {"read", "stat", "last"}

Init ==
  /\ ready = FALSE
  /\ exited = FALSE
  /\ status = "none"
  /\ pc = "none"
  /\ stream = [k \in Stream |-> "none"]
  /\ hasLog = FALSE
  /\ written = 0
  /\ doneFile = FALSE
  /\ client = [c \in Client |-> "idle"]
  /\ shown = [c \in Client |-> 0]

-----------------------------------------------------------------------------
(* The daemon.                                                             *)

BrokerReady ==
  /\ ~exited /\ ~ready
  /\ ready' = TRUE
  /\ UNCHANGED <<exited, sessionVars, clientVars>>

\* runDaemon returns without waiting for a session, or the process is killed.
ExitDaemon ==
  /\ ~exited
  /\ exited' = TRUE
  /\ UNCHANGED <<ready, sessionVars, clientVars>>

At(label) == ~exited /\ pc = label

\* The handler of "run": wait for the broker, create the log, record the
\* session.  The client that asked may have given up since.
StartSession ==
  /\ At("asked") /\ ready
  /\ hasLog' = TRUE
  /\ status' = "running"
  /\ pc' = "started"
  /\ UNCHANGED <<ready, exited, stream, written, doneFile, clientVars>>

\* The session ends with its verdict; the deferred calls from `next` on run.
Verdict(next) == status' = "over" /\ pc' = next

OpenLog ==
  /\ At("started")
  /\ \/ Verdict("mark") /\ UNCHANGED hasLog
     \/ pc' = "subscribe" /\ hasLog' = TRUE /\ UNCHANGED status
  /\ UNCHANGED <<ready, exited, stream, written, doneFile, clientVars>>

\* Both streams, or none that anybody reads.
Subscribe ==
  /\ At("subscribe")
  /\ \/ Verdict("close") /\ UNCHANGED stream
     \/ /\ pc' = "work"
        /\ stream' = [k \in Stream |-> "open"]
        /\ UNCHANGED status
  /\ UNCHANGED <<ready, exited, hasLog, written, doneFile, clientVars>>

\* Everything between: the works end, one fails, or `stop`.
EndWork ==
  /\ At("work")
  /\ Verdict("drain")
  /\ UNCHANGED <<ready, exited, stream, hasLog, written, doneFile, clientVars>>

LogOpen == pc \in {"subscribe", "work", "drain", "close"}

\* Recv, Printf.  Once the log is closed the write fails and the line is lost.
Receive(k) ==
  /\ ~exited
  /\ stream[k] = "open"
  /\ LogOpen
  /\ written < MaxLines
  /\ written' = written + 1
  /\ UNCHANGED <<ready, exited, status, pc, stream, hasLog, doneFile, clientVars>>

\* Recv fails: the tunnel or the broker is gone, or the session's context is
\* done.  Nobody subscribes again.
StreamEnds(k) ==
  /\ ~exited
  /\ stream[k] = "open"
  /\ stream' = [stream EXCEPT ![k] = "ended"]
  /\ UNCHANGED <<ready, exited, status, pc, hasLog, written, doneFile, clientVars>>

\* Seeded fault: the drain has no timeout.
DrainAll ==
  /\ At("drain")
  /\ \A k \in Stream : stream[k] = "ended"
  /\ pc' = "close"
  /\ UNCHANGED <<ready, exited, status, stream, hasLog, written, doneFile, clientVars>>

\* The wait for both receivers is over, or the 5s are.
Drain ==
  /\ At("drain")
  /\ pc' = "close"
  /\ UNCHANGED <<ready, exited, status, stream, hasLog, written, doneFile, clientVars>>

CloseLog ==
  /\ At("close")
  /\ pc' = "mark"
  /\ UNCHANGED <<ready, exited, status, stream, hasLog, written, doneFile, clientVars>>

WriteMarker ==
  /\ At("mark")
  /\ doneFile' = TRUE
  /\ pc' = "gone"
  /\ UNCHANGED <<ready, exited, status, stream, hasLog, written, clientVars>>

-----------------------------------------------------------------------------
(* The clients.                                                            *)

\* `run`: the one client whose command starts the session.
Ask(c) ==
  /\ ~exited
  /\ client[c] = "idle" /\ pc = "none"
  /\ client' = [client EXCEPT ![c] = "asked"]
  /\ pc' = "asked"
  /\ UNCHANGED <<ready, exited, status, stream, hasLog, written, doneFile,
                 shown>>

\* The answer with the session's id, read before the client's deadline.
Answered(c) ==
  /\ client[c] = "asked" /\ status # "none"
  /\ client' = [client EXCEPT ![c] = "answered"]
  /\ UNCHANGED <<ready, exited, sessionVars, shown>>

\* No answer in 5s, or the connection broke; the session may start all the same.
GiveUp(c) ==
  /\ client[c] = "asked"
  /\ client' = [client EXCEPT ![c] = "gaveup"]
  /\ UNCHANGED <<ready, exited, sessionVars, shown>>

\* `run` follows the api log; with --plain it has tail(1) follow the session's
\* other log, until the marker is there; with --detach it follows nothing.
Present(c) ==
  /\ client[c] = "answered"
  /\ \E l \in {"open", "tail", "detached"} : client' = [client EXCEPT ![c] = l]
  /\ UNCHANGED <<ready, exited, sessionVars, shown>>

\* `progress`: a snapshot says that the session runs.
Progress(c) ==
  /\ ~exited
  /\ client[c] = "idle" /\ status = "running"
  /\ client' = [client EXCEPT ![c] = "open"]
  /\ UNCHANGED <<ready, exited, sessionVars, shown>>

\* openTailAt: from the start, or from the last lines of a long file.
OpenTailAt(c) ==
  /\ client[c] = "open"
  /\ client' = [client EXCEPT ![c] = IF hasLog THEN "read" ELSE "nolog"]
  /\ shown' = [shown EXCEPT ![c] = IF written > TailLines THEN written - TailLines ELSE 0]
  /\ UNCHANGED <<ready, exited, sessionVars>>

KillTail(c) ==
  /\ client[c] = "tail" /\ doneFile
  /\ client' = [client EXCEPT ![c] = "killed"]
  /\ UNCHANGED <<ready, exited, sessionVars, shown>>

ReadLine(c) ==
  /\ client[c] \in {"read", "last"}
  /\ shown[c] < written
  /\ shown' = [shown EXCEPT ![c] = @ + 1]
  /\ UNCHANGED <<ready, exited, sessionVars, client>>

\* The reader reports the end of the file.
ReadEOF(c) ==
  /\ client[c] \in {"read", "last"}
  /\ shown[c] = written
  /\ client' = [client EXCEPT ![c] = IF @ = "last" THEN "ended" ELSE "stat"]
  /\ UNCHANGED <<ready, exited, sessionVars, shown>>

\* Seeded fault: the marker ends the loop at once.
StatAndStop(c) ==
  /\ client[c] = "stat"
  /\ client' = [client EXCEPT ![c] = IF doneFile THEN "ended" ELSE "read"]
  /\ UNCHANGED <<ready, exited, sessionVars, shown>>

\* Stat the marker; without it sleep 100ms and read on.
StatMarker(c) ==
  /\ client[c] = "stat"
  /\ client' = [client EXCEPT ![c] = IF doneFile THEN "last" ELSE "read"]
  /\ UNCHANGED <<ready, exited, sessionVars, shown>>

-----------------------------------------------------------------------------
Daemon ==
  \/ StartSession \/ OpenLog \/ Subscribe \/ EndWork \/ Drain \/ CloseLog
  \/ WriteMarker

Follower(c) ==
  \/ OpenTailAt(c) \/ ReadLine(c) \/ ReadEOF(c) \/ StatMarker(c)
  \/ KillTail(c)

Next ==
  \/ BrokerReady \/ ExitDaemon \/ Daemon
  \/ \E k \in Stream : Receive(k) \/ StreamEnds(k)
  \/ \E c \in Client :
       \/ Ask(c) \/ Answered(c) \/ GiveUp(c) \/ Present(c) \/ Progress(c)
       \/ Follower(c)

Spec == Init /\ [][Next]_vars

\* Goroutines and clients run; the works may last for ever, and streams owe
\* nothing.
Fairness ==
  /\ WF_vars(Daemon /\ pc # "work")
  /\ \A c \in Client : WF_vars(Follower(c))

-----------------------------------------------------------------------------
(* Properties.                                                             *)

TypeOK ==
  /\ ready \in BOOLEAN /\ exited \in BOOLEAN
  /\ hasLog \in BOOLEAN /\ doneFile \in BOOLEAN
  /\ status \in {"none", "running", "over"}
  /\ pc \in {"none", "asked", "started", "subscribe", "work", "drain", "close",
             "mark", "gone"}
  /\ stream \in [Stream -> {"none", "open", "ended"}]
  /\ written \in 0..MaxLines
  /\ client \in [Client -> {"idle", "asked", "gaveup", "answered", "open", "nolog",
                         "tail", "killed", "detached", "ended"} \cup Following]
  /\ shown \in [Client -> 0..MaxLines]

\* A follower that has ended has read every line from where it started to the
\* last one ever written, and the session has its verdict.  The order of the
\* deferred calls and the follower's last read are both for this.
EndedHasAll ==
  \A c \in Client : client[c] = "ended" =>
    shown[c] = written /\ doneFile /\ status = "over"

\* The log of a session that has its marker does not change any more.
MarkedLogIsFinal == [][doneFile => written' = written]_vars

\* A client that was given the session's id, or saw it running, finds its log.
LogIsFound == \A c \in Client : client[c] # "nolog"

\* When a session is over its followers end, however its streams fare, unless
\* the daemon exits before it has written the marker.
FollowersEnd ==
  \A c \in Client :
    status = "over" /\ client[c] \in Following \cup {"tail"} ~>
      client[c] \in {"ended", "killed"} \/ (exited /\ ~doneFile)
=============================================================================
