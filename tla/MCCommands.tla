----------------------------- MODULE MCCommands -----------------------------
(***************************************************************************)
(* The commands of one project directory, around its socket (ControlSocket) *)
(* and around its built pipeline (BuildStamp).  The two share no variable, *)
(* so that a behaviour in which only one of them moves shows all there is  *)
(* to see of it; part says which one.  The socket is taken twice, with     *)
(* commands up and down of which no two start a daemon at once, and with   *)
(* all commands in any interleaving.                                       *)
(*                                                                         *)
(* Three commands are enough for a daemon that is started, killed or       *)
(* stopped, and started again while the first is still there; two builds,  *)
(* of which one may be interrupted, and two runs beside them.              *)
(***************************************************************************)
EXTENDS ControlSocket

CONSTANTS d1, d2, x1, x2

VARIABLES
  part,    \* "socket", "races" or "build"
  daemons, signals, file, clients, peers,
  toml, built, stamp, builder, read, runner, at, runs

raceVars == <<daemons, signals, file, clients, peers>>
buildVars == <<toml, built, stamp, builder, read, runner, at, runs>>

Races == INSTANCE ControlSocket WITH
  Daemon <- {d1, d2}, Commands <- {"up", "down", "teardown"},
  UpsInTurn <- FALSE, Prompt <- FALSE,
  daemon <- daemons, signalled <- signals, path <- file, client <- clients,
  peer <- peers

Stamp == INSTANCE BuildStamp WITH
  Builder <- {x1, x2}, Runner <- {x1, x2}, MaxVersion <- 3, Quiet <- TRUE,
  Torn <- None

ASSUME StampAssumption == Stamp!Bounds

RunInit ==
  part \in {"socket", "races", "build"} /\ Init /\ Races!Init /\ Stamp!Init

RunNext ==
  \/ part = "socket" /\ Next /\ UNCHANGED <<part, raceVars, buildVars>>
  \/ part = "races" /\ Races!Next /\ UNCHANGED <<part, vars, buildVars>>
  \/ part = "build" /\ Stamp!Next /\ UNCHANGED <<part, vars, raceVars>>

RunSpec == RunInit /\ [][RunNext]_<<part, vars, raceVars, buildVars>>

-----------------------------------------------------------------------------
(* The properties that are not ControlSocket's, or need fairness.          *)

\* `up` always comes to an end.
EveryUpEnds == part = "socket" => (Fairness => UpEnds)

\* A daemon that `teardown` finds comes to an end, whatever else is going on.
TeardownEnds ==
  /\ [](TypeOK /\ Races!TypeOK)
  /\ part = "races" => (Races!Fairness => Races!SignalledEnd)

\* A run that does not warn is current.
UnwarnedIsCurrent == Stamp!TypeOK /\ Stamp!UnwarnedIsCurrent
=============================================================================
