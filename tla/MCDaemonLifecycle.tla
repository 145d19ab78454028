------------------------- MODULE MCDaemonLifecycle -------------------------
(* The three modes, with one or two client connections.                     *)
EXTENDS DaemonLifecycle

AllModes    == {"local", "up", "connect"}
ConnectOnly == {"connect"}
=============================================================================
