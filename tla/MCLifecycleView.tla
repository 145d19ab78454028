-------------------------- MODULE MCLifecycleView --------------------------
(* A client of each kind beside a daemon of each mode.                      *)
EXTENDS LifecycleView

AllModes  == {"local", "up", "connect"}
LocalOnly == {"local"}
AllFlows  == {"up", "down", "log"}
DownFlow  == {"down"}
LogFlow   == {"log"}
=============================================================================
