--------------------------- MODULE MCFishMonitor ---------------------------
(* Model-checking instance of FishMonitor: a fish of an earlier session,   *)
(* one of the present session and one after a restart.                     *)
EXTENDS FishMonitor

CONSTANTS p1, p2, p3
=============================================================================
