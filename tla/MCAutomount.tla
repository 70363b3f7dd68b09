---------------------------- MODULE MCAutomount ----------------------------
(* Model-checking instance of Automount.                                   *)
EXTENDS Automount, TLC

CONSTANTS stick, camera, disk

\* A stick with a label, one without, and a disk of an unknown file system.
MCLabel == stick :> "SHOW-sda1" @@ camera :> "sda1" @@ disk :> "OLD-sda1"
=============================================================================
