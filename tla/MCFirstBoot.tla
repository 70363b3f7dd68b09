---------------------------- MODULE MCFirstBoot ----------------------------
(* Model-checking instance of FirstBoot.                                   *)
EXTENDS FirstBoot
=============================================================================
