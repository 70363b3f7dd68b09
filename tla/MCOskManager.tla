---------------------------- MODULE MCOskManager ----------------------------
(* Model-checking instance of OskManager.                                  *)
EXTENDS OskManager
=============================================================================
