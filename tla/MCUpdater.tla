----------------------------- MODULE MCUpdater -----------------------------
(* Model-checking instance of Updater.                                     *)
EXTENDS Updater
=============================================================================
