----------------------------- MODULE MCStartup -----------------------------
(* Model-checking instance of Startup, and with it of both its parts.      *)
EXTENDS Startup
=============================================================================
