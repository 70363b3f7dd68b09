----------------------------- MODULE MCSettings -----------------------------
EXTENDS Settings
=============================================================================
