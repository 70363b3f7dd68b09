----------------------------- MODULE MCExplorer -----------------------------
EXTENDS Explorer
CONSTANTS stick, rootfs, share
=============================================================================
