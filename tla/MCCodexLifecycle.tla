-------------------------- MODULE MCCodexLifecycle --------------------------
(* Small instances of CodexLifecycle for TLC. *)
EXTENDS CodexLifecycle

CONSTANTS o1, o2, host, other
=============================================================================
