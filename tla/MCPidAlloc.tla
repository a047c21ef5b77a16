----------------------------- MODULE MCPidAlloc -----------------------------
(* An instance of PidAlloc for TLC. *)
EXTENDS PidAlloc
============================================================================
