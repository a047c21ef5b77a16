--------------------------- MODULE MCCheckMonitor ---------------------------
(* Instances of CheckMonitor for TLC: idleproc is one past the philosophers. *)
EXTENDS CheckMonitor

MCThreads == 0..N
MCIdle == N
MCSemaphores == 0 .. N + 1
============================================================================
