---------------------------- MODULE MCCheckSync ----------------------------
(* Instances of CheckSync for TLC: idleproc is one past the philosophers. *)
EXTENDS CheckSync

MCThreads == 0..N
MCIdle == N
MCSemaphores == 0..N
============================================================================
