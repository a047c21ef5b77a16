------------------------------ MODULE MCKilled ------------------------------
(* An instance of Killed for TLC: idleproc, initproc and two users.          *)
EXTENDS Killed

CONSTANTS u1, u2

MCUsers == {u1, u2}
MCProc == {Idle, Init} \cup MCUsers

\* do_kill accepts the pid of initproc too: then initproc exits and the kernel panics.
MCKillable == {Init} \cup MCUsers
=============================================================================
