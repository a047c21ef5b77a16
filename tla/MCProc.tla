------------------------------- MODULE MCProc -------------------------------
(* Instances of Proc for TLC. *)
EXTENDS Proc, TLC

CONSTANTS u1, u2, u3

Users2 == {u1, u2}
Users3 == {u1, u2, u3}
MCProc2 == {Idle, Init} \cup Users2
MCProc3 == {Idle, Init} \cup Users3

\* do_kill accepts initproc's pid too: then initproc exits and the kernel panics.
UsersAndInit == Users3 \cup {Init}

\* User processes are interchangeable (not used with liveness).
UserSymmetry == Permutations(Users3)
============================================================================
