------------------------------- MODULE Killed -------------------------------
(***************************************************************************)
(* What becomes of a process that do_kill finds asleep in a wait it can    *)
(* interrupt: the processes of Proc, and who of them was killed like that. *)
(* A process killed while it can run is another matter (KillIsFatal).      *)
(***************************************************************************)
EXTENDS Proc

VARIABLE killed  \* history: the processes killed in their sleep, up to their exit

killedVars == <<vars, killed>>

\* do_kill flags them in this step.
KilledAsleep == {p \in Proc : wait_state[p] \in WT_INTERRUPTED /\ exiting'[p] /\ ~exiting[p]}

KilledInit == ProcInit /\ killed = {}
KilledNext ==
  /\ Next
  /\ killed' = {p \in killed \cup KilledAsleep : state'[p] \notin {"ZOMBIE", "FREE"}}

KilledSpec == KilledInit /\ [][KilledNext]_killedVars
KilledFairSpec == KilledSpec /\ Fairness

\* A process killed in its sleep can run, and is on its way out: it does not go to
\* sleep again and does not come back to user mode (do_kill, the test of
\* PF_EXITING in do_wait, the end of trap()).
Leaving(p) ==
  exiting[p] /\ state[p] = "RUNNABLE" /\ pc[p] \in {"sleep_ret", "wait_ret", "sys_ret"}
OnTheWayOut == \A p \in killed : Leaving(p)

\* The kill is the end of it: it exits, unless it stays in the run queue from some
\* time on because the scheduler never picks it, which is not for do_kill to
\* prevent (do_kill, do_wait, do_sleep, trap).
KilledSleepersDie ==
  \A p \in Proc : p \in killed ~> (p \notin killed \/ panicked \/ [](queued[p] > 0))
=============================================================================
