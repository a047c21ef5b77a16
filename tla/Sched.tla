------------------------------- MODULE Sched -------------------------------
(***************************************************************************)
(* The scheduler core of the kernel: process states, the run queue,        *)
(* wakeup_proc, schedule and the per-tick accounting                       *)
(* (kern/schedule/sched.c, the queue half of default_sched.c).             *)
(*                                                                         *)
(* There is one CPU and the kernel is not preemptible, so these operators  *)
(* are the bodies of the local_intr_save ... local_intr_restore sections.  *)
(* The module has no next-state relation of its own: the components that   *)
(* block, wake and switch (Proc, Stdin, CheckSync) build theirs from it.   *)
(***************************************************************************)
EXTENDS Integers, FiniteSets

CONSTANTS
  Proc,   \* process slots, idleproc included
  Idle    \* idleproc, the process with pid 0

ASSUME IdleAssumption == Idle \in Proc

VARIABLES
  current,      \* the process on the CPU
  state,        \* proc->state; "FREE" is a slot without a proc_struct
  wait_state,   \* proc->wait_state; "NONE" is 0
  queued,       \* how many times the process is linked in rq->lab6_run_pool
  need_resched  \* proc->need_resched

schedVars == <<current, state, wait_state, queued, need_resched>>

PState == {"FREE", "SLEEPING", "RUNNABLE", "ZOMBIE"}

\* The wait states that carry the WT_INTERRUPTED bit, and all of them.
WT_INTERRUPTED == {"WT_CHILD", "WT_TIMER", "WT_KBD"}
WaitState == {"NONE", "WT_KSEM"} \cup WT_INTERRUPTED

SchedTypeOK ==
  /\ current \in Proc
  /\ state \in [Proc -> PState]
  /\ wait_state \in [Proc -> WaitState]
  /\ queued \in [Proc -> Nat]
  /\ need_resched \in [Proc -> BOOLEAN]

\* idleproc on the CPU with its reschedule request pending (proc_init), the
\* processes of R created, woken and queued.
SchedInit(R) ==
  /\ current = Idle
  /\ state = [p \in Proc |-> IF p \in R \cup {Idle} THEN "RUNNABLE" ELSE "FREE"]
  /\ wait_state = [p \in Proc |-> "NONE"]
  /\ queued = [p \in Proc |-> IF p \in R \ {Idle} THEN 1 ELSE 0]
  /\ need_resched = [p \in Proc |-> p = Idle]

----------------------------------------------------------------------------
(* wakeup_proc, for every process of W in one interrupt-free section.      *)

\* sched_class_enqueue never queues idleproc, and wakeup_proc leaves the
\* running process to the schedule() it is about to call.
Mut_MustQueueCurrent(p) == p # Idle
MustQueue(p) == p \notin {current, Idle}

\* A wakeup of a RUNNABLE process only warns.
Woken(W) == {p \in W : state[p] # "RUNNABLE"}

WakeStates(W) == [p \in Proc |-> IF p \in Woken(W) THEN "RUNNABLE" ELSE state[p]]
WakeWaits(W)  == [p \in Proc |-> IF p \in Woken(W) THEN "NONE" ELSE wait_state[p]]
WakeQueue(W)  == [p \in Proc |-> IF p \in Woken(W) /\ MustQueue(p)
                                 THEN queued[p] + 1 ELSE queued[p]]

WakeupProcs(W) ==
  /\ state' = WakeStates(W)
  /\ wait_state' = WakeWaits(W)
  /\ queued' = WakeQueue(W)

----------------------------------------------------------------------------
(* The running process marks itself asleep; it stays on the CPU until it   *)
(* calls schedule().                                                       *)

SleepCurrent(w) ==
  /\ state' = [state EXCEPT ![current] = "SLEEPING"]
  /\ wait_state' = [wait_state EXCEPT ![current] = w]
  /\ UNCHANGED queued

(* schedule() and proc_run(): requeue the running process if it can run,   *)
(* take some queued process, or idleproc when there is none. Which queued  *)
(* process has the smallest stride is left open here.                      *)

Requeued ==
  [p \in Proc |-> IF p = current /\ state[p] = "RUNNABLE" /\ p # Idle
                  THEN queued[p] + 1 ELSE queued[p]]

SwitchTo(next) ==
  /\ \/ Requeued[next] > 0
     \/ next = Idle /\ \A p \in Proc : Requeued[p] = 0
  /\ current' = next
  /\ queued' = [p \in Proc |-> IF p = next /\ p # Idle
                               THEN Requeued[p] - 1 ELSE Requeued[p]]
  /\ need_resched' = [need_resched EXCEPT ![current] = FALSE]
  /\ UNCHANGED <<state, wait_state>>

(* sched_class_proc_tick for the running process: idleproc always asks for *)
(* a switch, another process when its time slice is used up.               *)
ProcTick(expired) ==
  need_resched' = [need_resched EXCEPT ![current] = @ \/ expired \/ current = Idle]

----------------------------------------------------------------------------
(* The run queue holds exactly the processes that can run and do not, each *)
(* once: no wakeup is lost, none links a process twice (which would        *)
(* corrupt the skew heap), and no sleeping or dead process can be picked.  *)
(* Sources: wakeup_proc's two tests and schedule's requeue.                *)
RunQueueExact ==
  \A p \in Proc :
    queued[p] = IF state[p] = "RUNNABLE" /\ p \notin {current, Idle} THEN 1 ELSE 0

(* A process is asleep exactly while its wait_state says for what.         *)
SleepersWaitForSomething ==
  \A p \in Proc : state[p] = "SLEEPING" <=> wait_state[p] # "NONE"

============================================================================
