-------------------------------- MODULE Proc --------------------------------
(***************************************************************************)
(* The life of a process: fork, exit, wait, kill, sleep and yield          *)
(* (kern/process/proc.c), the timer interrupt (kern/trap/trap.c,           *)
(* run_timer_list) and the checks made on the way back to user mode.       *)
(*                                                                         *)
(* An action is what the running process does between two points where an  *)
(* interrupt can come in or another process can get the CPU; pc[p] is the  *)
(* point process p has reached:                                            *)
(*   "user"        running user code                                       *)
(*   "sys_ret"     at the end of trap() after a system call                *)
(*   "intr_ret"    at the end of trap() after an interrupt, interrupts off *)
(*   "sleep_sched" do_sleep, asleep and about to call schedule()           *)
(*   "sleep_ret"   do_sleep, back from schedule()                          *)
(*   "wait_check"  do_wait, at the label repeat                            *)
(*   "wait_sched"  do_wait, asleep and about to call schedule()            *)
(*   "wait_ret"    do_wait, back from schedule()                           *)
(*   "exit_sched"  do_exit, a zombie about to call schedule()              *)
(*   "exited"      do_exit, never to return from schedule()                *)
(*   "init_main", "init_sched", "init_done"   the phases of init_main      *)
(*   "idle"        cpu_idle                                                *)
(* Timers are the remaining ticks of each sleeper, the contract that       *)
(* module Timers shows the kernel's timer list to keep.                    *)
(***************************************************************************)
EXTENDS Sched

CONSTANTS
  Init,      \* initproc, pid 1
  MaxSleep,  \* bound on the ticks a do_sleep asks for
  Killable   \* the processes whose pids user programs pass to kill

ASSUME ProcAssumption ==
  /\ Init \in Proc \ {Idle}
  /\ MaxSleep \in Nat \ {0}
  /\ Killable \subseteq Proc \ {Idle}

VARIABLES
  pc,        \* where each process resumes
  exiting,   \* proc->flags & PF_EXITING
  parent,    \* proc->parent
  timer,     \* ticks left on the timer_t in do_sleep's frame, 0: not linked
  waitfor,   \* the pid do_wait was called with; Idle (pid 0): any child
  panicked   \* the kernel has panicked

procVars == <<pc, exiting, parent, timer, waitfor, panicked>>
vars == <<schedVars, procVars>>

Location == {"none", "user", "sys_ret", "intr_ret", "sleep_sched", "sleep_ret",
             "wait_check", "wait_sched", "wait_ret", "exit_sched", "exited",
             "init_main", "init_sched", "init_done", "idle"}

TypeOK ==
  /\ SchedTypeOK
  /\ pc \in [Proc -> Location]
  /\ exiting \in [Proc -> BOOLEAN]
  /\ parent \in [Proc -> Proc]
  /\ timer \in [Proc -> 0..MaxSleep]
  /\ waitfor \in [Proc -> Proc]
  /\ panicked \in BOOLEAN

\* proc_init: idleproc runs, initproc has been forked and woken.
ProcInit ==
  /\ SchedInit({Init})
  /\ pc = [p \in Proc |-> IF p = Idle THEN "idle"
                       ELSE IF p = Init THEN "init_main" ELSE "none"]
  /\ exiting = [p \in Proc |-> FALSE]
  /\ parent = [p \in Proc |-> Idle]
  /\ timer = [p \in Proc |-> 0]
  /\ waitfor = [p \in Proc |-> Idle]
  /\ panicked = FALSE

At(p, loc) == current = p /\ pc[p] = loc /\ ~panicked
Goto(p, loc) == pc' = [pc EXCEPT ![p] = loc]

Live == {p \in Proc : state[p] # "FREE"}
Children(p) == {c \in Live \ {Idle} : parent[c] = p}
ZombieChildren(p) == {c \in Children(p) : state[c] = "ZOMBIE"}

----------------------------------------------------------------------------
(* Creation.                                                               *)

\* do_fork: the child is linked under the caller and woken; it starts at
\* forkret and goes to user mode without passing the end of trap().
Fork(p, c) ==
  /\ state[c] = "FREE"
  /\ WakeupProcs({c})
  /\ pc' = [pc EXCEPT ![c] = "user", ![p] = IF p = Init THEN "wait_check" ELSE "sys_ret"]
  /\ exiting' = [exiting EXCEPT ![c] = FALSE]
  /\ parent' = [parent EXCEPT ![c] = p]
  /\ UNCHANGED <<current, need_resched, timer, waitfor, panicked>>

SysFork(p) ==
  /\ At(p, "user")
  /\ \/ \E c \in Proc : Fork(p, c)
     \/ /\ Goto(p, "sys_ret")    \* -E_NO_FREE_PROC or -E_NO_MEM
        /\ UNCHANGED <<schedVars, exiting, parent, timer, waitfor, panicked>>

\* init_main creates user_main, then waits for children in a loop.
InitMain ==
  /\ At(Init, "init_main")
  /\ \E c \in Proc : Fork(Init, c)

----------------------------------------------------------------------------
(* do_exit: the caller becomes a zombie, a parent in do_wait is woken, the *)
(* children go to initproc, which is woken if one of them is a zombie.     *)
(* initproc itself may not exit.                                           *)

Mut_ExitNoInitWake(p) ==
  IF wait_state[parent[p]] = "WT_CHILD" THEN {parent[p]} ELSE {}
Mut_ExitNoParentWake(p) ==
  {q \in {Init} : wait_state[q] = "WT_CHILD" /\ ZombieChildren(p) # {}}
ExitWakes(p) ==
  {q \in Proc : /\ wait_state[q] = "WT_CHILD"
                /\ q = parent[p] \/ (q = Init /\ ZombieChildren(p) # {})}

Mut_ParentAfterExit(p) ==
  [q \in Proc |-> IF q \in ZombieChildren(p) THEN Init ELSE parent[q]]
ParentAfterExit(p) == [q \in Proc |-> IF q \in Children(p) THEN Init ELSE parent[q]]

DoExit(p) ==
  IF p = Init
  THEN panicked' = TRUE /\ UNCHANGED <<schedVars, pc, exiting, parent, timer, waitfor>>
  ELSE /\ state' = [WakeStates(ExitWakes(p)) EXCEPT ![p] = "ZOMBIE"]
       /\ wait_state' = WakeWaits(ExitWakes(p))
       /\ queued' = WakeQueue(ExitWakes(p))
       /\ parent' = ParentAfterExit(p)
       /\ Goto(p, "exit_sched")
       /\ UNCHANGED <<current, need_resched, exiting, timer, waitfor, panicked>>

SysExit(p) == At(p, "user") /\ DoExit(p)

\* init_main returns when no child is left, and its exit is a panic.
InitReturns == At(Init, "init_done") /\ DoExit(Init)

----------------------------------------------------------------------------
(* do_wait.                                                                *)

SysWait(p) ==
  /\ At(p, "user")
  /\ \/ /\ \E t \in Proc : waitfor' = [waitfor EXCEPT ![p] = t]
        /\ Goto(p, "wait_check")
     \/ Goto(p, "sys_ret") /\ UNCHANGED waitfor      \* -E_INVAL: a bad pointer
  /\ UNCHANGED <<schedVars, exiting, parent, timer, panicked>>

\* pid 0 waits for any child; another pid only for that process, if it is a child.
Awaited(p) == IF waitfor[p] = Idle THEN Children(p) ELSE Children(p) \cap {waitfor[p]}

AwaitedZombies(p) == {c \in Awaited(p) : state[c] = "ZOMBIE"}

\* found: the child's proc_struct and stack are freed; init_main yields after each.
WaitReap(p) ==
  /\ At(p, "wait_check")
  /\ \E c \in AwaitedZombies(p) :
       /\ state' = [state EXCEPT ![c] = "FREE"]
       /\ pc' = [pc EXCEPT ![c] = "none", ![p] = IF p = Init THEN "init_sched" ELSE "sys_ret"]
       /\ exiting' = [exiting EXCEPT ![c] = FALSE]
       /\ parent' = [parent EXCEPT ![c] = Idle]
       /\ need_resched' = [need_resched EXCEPT ![c] = FALSE]
       /\ waitfor' = [waitfor EXCEPT ![c] = Idle, ![p] = Idle]
  /\ UNCHANGED <<current, wait_state, queued, timer, panicked>>

\* no such child: -E_BAD_PROC, which ends the loop of init_main.
WaitNoChild(p) ==
  /\ At(p, "wait_check")
  /\ Awaited(p) = {}
  /\ Goto(p, IF p = Init THEN "init_done" ELSE "sys_ret")
  /\ waitfor' = [waitfor EXCEPT ![p] = Idle]
  /\ UNCHANGED <<schedVars, exiting, parent, timer, panicked>>

WaitSleep(p) ==
  /\ At(p, "wait_check")
  /\ Awaited(p) # {} /\ AwaitedZombies(p) = {}
  /\ SleepCurrent("WT_CHILD")
  /\ Goto(p, "wait_sched")
  /\ UNCHANGED <<current, need_resched, exiting, parent, timer, waitfor, panicked>>

\* back from schedule(): a killed process exits, another looks again.
Mut_WaitResume(p) ==
  /\ At(p, "wait_ret")
  /\ Goto(p, "wait_check")
  /\ UNCHANGED <<schedVars, exiting, parent, timer, waitfor, panicked>>
WaitResume(p) ==
  /\ At(p, "wait_ret")
  /\ IF exiting[p]
     THEN DoExit(p)
     ELSE /\ Goto(p, "wait_check")
          /\ UNCHANGED <<schedVars, exiting, parent, timer, waitfor, panicked>>

----------------------------------------------------------------------------
(* do_sleep: the timer lives in the frame of the call, which takes it out  *)
(* of the timer list on its way back whatever woke the process.            *)

SysSleep(p) ==
  /\ At(p, "user")
  /\ \E t \in 1..MaxSleep : timer' = [timer EXCEPT ![p] = t]
  /\ SleepCurrent("WT_TIMER")
  /\ Goto(p, "sleep_sched")
  /\ UNCHANGED <<current, need_resched, exiting, parent, waitfor, panicked>>

Mut_SleepReturn(p) ==
  /\ At(p, "sleep_ret")
  /\ Goto(p, "sys_ret")
  /\ UNCHANGED <<schedVars, exiting, parent, timer, waitfor, panicked>>
SleepReturn(p) ==
  /\ At(p, "sleep_ret")
  /\ timer' = [timer EXCEPT ![p] = 0]
  /\ Goto(p, "sys_ret")
  /\ UNCHANGED <<schedVars, exiting, parent, waitfor, panicked>>

----------------------------------------------------------------------------
(* do_kill, do_yield.                                                      *)

\* The victim is flagged, and woken if its wait can be interrupted.
Mut_KillWakes(q) == {q}
Mut_KillLeaves(q) == {}
KillWakes(q) == IF wait_state[q] \in WT_INTERRUPTED THEN {q} ELSE {}

SysKill(p) ==
  /\ At(p, "user")
  /\ \E q \in Killable :
       IF q \notin Live \/ exiting[q]
       THEN UNCHANGED <<state, wait_state, queued, exiting>>    \* -E_INVAL, -E_KILLED
       ELSE /\ exiting' = [exiting EXCEPT ![q] = TRUE]
            /\ WakeupProcs(KillWakes(q))
  /\ Goto(p, "sys_ret")
  /\ UNCHANGED <<current, need_resched, parent, timer, waitfor, panicked>>

SysYield(p) ==
  /\ At(p, "user")
  /\ need_resched' = [need_resched EXCEPT ![p] = TRUE]
  /\ Goto(p, "sys_ret")
  /\ UNCHANGED <<current, state, wait_state, queued, exiting, parent, timer, waitfor, panicked>>

----------------------------------------------------------------------------
(* The calls of schedule(), each with the point the caller resumes at.     *)

ResumeAt == [sleep_sched |-> "sleep_ret", wait_sched |-> "wait_ret",
             init_sched |-> "wait_check", exit_sched |-> "exited"]

CallSchedule(p, next) ==
  /\ current = p /\ ~panicked
  /\ pc[p] \in DOMAIN ResumeAt
  /\ SwitchTo(next)
  /\ Goto(p, ResumeAt[pc[p]])
  /\ UNCHANGED <<exiting, parent, timer, waitfor, panicked>>

\* cpu_idle
IdleSchedule(next) ==
  /\ At(Idle, "idle")
  /\ need_resched[Idle]
  /\ SwitchTo(next)
  /\ UNCHANGED procVars

\* The end of trap(): a killed process exits, then a pending reschedule is done.
AtTrapEnd(p) == current = p /\ pc[p] \in {"sys_ret", "intr_ret"} /\ ~panicked

TrapExit(p) == AtTrapEnd(p) /\ exiting[p] /\ DoExit(p)

TrapReschedule(p, next) ==
  /\ AtTrapEnd(p) /\ ~exiting[p] /\ need_resched[p]
  /\ SwitchTo(next)
  /\ Goto(p, "user")
  /\ UNCHANGED <<exiting, parent, timer, waitfor, panicked>>

TrapReturn(p) ==
  /\ AtTrapEnd(p) /\ ~exiting[p] /\ ~need_resched[p]
  /\ Goto(p, "user")
  /\ UNCHANGED <<schedVars, exiting, parent, timer, waitfor, panicked>>

----------------------------------------------------------------------------
(* The timer interrupt: run_timer_list wakes the sleepers whose time has   *)
(* come, runnable already or not, and accounts the tick to the running     *)
(* process. From user mode the handler ends in the checks of trap().       *)

InterruptsOn == pc[current] # "intr_ret" /\ ~panicked

Mut_DueEarly == {p \in Proc : timer[p] \in {1, 2}}
Mut_DueNotCurrent == {p \in Proc \ {current} : timer[p] = 1}
Due == {p \in Proc : timer[p] = 1}

TimerAfterTick == [p \in Proc |-> IF timer[p] > 0 THEN timer[p] - 1 ELSE 0]

Tick(expired) ==
  /\ InterruptsOn
  /\ WakeupProcs(Due)
  /\ timer' = TimerAfterTick
  /\ ProcTick(expired)
  /\ IF pc[current] = "user" THEN Goto(current, "intr_ret") ELSE UNCHANGED pc
  /\ UNCHANGED <<current, exiting, parent, waitfor, panicked>>

----------------------------------------------------------------------------
Syscall(p) ==
  SysFork(p) \/ SysExit(p) \/ SysWait(p) \/ SysSleep(p) \/ SysKill(p) \/ SysYield(p)

\* Steps of the kernel on behalf of p that do not give up the CPU.
KernelStep(p) ==
  \/ WaitReap(p) \/ WaitNoChild(p) \/ WaitSleep(p) \/ WaitResume(p)
  \/ SleepReturn(p) \/ TrapExit(p) \/ TrapReturn(p)
  
\* Calls of schedule() by p that pick next.
Switch(p, next) ==
  CallSchedule(p, next) \/ TrapReschedule(p, next) \/ (p = Idle /\ IdleSchedule(next))

Next ==
  \/ InitMain \/ InitReturns
  \/ \E p \in Proc : Syscall(p) \/ KernelStep(p)
  \/ \E p, q \in Proc : Switch(p, q)
  \/ \E expired \in BOOLEAN : Tick(expired)

Spec == ProcInit /\ [][Next]_vars

(* Fairness. The CPU executes the kernel code it is in, up to a switch to  *)
(* whatever process the scheduler picks, and the timer keeps ticking. User *)
(* code owes the kernel nothing: no fairness on Syscall. Nor is there any  *)
(* for a process in the queue: the stride class may pass it over for ever  *)
(* (see Schedule).                                                         *)
Fairness ==
  /\ WF_vars(InitMain)
  /\ \A p \in Proc : WF_vars(KernelStep(p))
  /\ \A p \in Proc : WF_vars(\E q \in Proc : Switch(p, q))
  /\ WF_vars(\E expired \in BOOLEAN : Tick(expired))

FairSpec == Spec /\ Fairness

(* The kindest scheduler there could be, kinder than the code's: time      *)
(* slices run out, and every process in the queue gets its turn. What goes *)
(* wrong even so is not the scheduler's doing. No run expected to pass     *)
(* assumes it.                                                             *)
ServedSpec ==
  /\ FairSpec
  /\ SF_vars(Tick(TRUE))
  /\ \A q \in Proc \ {Idle} : SF_vars(\E p \in Proc : Switch(p, q))

----------------------------------------------------------------------------
(* Safety.                                                                 *)

\* A process is only switched to when it can run: do_exit does not return,
\* and no sleeper resumes without having been woken (schedule, proc_run).
SwitchToRunnable ==
  [][current' # current => state'[current'] = "RUNNABLE"]_vars

\* No wakeup is missed: a process asleep in do_sleep has a timer running, one
\* asleep in do_wait has a child to wait for and none it should have seen exit,
\* though children exit, are killed and are handed to initproc meanwhile.
NoMissedWakeup ==
  \A p \in Proc :
    /\ wait_state[p] = "WT_TIMER" => timer[p] > 0
    /\ wait_state[p] = "WT_CHILD" => Awaited(p) # {} /\ AwaitedZombies(p) = {}

\* A linked timer_t belongs to a process still inside do_sleep: a process that
\* is killed in its sleep does not leave the function, or exit, with the timer
\* of its dead stack frame in the list (del_timer at the end of do_sleep).
TimersHaveFrames ==
  \A p \in Proc : timer[p] > 0 => pc[p] \in {"sleep_sched", "sleep_ret"}

\* proc->parent never dangles: it is a process that has not exited, so the
\* do_exit of the child can read and wake it (the reparenting loop of do_exit).
ParentsAlive ==
  \A p \in Live \ {Idle} : state[parent[p]] \in {"SLEEPING", "RUNNABLE"}

\* When init_main has run out of children every other process has been reaped:
\* its assert(nr_process == 2).
AllReapedAtEnd == pc[Init] = "init_done" => Live = {Idle, Init}

\* A zombie stays one until its parent, running do_wait, frees it: it is never
\* woken (the assertion of wakeup_proc), nobody else frees it, and not before it
\* has left its stack (the schedule() at the end of do_exit).
ZombiesOnlyReaped ==
  [][\A p \in Proc : state[p] = "ZOMBIE" =>
       \/ state'[p] = "ZOMBIE"
       \/ /\ state'[p] = "FREE" /\ p # current
          /\ current = parent[p] /\ pc[current] = "wait_check"]_vars

\* do_sleep is only cut short by do_kill: another wakeup finds the last tick
\* of the timer used up (run_timer_list against add_timer).
SleepIsFullLength ==
  [][\A p \in Proc : wait_state[p] = "WT_TIMER" /\ wait_state'[p] # "WT_TIMER" =>
       timer'[p] = 0 \/ (exiting'[p] /\ ~exiting[p])]_vars

\* Where a process can be says which states it can be in, and the running
\* process is not past a schedule() it should not have come back from.
PointsMatchStates ==
  /\ \A p \in Proc :
       /\ state[p] = "FREE" <=> pc[p] = "none"
       /\ state[p] = "ZOMBIE" <=> pc[p] \in {"exit_sched", "exited"}
       /\ state[p] = "SLEEPING" =>
            pc[p] \in {"sleep_sched", "sleep_ret", "wait_sched", "wait_ret"}
       /\ pc[p] = "idle" <=> p = Idle
  /\ state[current] = "SLEEPING" => pc[current] \in {"sleep_sched", "wait_sched"}
  /\ pc[current] \notin {"none", "exited"}
  /\ state[Init] # "ZOMBIE" /\ state[Init] # "FREE"

\* Nobody is its own parent, and initproc stays a child of idleproc.
ParentsAreOthers ==
  /\ parent[Init] = Idle
  /\ \A p \in Live \ {Idle} : parent[p] # p

\* The invariant the proofs are by induction on: all of the above together.
IInv ==
  /\ TypeOK
  /\ RunQueueExact
  /\ SleepersWaitForSomething
  /\ PointsMatchStates
  /\ TimersHaveFrames
  /\ ParentsAlive
  /\ ParentsAreOthers
  /\ NoMissedWakeup

----------------------------------------------------------------------------
(* Liveness.                                                               *)

\* Every sleep ends: the process can run again, whoever is running meanwhile, and
\* also when its time is up before it has called schedule() (run_timer_list).
SleepersWake ==
  \A p \in Proc : (wait_state[p] = "WT_TIMER") ~> (state[p] = "RUNNABLE" \/ panicked)

\* Once all user processes are dead, in whatever order and with whatever parents,
\* initproc is woken, reaps them all and comes to the end of init_main (do_exit,
\* do_wait and cpu_idle): the queue has nobody else then, and no scheduler can
\* keep it waiting.
AllDead ==
  pc[Init] # "init_main" /\ \A p \in Proc \ {Idle, Init} : state[p] \in {"ZOMBIE", "FREE"}
InitFinishes == AllDead ~> (pc[Init] = "init_done" \/ panicked)

\* What the table of system calls promises of SYS_kill: the flag leads to
\* do_exit. The code breaks this: a process flagged while it is runnable is not
\* looked at again before it enters its next system call, and may sleep there.
KillIsFatal ==
  \A p \in Proc \ {Init} : exiting[p] ~> (state[p] \in {"ZOMBIE", "FREE"})

============================================================================
