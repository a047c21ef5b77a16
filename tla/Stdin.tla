------------------------------- MODULE Stdin -------------------------------
(***************************************************************************)
(* The console input device, kern/fs/devs/dev_stdin.c: a ring buffer that  *)
(* the keyboard and serial interrupts write and processes read, and sleep  *)
(* on when it is empty. Readers are user processes, which are also killed  *)
(* and preempted.                                                          *)
(*                                                                         *)
(* The loop of dev_stdin_read runs with interrupts off up to the point     *)
(* where it sleeps or returns, hence as one step. A process is at one of   *)
(*   "user"        user mode                                               *)
(*   "read_sched"  dev_stdin_read, on the wait queue, before schedule()    *)
(*   "read_ret"    dev_stdin_read, back from schedule()                    *)
(*   "sys_ret"     back in trap() at the end of a system call              *)
(*   "exit_sched"  do_exit, before its last schedule()                     *)
(***************************************************************************)
EXTENDS Sched, Sequences, SequencesExt, FiniteSetsExt

CONSTANTS
  STDIN_BUFSIZE,  \* slots of the ring
  MaxKeys,        \* bound on the characters typed in a behaviour
  MaxLen          \* bound on the characters asked for in one read

ASSUME StdinAssumption == STDIN_BUFSIZE \in Nat \ {0} /\ MaxKeys \in Nat /\ MaxLen \in Nat

VARIABLES
  stdin_buffer,  \* the ring
  p_rpos,        \* characters read
  p_wpos,        \* characters written, the overwriting ones not counted
  wait_queue,    \* the processes of the wait_t in the device's wait queue
  wakeup_flags,  \* wait->wakeup_flags of each process's wait_t
  todo,          \* len - ret of the read a process is in
  pc,            \* where each process resumes
  exiting,       \* PF_EXITING
  typed,         \* history: characters typed; the n-th is represented by n
  delivered      \* history: the characters the last step gave to a reader

ringVars == <<stdin_buffer, p_rpos, p_wpos>>
waitVars == <<wait_queue, wakeup_flags>>
vars == <<schedVars, ringVars, waitVars, todo, pc, exiting, typed, delivered>>

User == Proc \ {Idle}
Char == 1..MaxKeys

\* stdin_device_init, with the processes in user mode
Init ==
  /\ SchedInit(User)
  /\ stdin_buffer = [i \in 0 .. STDIN_BUFSIZE - 1 |-> 0]
  /\ p_rpos = 0 /\ p_wpos = 0
  /\ wait_queue = <<>>
  /\ wakeup_flags = [p \in Proc |-> "WT_INTERRUPTED"]
  /\ todo = [p \in Proc |-> 0]
  /\ pc = [p \in Proc |-> IF p = Idle THEN "idle" ELSE "user"]
  /\ exiting = [p \in Proc |-> FALSE]
  /\ typed = 0
  /\ delivered = <<>>

At(p, loc) == current = p /\ pc[p] = loc
Goto(p, loc) == pc' = [pc EXCEPT ![p] = loc]
Quiet == UNCHANGED <<ringVars, waitVars, todo, typed>> /\ delivered' = <<>>

----------------------------------------------------------------------------
\* dev_stdin_write, in the interrupt handler: a full ring does not move p_wpos,
\* so that the character lands on the oldest one. All readers are woken.
Mut_Advance == TRUE
Advance == p_wpos - p_rpos < STDIN_BUFSIZE

\* wakeup_queue: the readers that wait leave the queue and wake.
Mut_WakeReaders ==
  IF wait_queue = <<>> THEN UNCHANGED <<waitVars, state, wait_state, queued>>
  ELSE /\ wait_queue' = Tail(wait_queue)
       /\ wakeup_flags' = [wakeup_flags EXCEPT ![Head(wait_queue)] = "WT_KBD"]
       /\ WakeupProcs({Head(wait_queue)})
WakeReaders ==
  /\ wait_queue' = <<>>
  /\ wakeup_flags' = [p \in Proc |-> IF p \in ToSet(wait_queue) THEN "WT_KBD"
                                     ELSE wakeup_flags[p]]
  /\ WakeupProcs(ToSet(wait_queue))

KeyInterrupt ==
  /\ typed < MaxKeys
  /\ typed' = typed + 1
  /\ stdin_buffer' = [stdin_buffer EXCEPT ![p_wpos % STDIN_BUFSIZE] = typed + 1]
  /\ p_wpos' = IF Advance THEN p_wpos + 1 ELSE p_wpos
  /\ WakeReaders
  /\ delivered' = <<>>
  /\ UNCHANGED <<current, need_resched, p_rpos, todo, pc, exiting>>

----------------------------------------------------------------------------
\* The loop of dev_stdin_read: take what is there, up to len; sleep for more.
Available(len) == Min({len, p_wpos - p_rpos})

ReadLoop(p, len, queue) ==
  LET k == Available(len) IN
  /\ delivered' = [j \in 1..k |-> stdin_buffer[(p_rpos + j - 1) % STDIN_BUFSIZE]]
  /\ p_rpos' = p_rpos + k
  /\ todo' = [todo EXCEPT ![p] = len - k]
  /\ \/ /\ k = len
        /\ Goto(p, "sys_ret")
        /\ wait_queue' = queue
        /\ UNCHANGED <<wakeup_flags, state, wait_state, queued>>
     \/ /\ k < len
        /\ Goto(p, "read_sched")
        /\ wait_queue' = Append(queue, p)
        /\ wakeup_flags' = [wakeup_flags EXCEPT ![p] = "WT_INTERRUPTED"]
        /\ SleepCurrent("WT_KBD")
  /\ UNCHANGED <<stdin_buffer, p_wpos>>

SysRead(p) ==
  /\ At(p, "user")
  /\ \E len \in 1..MaxLen : ReadLoop(p, len, wait_queue)
  /\ UNCHANGED <<current, need_resched, exiting, typed>>

\* Back from schedule(): wait_current_del, then try again if it was a key.
WithoutSelf(p) == RemoveFirst(wait_queue, p)

Mut_ReadAborted(p) ==
  /\ wakeup_flags[p] # "WT_KBD"
  /\ Goto(p, "sys_ret")
  /\ delivered' = <<>>
  /\ UNCHANGED <<state, wait_state, queued, ringVars, waitVars, todo>>
ReadAborted(p) ==
  /\ wakeup_flags[p] # "WT_KBD"
  /\ Goto(p, "sys_ret")
  /\ wait_queue' = WithoutSelf(p)
  /\ delivered' = <<>>
  /\ UNCHANGED <<state, wait_state, queued, ringVars, wakeup_flags, todo>>

ReadReturn(p) ==
  /\ At(p, "read_ret")
  /\ \/ wakeup_flags[p] = "WT_KBD" /\ ReadLoop(p, todo[p], WithoutSelf(p))
     \/ ReadAborted(p)
  /\ UNCHANGED <<current, need_resched, exiting, typed>>

----------------------------------------------------------------------------
\* do_kill by the running process
SysKill(p) ==
  /\ At(p, "user")
  /\ \E q \in User :
       IF exiting[q]
       THEN UNCHANGED <<state, wait_state, queued, exiting>>    \* -E_KILLED
       ELSE /\ exiting' = [exiting EXCEPT ![q] = TRUE]
            /\ WakeupProcs(IF wait_state[q] \in WT_INTERRUPTED THEN {q} ELSE {})
  /\ Goto(p, "sys_ret")
  /\ UNCHANGED <<current, need_resched>> /\ Quiet

\* The end of trap(), after a system call, or an interrupt of user mode
TrapExit(p) ==
  /\ current = p /\ pc[p] \in {"user", "sys_ret"} /\ exiting[p]
  /\ state' = [state EXCEPT ![p] = "ZOMBIE"]
  /\ Goto(p, "exit_sched")
  /\ UNCHANGED <<current, wait_state, queued, need_resched, exiting>> /\ Quiet

TrapReturn(p) ==
  /\ At(p, "sys_ret") /\ ~exiting[p]
  /\ Goto(p, "user")
  /\ UNCHANGED <<schedVars, exiting>> /\ Quiet

ResumeAt == [read_sched |-> "read_ret", exit_sched |-> "exited", user |-> "user"]

\* schedule() in dev_stdin_read, in do_exit, and when a time slice is used up
Switch(p, next) ==
  /\ current = p /\ pc[p] \in DOMAIN ResumeAt
  /\ pc[p] = "user" => ~exiting[p]
  /\ SwitchTo(next)
  /\ Goto(p, ResumeAt[pc[p]])
  /\ UNCHANGED exiting /\ Quiet

IdleSchedule(next) ==
  /\ At(Idle, "idle") /\ need_resched[Idle]
  /\ SwitchTo(next)
  /\ UNCHANGED <<pc, exiting>> /\ Quiet

IdleTick ==
  /\ current = Idle
  /\ ProcTick(FALSE)
  /\ UNCHANGED <<current, state, wait_state, queued, pc, exiting>> /\ Quiet

KernelStep(p) == ReadReturn(p) \/ TrapExit(p) \/ TrapReturn(p)

Next ==
  \/ KeyInterrupt \/ IdleTick
  \/ \E p \in User : SysRead(p) \/ SysKill(p) \/ KernelStep(p)
  \/ \E p \in User, next \in Proc : Switch(p, next)
  \/ \E next \in Proc : IdleSchedule(next)

Spec == Init /\ [][Next]_vars

----------------------------------------------------------------------------
\* No reader sleeps over input: whoever found the ring empty is woken by the
\* key that fills it, in whatever order keys, readers and kills come, and a
\* reader only goes back to sleep after it has looked again.
NoReaderMissesInput ==
  p_rpos < p_wpos => \A p \in User : wait_state[p] # "WT_KBD"

\* The wait_t lies in the frame of dev_stdin_read: only processes inside it are
\* on the queue, each once, also when the process was killed in its sleep, or
\* woken by a kill and a key together.
WaitsHaveFrames ==
  /\ \A p \in ToSet(wait_queue) : pc[p] \in {"read_sched", "read_ret"}
  /\ IsInjective(wait_queue)

\* The ring implements the queue of characters.
Input ==
  [i \in 1 .. p_wpos - p_rpos |-> stdin_buffer[(p_rpos + i - 1) % STDIN_BUFSIZE]]
Contract == INSTANCE StdinSpec WITH input <- Input
RingIsQueue == Contract!StdinSpec
============================================================================
