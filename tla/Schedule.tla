------------------------------ MODULE Schedule ------------------------------
(***************************************************************************)
(* The scheduler as a whole: schedule() and wakeup_proc of sched.c with    *)
(* the stride scheduler behind them, time slices, and the timer list, run  *)
(* by processes that are created, sleep, are killed in their sleep, yield, *)
(* set their priorities and exit. Module Sched leaves open which process   *)
(* of the queue schedule() picks and when a time slice ends; here both are *)
(* computed the way the code does.                                         *)
(*                                                                         *)
(* A process is created once: a slot is not used again.                    *)
(***************************************************************************)
EXTENDS Timers, SkewHeap, FiniteSets

CONSTANTS
  Idle,            \* idleproc, which is never in the queue
  First,           \* initproc
  MAX_TIME_SLICE,  \* rq->max_time_slice
  Sleepers,        \* the processes that call sleep
  Setters,         \* the processes that call lab6_set_priority,
  Priorities       \* and what with

ASSUME ScheduleAssumption ==
  /\ Idle \notin Proc /\ First \in Proc
  /\ MAX_TIME_SLICE \in Nat \ {0}
  /\ Sleepers \subseteq Proc /\ Setters \subseteq Proc
  /\ Priorities \subseteq 1 .. BIG_STRIDE

VARIABLES
  current,       \* the process on the CPU
  state,         \* proc->state, "UNINIT" before do_fork
  need_resched,  \* current->need_resched; the flag of another is never set
  back,          \* processes in do_sleep, back from schedule()
  pool,          \* rq->lab6_run_pool
  stride,        \* proc->lab6_stride
  priority,      \* proc->lab6_priority
  time_slice,    \* proc->time_slice
  steady         \* history: no process ever came back to the others, or was
                 \* created, with a stride out of their reach

procVars == <<current, state, need_resched, back>>
rqVars == <<pool, stride, priority, time_slice, steady>>
allVars == <<vars, procVars, rqVars>>

Runnable == {p \in Proc : state[p] = "RUNNABLE"}

\* proc_init: initproc has been woken; idleproc runs, and asks for a switch.
ScheduleInit ==
  /\ Init
  /\ current = Idle /\ need_resched = TRUE
  /\ state = [p \in Proc |-> IF p = First THEN "RUNNABLE" ELSE "UNINIT"]
  /\ back = {}
  /\ stride = [p \in Proc |-> 0]
  /\ priority = [p \in Proc |-> 0]
  /\ time_slice = [p \in Proc |-> IF p = First THEN MAX_TIME_SLICE ELSE 0]
  /\ pool = Insert(<<>>, First, stride)
  /\ steady = TRUE

----------------------------------------------------------------------------
\* stride_enqueue of the processes of a sequence, in its order
Refilled(slice) == IF slice = 0 \/ slice > MAX_TIME_SLICE THEN MAX_TIME_SLICE ELSE slice
Enqueued(ps) == FoldLeft(LAMBDA heap, p : Insert(heap, p, stride), pool, ps)
Slices(ps) == [p \in Proc |-> IF p \in Range(ps) THEN Refilled(time_slice[p]) ELSE time_slice[p]]

\* wakeup_proc, one process of ps after the other: one that can run is left
\* alone, and the running one is not queued.
Wake(ps, slices) ==
  LET asleepOnes == SelectSeq(ps, LAMBDA p : state[p] # "RUNNABLE")
      queued == SelectSeq(asleepOnes, LAMBDA p : p # current)
  IN /\ state' = [p \in Proc |-> IF p \in Range(asleepOnes) THEN "RUNNABLE" ELSE state[p]]
     /\ pool' = Enqueued(queued)
     /\ time_slice' = [p \in Proc |-> IF p \in Range(queued) THEN Refilled(slices[p])
                                      ELSE slices[p]]
     /\ steady' = (steady /\ (asleepOnes # <<>> =>
                                Together(stride, Runnable \cup Range(asleepOnes))))

\* schedule() is called in do_sleep, at the end of do_exit, by idleproc when it
\* is asked to, and at the end of a trap from user mode.
MustSchedule ==
  \/ current \in asleep \ back
  \/ current # Idle /\ state[current] = "ZOMBIE"
  \/ current \notin asleep /\ need_resched

\* The stride of a process moves on as it is picked.
CallSchedule ==
  /\ MustSchedule
  /\ LET again == IF current \in Runnable THEN <<current>> ELSE <<>>
         heap == Enqueued(again)
     IN /\ time_slice' = Slices(again)
        /\ IF heap = <<>>
           THEN current' = Idle /\ UNCHANGED <<pool, stride>>
           ELSE /\ current' = heap[1]
                /\ stride' = [stride EXCEPT ![heap[1]] = Advanced(@, priority[heap[1]])]
                /\ pool' = RemoveRoot(heap, stride)
  /\ need_resched' = FALSE
  /\ back' = IF current \in asleep THEN back \cup {current} ELSE back
  /\ woken' = {}
  /\ UNCHANGED <<timer_list, asleep, state, priority, steady>>

----------------------------------------------------------------------------
\* The running process is in user mode and makes a system call.
InUser == current # Idle /\ current \notin asleep /\ state[current] = "RUNNABLE"

\* do_fork: the child starts with no priority, no time slice and stride 0.
Fork(c) ==
  /\ InUser /\ state[c] = "UNINIT"
  /\ Wake(<<c>>, time_slice)
  /\ woken' = {}
  /\ UNCHANGED <<timer_list, asleep, current, need_resched, back, stride, priority>>

Exit ==
  /\ InUser
  /\ state' = [state EXCEPT ![current] = "ZOMBIE"]
  /\ woken' = {}
  /\ UNCHANGED <<timer_list, asleep, current, need_resched, back, rqVars>>

Yield ==
  /\ InUser
  /\ need_resched' = TRUE
  /\ woken' = {}
  /\ UNCHANGED <<timer_list, asleep, current, state, back, rqVars>>

SetPriority ==
  /\ InUser /\ current \in Setters
  /\ \E k \in Priorities : priority' = [priority EXCEPT ![current] = k]
  /\ woken' = {}
  /\ UNCHANGED <<timer_list, asleep, procVars, pool, stride, time_slice, steady>>

\* do_kill of a sleeper wakes it before its time.
Kill(q) ==
  /\ InUser /\ state[q] = "SLEEPING"
  /\ Wake(<<q>>, time_slice)
  /\ woken' = {}
  /\ UNCHANGED <<timer_list, asleep, current, need_resched, back, stride, priority>>

\* do_sleep up to schedule(), and after it
Sleep ==
  /\ InUser /\ current \in Sleepers
  /\ AddTimer(current)
  /\ state' = [state EXCEPT ![current] = "SLEEPING"]
  /\ UNCHANGED <<current, need_resched, back, rqVars>>

SleepReturn ==
  /\ current \in back
  /\ DelTimer(current)
  /\ back' = back \ {current}
  /\ UNCHANGED <<current, state, need_resched, rqVars>>

----------------------------------------------------------------------------
\* Mutant: the last tick of a time slice is never counted off.
Mut_Ticked(slice) == IF slice > 1 THEN slice - 1 ELSE slice

\* stride_proc_tick; idleproc asks for a switch.
Ticked(slice) == IF slice > 0 THEN slice - 1 ELSE 0

\* run_timer_list
Tick ==
  /\ RunTimerList
  /\ LET done == SubSeq(timer_list, 1, Len(timer_list) - Len(timer_list'))
         slices == IF current = Idle THEN time_slice
                   ELSE [time_slice EXCEPT ![current] = Ticked(@)]
     IN /\ Wake([i \in DOMAIN done |-> done[i].proc], slices)
        /\ need_resched' = (need_resched \/ current = Idle \/ slices[current] = 0)
  /\ UNCHANGED <<current, back, stride, priority>>

Syscall == \/ Exit \/ Yield \/ SetPriority \/ Sleep
           \/ \E c \in Proc : Fork(c) \/ Kill(c)

ScheduleNext == CallSchedule \/ SleepReturn \/ Tick \/ Syscall

\* The CPU runs the kernel code it is in, and the clock ticks.
ScheduleSpec ==
  /\ ScheduleInit /\ [][ScheduleNext]_allVars
  /\ WF_allVars(CallSchedule \/ SleepReturn) /\ WF_allVars(Tick)

----------------------------------------------------------------------------
\* The heap links every process that can run and does not, once (wakeup_proc
\* and schedule over skew_heap_merge).
RunPoolExact ==
  /\ Range(Linking(pool)) = Runnable \ {current}
  /\ Len(Linking(pool)) = Cardinality(Runnable \ {current})

\* schedule() picks the process that is furthest behind, no other that can run
\* being more than BIG_STRIDE ahead of it, as long as none came back from a
\* sleep, or was created, out of reach of the others: strides that wrap around
\* never change places (proc_stride_comp_f, stride_pick_next).
PicksLeast ==
  [][CallSchedule /\ steady /\ Runnable # {} => Reach(stride, current', Runnable)]_allVars

\* A process that can run does in the end, however the others use their time
\* slices and priorities, sleep and are created, if these stay in its reach
\* (the strides and time slices of default_sched.c). The process is initproc,
\* in whose way every other process can be.
RunnableRuns == First \in Runnable ~> current = First \/ ~steady
============================================================================
