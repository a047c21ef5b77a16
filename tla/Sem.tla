-------------------------------- MODULE Sem --------------------------------
(***************************************************************************)
(* Kernel semaphores (kern/sync/sem.c) on wait queues (kern/sync/wait.c),  *)
(* for kernel threads that also sleep on timers. The module has the calls  *)
(* as operators for the running thread; the modules that use semaphores    *)
(* (SemClients, CheckSync, CheckMonitor) put them into their actions.      *)
(*                                                                         *)
(* A thread in the middle of a call is at one of                           *)
(*   "down_sched"   __down, on the wait queue, about to call schedule()    *)
(*   "down_ret"     __down, back from schedule()                           *)
(*   "sleep_sched"  do_sleep, asleep and about to call schedule()          *)
(*   "sleep_ret"    do_sleep, back from schedule()                         *)
(* and then[p] is where it goes on when the call returns. Kernel threads   *)
(* are not preempted: a switch happens only in schedule().                 *)
(***************************************************************************)
EXTENDS Sched, Sequences, SequencesExt

CONSTANT Semaphore

VARIABLES
  value,         \* sem->value
  wait_queue,    \* sem->wait_queue, the processes of its wait_t in list order
  wakeup_flags,  \* wait->wakeup_flags of each process's wait_t in __down
  waits_on,      \* the semaphore of the __down a process is in
  pc,            \* where each thread resumes
  then           \* where it goes on after the call

semVars == <<value, wait_queue, wakeup_flags, waits_on>>
semAll == <<schedVars, semVars, pc, then>>

SemTypeOK ==
  /\ SchedTypeOK
  /\ value \in [Semaphore -> Nat]
  /\ wait_queue \in [Semaphore -> Seq(Proc)]
  /\ wakeup_flags \in [Proc -> {"WT_INTERRUPTED", "WT_KSEM"}]
  /\ waits_on \in [Proc -> Semaphore]
  /\ DOMAIN pc = Proc /\ DOMAIN then = Proc

SemInit(v) ==
  /\ value = v
  /\ wait_queue = [s \in Semaphore |-> <<>>]
  /\ wakeup_flags = [p \in Proc |-> "WT_INTERRUPTED"]
  /\ waits_on = [p \in Proc |-> CHOOSE s \in Semaphore : TRUE]

Goto(p, loc) == pc' = [pc EXCEPT ![p] = loc]

----------------------------------------------------------------------------
(* The part of up and down that runs with interrupts off.                  *)

\* __up hands the unit to the first waiter, or adds it to the value.
Mut_UpBoth(s) ==
  /\ value' = [value EXCEPT ![s] = @ + 1]
  /\ IF wait_queue[s] = <<>>
     THEN UNCHANGED <<wait_queue, wakeup_flags, state, wait_state, queued>>
     ELSE /\ wait_queue' = [wait_queue EXCEPT ![s] = Tail(@)]
          /\ wakeup_flags' = [wakeup_flags EXCEPT ![Head(wait_queue[s])] = "WT_KSEM"]
          /\ WakeupProcs({Head(wait_queue[s])})
Mut_UpLast(s) ==
  \/ /\ wait_queue[s] = <<>>
     /\ value' = [value EXCEPT ![s] = @ + 1]
     /\ UNCHANGED <<wait_queue, wakeup_flags, state, wait_state, queued>>
  \/ /\ wait_queue[s] # <<>>
     /\ wait_queue' = [wait_queue EXCEPT ![s] = Front(@)]
     /\ wakeup_flags' = [wakeup_flags EXCEPT ![Last(wait_queue[s])] = "WT_KSEM"]
     /\ WakeupProcs({Last(wait_queue[s])})
     /\ UNCHANGED value
Up(s) ==
  \/ /\ wait_queue[s] = <<>>
     /\ value' = [value EXCEPT ![s] = @ + 1]
     /\ UNCHANGED <<wait_queue, wakeup_flags, state, wait_state, queued>>
  \/ /\ wait_queue[s] # <<>>
     /\ wait_queue' = [wait_queue EXCEPT ![s] = Tail(@)]
     /\ wakeup_flags' = [wakeup_flags EXCEPT ![Head(wait_queue[s])] = "WT_KSEM"]
     /\ WakeupProcs({Head(wait_queue[s])})
     /\ UNCHANGED value

TakeUnit(s) ==
  /\ value[s] > 0
  /\ value' = [value EXCEPT ![s] = @ - 1]
  /\ UNCHANGED <<wait_queue, wakeup_flags, waits_on, state, wait_state, queued>>

\* wait_current_set
Enqueue(s) ==
  /\ value[s] = 0
  /\ wait_queue' = [wait_queue EXCEPT ![s] = Append(@, current)]
  /\ wakeup_flags' = [wakeup_flags EXCEPT ![current] = "WT_INTERRUPTED"]
  /\ waits_on' = [waits_on EXCEPT ![current] = s]
  /\ SleepCurrent("WT_KSEM")
  /\ UNCHANGED value

----------------------------------------------------------------------------
(* The calls, made by the running thread, which goes on at loc.            *)

CallUp(s, loc) ==
  /\ Up(s)
  /\ Goto(current, loc)
  /\ UNCHANGED <<current, need_resched, waits_on, then>>

CallDown(s, loc) ==
  /\ \/ TakeUnit(s) /\ Goto(current, loc) /\ UNCHANGED then
     \/ /\ Enqueue(s)
        /\ Goto(current, "down_sched") /\ then' = [then EXCEPT ![current] = loc]
  /\ UNCHANGED <<current, need_resched>>

CallTryDown(s, loc) ==
  /\ \/ TakeUnit(s)
     \/ value[s] = 0 /\ UNCHANGED <<semVars, state, wait_state, queued>>
  /\ Goto(current, loc)
  /\ UNCHANGED <<current, need_resched, then>>

CallSleep(loc) ==
  /\ SleepCurrent("WT_TIMER")
  /\ Goto(current, "sleep_sched")
  /\ then' = [then EXCEPT ![current] = loc]
  /\ UNCHANGED <<current, need_resched, semVars>>

\* A thread at loc leaves the CPU and will resume at back.
CallSchedule(loc, back, next) ==
  /\ pc[current] = loc
  /\ SwitchTo(next)
  /\ Goto(current, back)
  /\ UNCHANGED <<semVars, then>>

\* The end of __down, and of down: wait_current_del, then the assertion that
\* the wakeup came from __up. The process that fails it panics: "down_failed".
DownReturn ==
  /\ pc[current] = "down_ret"
  /\ wait_queue' = [wait_queue EXCEPT ![waits_on[current]] =
                      IF Contains(@, current) THEN Remove(@, current) ELSE @]
  /\ Goto(current, IF wakeup_flags[current] = "WT_KSEM"
                   THEN then[current] ELSE "down_failed")
  /\ UNCHANGED <<schedVars, value, wakeup_flags, waits_on, then>>

SleepReturn ==
  /\ pc[current] = "sleep_ret"
  /\ Goto(current, then[current])
  /\ UNCHANGED <<schedVars, semVars, then>>

\* The timer interrupt finds p's time to have come; which sleeper's comes
\* first is left open.
TimerWakes(p) ==
  /\ wait_state[p] = "WT_TIMER"
  /\ WakeupProcs({p})
  /\ UNCHANGED <<current, need_resched, semVars, pc, then>>

\* On a tick idleproc is told to look for work.
IdleTick ==
  /\ current = Idle
  /\ ProcTick(FALSE)
  /\ UNCHANGED <<current, state, wait_state, queued, semVars, pc, then>>

IdleSchedule(next) ==
  /\ current = Idle /\ need_resched[Idle]
  /\ SwitchTo(next)
  /\ UNCHANGED <<semVars, pc, then>>

\* The steps of the calls themselves, common to all who use them.
Switching(next) ==
  \/ CallSchedule("down_sched", "down_ret", next)
  \/ CallSchedule("sleep_sched", "sleep_ret", next)
  \/ IdleSchedule(next)
Returning == DownReturn \/ SleepReturn
Interrupt == IdleTick \/ \E p \in Proc : TimerWakes(p)

----------------------------------------------------------------------------
\* Processes that have been handed their unit and not yet returned with it.
Granted(s) ==
  {p \in Proc : /\ pc[p] \in {"down_sched", "down_ret"}
                /\ waits_on[p] = s /\ wakeup_flags[p] = "WT_KSEM"}

\* A process asleep on a semaphore is on its queue, once, and there are no
\* units it could have had: the test of __down and its enqueueing are not torn
\* apart, and __up passes the unit on instead of leaving it to whoever is first.
WaitersAreQueued ==
  \A s \in Semaphore :
    /\ wait_queue[s] # <<>> => value[s] = 0
    /\ IsInjective(wait_queue[s])
    /\ \A p \in Proc :
         (\E i \in DOMAIN wait_queue[s] : wait_queue[s][i] = p)
            <=> wait_state[p] = "WT_KSEM" /\ waits_on[p] = s

\* down never comes back without its unit: its assertion flags == 0.
DownSucceeds == \A p \in Proc : pc[p] # "down_failed"

\* All other points belong to a thread's own code.
Reserved == {"down_sched", "down_ret", "sleep_sched", "sleep_ret", "idle", "gone", "down_failed"}

\* Where a thread stands in a call says what it waits for, and one that has left the
\* wait queue in the middle of __down was taken off by __up. Threads that exit are "gone".
PointsMatchWaits ==
  /\ state[current] = "RUNNABLE" \/ pc[current] \in {"down_sched", "sleep_sched", "gone"}
  /\ \A p \in Proc :
       /\ state[p] # "FREE"
       /\ state[p] = "ZOMBIE" <=> pc[p] = "gone"
       /\ pc[p] = "idle" <=> p = Idle
       /\ pc[p] \in {"down_sched", "sleep_sched"} => p = current
       /\ then[p] \notin Reserved
       /\ wait_state[p] \in {"NONE", "WT_KSEM", "WT_TIMER"}
       /\ wait_state[p] = "WT_TIMER" => pc[p] \in {"sleep_sched", "sleep_ret"}
       /\ wait_state[p] = "WT_KSEM" => /\ pc[p] \in {"down_sched", "down_ret"}
                                       /\ wakeup_flags[p] = "WT_INTERRUPTED"
       /\ pc[p] \in {"down_sched", "down_ret"} =>
            wait_state[p] = "WT_KSEM" \/ wakeup_flags[p] = "WT_KSEM"

\* What the calls preserve, whoever makes them
SemInv ==
  /\ SemTypeOK
  /\ RunQueueExact /\ SleepersWaitForSomething
  /\ WaitersAreQueued /\ DownSucceeds
  /\ PointsMatchWaits
============================================================================
