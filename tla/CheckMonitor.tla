---------------------------- MODULE CheckMonitor ----------------------------
(***************************************************************************)
(* Monitors (kern/sync/monitor.c) and the dining philosophers that use one *)
(* (kern/sync/check_sync.c). A monitor is a mutex for its procedures, a    *)
(* condition variable with a semaphore for each philosopher, and the       *)
(* semaphore "next" on which a thread that has signalled waits while the   *)
(* one it signalled is inside. Whoever leaves, or waits on a condition,    *)
(* lets a signaller back in before it frees the mutex.                     *)
(***************************************************************************)
EXTENDS Sem

CONSTANTS
  N,     \* philosophers
  TIMES  \* meals each of them takes

ASSUME PhilosopherAssumption == N \in Nat \ {0, 1} /\ TIMES \in Nat \ {0}

Philosopher == 0 .. N - 1
LEFT(i) == (i - 1 + N) % N
RIGHT(i) == (i + 1) % N

\* The semaphores: mtp->cv[i].sem is i itself.
mutex == N
next_sem == N + 1

ASSUME ThreadAssumption == Proc = Philosopher \cup {Idle} /\ Semaphore = 0 .. N + 1

VARIABLES
  state_condvar,  \* what each philosopher has declared
  iter,           \* meals begun
  count,          \* mtp->cv[i].count
  next_count,     \* mtp->next_count
  signals,        \* the condition variable a thread is signalling
  after           \* where a thread goes on after cond_signal

monVars == <<state_condvar, iter, count, next_count, signals, after>>
vars == <<semAll, monVars>>

\* monitor_init, and check_sync before any of the threads runs
Init ==
  /\ SchedInit(Philosopher)
  /\ SemInit([x \in Semaphore |-> IF x = mutex THEN 1 ELSE 0])
  /\ pc = [p \in Proc |-> IF p = Idle THEN "idle" ELSE "loop"]
  /\ then = [p \in Proc |-> "loop"]
  /\ after = [p \in Proc |-> "loop"]
  /\ state_condvar = [i \in Philosopher |-> "THINKING"]
  /\ iter = [i \in Philosopher |-> 0]
  /\ count = [i \in Philosopher |-> 0]
  /\ next_count = 0
  /\ signals = [i \in Philosopher |-> i]

----------------------------------------------------------------------------
At(i, loc) == current = i /\ pc[i] = loc
Quiet == UNCHANGED <<schedVars, semVars, then>>

(* cond_signal, called by i for condition variable j; it returns to back.  *)

Signal(i, j, back) ==
  IF count[j] > 0
  THEN /\ next_count' = next_count + 1
       /\ signals' = [signals EXCEPT ![i] = j]
       /\ after' = [after EXCEPT ![i] = back]
       /\ Goto(i, "signal_up")
  ELSE Goto(i, back) /\ UNCHANGED <<next_count, signals, after>>

SignalUp(i) ==
  At(i, "signal_up") /\ CallUp(signals[i], "signal_down") /\ UNCHANGED monVars
Mut_SignalDown(i) ==
  At(i, "signal_down") /\ Goto(i, "signal_end") /\ Quiet /\ UNCHANGED monVars
SignalDown(i) ==
  At(i, "signal_down") /\ CallDown(next_sem, "signal_end") /\ UNCHANGED monVars
SignalEnd(i) ==
  /\ At(i, "signal_end")
  /\ next_count' = next_count - 1
  /\ Goto(i, after[i])
  /\ Quiet /\ UNCHANGED <<state_condvar, iter, count, signals, after>>

\* Letting the next thread in: a signaller if there is one.
Mut_LetIn(loc) == CallUp(mutex, loc)
LetIn(loc) == CallUp(IF next_count > 0 THEN next_sem ELSE mutex, loc)

(* cond_wait of i on its own condition variable.                           *)

Wait(i) ==
  /\ count' = [count EXCEPT ![i] = @ + 1]
  /\ Goto(i, "wait_release")
  /\ Quiet /\ UNCHANGED <<state_condvar, iter, next_count, signals, after>>
WaitRelease(i) == At(i, "wait_release") /\ LetIn("wait_down") /\ UNCHANGED monVars
WaitDown(i) == At(i, "wait_down") /\ CallDown(i, "wait_end") /\ UNCHANGED monVars
WaitEnd(i) ==
  /\ At(i, "wait_end")
  /\ count' = [count EXCEPT ![i] = @ - 1]
  /\ Goto(i, "check")
  /\ Quiet /\ UNCHANGED <<state_condvar, iter, next_count, signals, after>>

----------------------------------------------------------------------------
Loop(i) ==
  /\ At(i, "loop")
  /\ \/ /\ iter[i] < TIMES
        /\ iter' = [iter EXCEPT ![i] = @ + 1]
        /\ CallSleep("take")
     \/ /\ iter[i] = TIMES
        /\ Goto(i, "quit")
        /\ Quiet /\ UNCHANGED iter
  /\ UNCHANGED <<state_condvar, count, next_count, signals, after>>

\* phi_test_condvar(j), called by i, which goes on at loc.
Mut_MayEat(j) == state_condvar[j] = "HUNGRY" /\ state_condvar[LEFT(j)] # "EATING"
MayEat(j) ==
  /\ state_condvar[j] = "HUNGRY"
  /\ state_condvar[LEFT(j)] # "EATING" /\ state_condvar[RIGHT(j)] # "EATING"

Test(i, j, loc) ==
  /\ IF MayEat(j)
     THEN /\ state_condvar' = [state_condvar EXCEPT ![j] = "EATING"]
          /\ Signal(i, j, loc)
     ELSE Goto(i, loc) /\ UNCHANGED <<state_condvar, next_count, signals, after>>
  /\ Quiet /\ UNCHANGED <<iter, count>>

Declare(i, what, loc) ==
  /\ state_condvar' = [state_condvar EXCEPT ![i] = what]
  /\ Goto(i, loc)
  /\ Quiet /\ UNCHANGED <<iter, count, next_count, signals, after>>

\* phi_take_forks_condvar
Take(i) == At(i, "take") /\ CallDown(mutex, "hungry") /\ UNCHANGED monVars
Hungry(i) == At(i, "hungry") /\ Declare(i, "HUNGRY", "test_self")
TestSelf(i) == At(i, "test_self") /\ Test(i, i, "check")
Check(i) ==
  /\ At(i, "check")
  /\ IF state_condvar[i] # "EATING" THEN Wait(i)
     ELSE Goto(i, "leave_take") /\ Quiet /\ UNCHANGED monVars
LeaveTake(i) == At(i, "leave_take") /\ LetIn("eat") /\ UNCHANGED monVars
Eat(i) == At(i, "eat") /\ CallSleep("put") /\ UNCHANGED monVars

\* phi_put_forks_condvar
Put(i) == At(i, "put") /\ CallDown(mutex, "put_down") /\ UNCHANGED monVars
PutDown(i) == At(i, "put_down") /\ Declare(i, "THINKING", "test_left")
Mut_TestLeft(i) ==
  At(i, "test_left") /\ Goto(i, "test_right") /\ Quiet /\ UNCHANGED monVars
TestLeft(i) == At(i, "test_left") /\ Test(i, LEFT(i), "test_right")
TestRight(i) == At(i, "test_right") /\ Test(i, RIGHT(i), "leave_put")
LeavePut(i) == At(i, "leave_put") /\ LetIn("loop") /\ UNCHANGED monVars

\* The thread function returns, and the thread exits.
Quit(i) ==
  /\ At(i, "quit")
  /\ state' = [state EXCEPT ![i] = "ZOMBIE"]
  /\ Goto(i, "gone")
  /\ UNCHANGED <<current, wait_state, queued, need_resched, semVars, then, monVars>>
GoneSchedule(next) == CallSchedule("gone", "gone", next)

Act(i) ==
  \/ Loop(i) \/ Take(i) \/ Hungry(i) \/ TestSelf(i) \/ Check(i) \/ LeaveTake(i) \/ Eat(i)
  \/ SignalUp(i) \/ SignalDown(i) \/ SignalEnd(i)
  \/ WaitRelease(i) \/ WaitDown(i) \/ WaitEnd(i)
  \/ Put(i) \/ PutDown(i) \/ TestLeft(i) \/ TestRight(i) \/ LeavePut(i)
  \/ Quit(i)

Switch(next) == (Switching(next) \/ GoneSchedule(next)) /\ UNCHANGED monVars

Next ==
  \/ \E i \in Philosopher : Act(i)
  \/ (Returning \/ Interrupt) /\ UNCHANGED monVars
  \/ \E next \in Proc : Switch(next)

Spec == Init /\ [][Next]_vars

\* The code goes on, sleeps end, and schedule() picks whomever it likes: the threads
\* have an end and give up the CPU only to wait, so nobody is passed over for ever.
Fairness ==
  /\ WF_vars(\E i \in Philosopher : Act(i))
  /\ WF_vars(Returning /\ UNCHANGED monVars)
  /\ WF_vars(IdleTick /\ UNCHANGED monVars)
  /\ \A i \in Philosopher : WF_vars(TimerWakes(i) /\ UNCHANGED monVars)
  /\ WF_vars(\E next \in Proc : Switch(next))

FairSpec == Spec /\ Fairness

----------------------------------------------------------------------------
\* Signallers between next_count++ and next_count--.
Signallers ==
  {i \in Philosopher :
    \/ pc[i] \in {"signal_up", "signal_down", "signal_end"}
    \/ pc[i] \in {"down_sched", "down_ret"} /\ then[i] = "signal_end"}

\* Threads inside the monitor and free to run in it: at a point where they use
\* its variables, or handed the semaphore that lets them go on there.
Inside ==
  {"hungry", "test_self", "check", "wait_release", "wait_end", "leave_take", "leave_put",
   "put_down", "test_left", "test_right", "signal_up", "signal_end"}
Active ==
  {i \in Philosopher :
    \/ pc[i] \in Inside
    \/ /\ pc[i] \in {"down_sched", "down_ret"} /\ then[i] \in Inside
       /\ wakeup_flags[i] = "WT_KSEM"}

\* A monitor is one thread's at a time, through all the handing over between
\* the mutex, the condition variables and next; and when nobody has it the
\* mutex is free (a unit more or less would let in two, or nobody ever again).
OneInside ==
  Cardinality(Active) + value[mutex] + value[next_sem]
    + Cardinality({i \in Philosopher : value[i] > 0}) = 1

\* The counters tell the truth to those who branch on them: next_count counts
\* the signallers that have not come back, none of which is left behind when the
\* monitor is free, and a condition variable counts its waiters, so a signal is
\* only sent to a thread that is waiting for it.
CountsExact ==
  /\ next_count = Cardinality(Signallers)
  /\ value[mutex] = 1 => next_count = 0
  /\ \A i \in Philosopher :
       count[i] = IF \/ pc[i] \in {"wait_release", "wait_down", "wait_end"}
                     \/ pc[i] \in {"down_sched", "down_ret"} /\ then[i] = "wait_end"
                  THEN 1 ELSE 0

\* Between its two calls a philosopher has the forks, and no neighbour has.
HasForks(i) ==
  \/ pc[i] \in {"eat", "put", "put_down"}
  \/ pc[i] \in {"sleep_sched", "sleep_ret", "down_sched", "down_ret"}
       /\ then[i] \in {"put", "put_down"}
NeighboursExclude == \A i \in Philosopher : ~(HasForks(i) /\ HasForks(RIGHT(i)))

\* Everybody takes all its meals and leaves.
AllDine == <>(\A i \in Philosopher : pc[i] = "gone")
============================================================================
