----------------------------- MODULE CheckSync -----------------------------
(***************************************************************************)
(* The dining philosophers of kern/sync/check_sync.c, solved with          *)
(* semaphores: one kernel thread per philosopher, a mutex around the       *)
(* states, and a semaphore for each philosopher to wait for its forks on.  *)
(* check_sync starts them all before the first of them runs. The           *)
(* philosophers of the monitor solution (CheckMonitor) run beside these    *)
(* and share nothing with them but the CPU.                                *)
(***************************************************************************)
EXTENDS Sem

CONSTANTS
  N,     \* philosophers
  TIMES  \* meals each of them takes

ASSUME PhilosopherAssumption == N \in Nat \ {0, 1} /\ TIMES \in Nat \ {0}

Philosopher == 0 .. N - 1
LEFT(i) == (i - 1 + N) % N
RIGHT(i) == (i + 1) % N
mutex == N       \* beside the semaphores s[i], which are the numbers of
                 \* the philosophers

ASSUME ThreadAssumption == Proc = Philosopher \cup {Idle} /\ Semaphore = 0..N

VARIABLES
  state_sema,  \* what each philosopher has declared
  iter         \* meals begun

vars == <<semAll, state_sema, iter>>

Init ==
  /\ SchedInit(Philosopher)
  /\ SemInit([x \in Semaphore |-> IF x = mutex THEN 1 ELSE 0])
  /\ pc = [p \in Proc |-> IF p = Idle THEN "idle" ELSE "loop"]
  /\ then = [p \in Proc |-> "loop"]
  /\ state_sema = [i \in Philosopher |-> "THINKING"]
  /\ iter = [i \in Philosopher |-> 0]

----------------------------------------------------------------------------
At(i, loc) == current = i /\ pc[i] = loc
Declare(i, what) == state_sema' = [state_sema EXCEPT ![i] = what]

\* The head of the loop: think for a while, or quit after the last meal.
Loop(i) ==
  /\ At(i, "loop")
  /\ \/ /\ iter[i] < TIMES
        /\ iter' = [iter EXCEPT ![i] = @ + 1]
        /\ CallSleep("take")
     \/ /\ iter[i] = TIMES
        /\ Goto(i, "quit")
        /\ UNCHANGED <<schedVars, semVars, then, iter>>
  /\ UNCHANGED state_sema

Take(i) == At(i, "take") /\ CallDown(mutex, "hungry") /\ UNCHANGED <<state_sema, iter>>

\* phi_test_sema(j), after which the caller goes on at loc.
Mut_MayEat(j) == state_sema[j] = "HUNGRY" /\ state_sema[LEFT(j)] # "EATING"
MayEat(j) ==
  /\ state_sema[j] = "HUNGRY"
  /\ state_sema[LEFT(j)] # "EATING" /\ state_sema[RIGHT(j)] # "EATING"

Test(j, loc) ==
  IF MayEat(j)
  THEN Declare(j, "EATING") /\ CallUp(j, loc)
  ELSE Goto(current, loc) /\ UNCHANGED <<schedVars, semVars, then, state_sema>>

Hungry(i) ==
  /\ At(i, "hungry")
  /\ Declare(i, "HUNGRY")
  /\ Goto(i, "test_self")
  /\ UNCHANGED <<schedVars, semVars, then, iter>>

TestSelf(i) == At(i, "test_self") /\ Test(i, "taken") /\ UNCHANGED iter
Taken(i) == At(i, "taken") /\ CallUp(mutex, "wait_forks") /\ UNCHANGED <<state_sema, iter>>
WaitForks(i) == At(i, "wait_forks") /\ CallDown(i, "eat") /\ UNCHANGED <<state_sema, iter>>
Eat(i) == At(i, "eat") /\ CallSleep("put") /\ UNCHANGED <<state_sema, iter>>
Put(i) == At(i, "put") /\ CallDown(mutex, "put_down") /\ UNCHANGED <<state_sema, iter>>

PutDown(i) ==
  /\ At(i, "put_down")
  /\ Declare(i, "THINKING")
  /\ Goto(i, "test_left")
  /\ UNCHANGED <<schedVars, semVars, then, iter>>

Mut_TestLeft(i) ==
  At(i, "test_left") /\ Goto(i, "test_right")
    /\ UNCHANGED <<schedVars, semVars, then, state_sema, iter>>
TestLeft(i) == At(i, "test_left") /\ Test(LEFT(i), "test_right") /\ UNCHANGED iter
TestRight(i) == At(i, "test_right") /\ Test(RIGHT(i), "put_done") /\ UNCHANGED iter
PutDone(i) == At(i, "put_done") /\ CallUp(mutex, "loop") /\ UNCHANGED <<state_sema, iter>>

\* The thread function returns, and the thread exits.
Quit(i) ==
  /\ At(i, "quit")
  /\ state' = [state EXCEPT ![i] = "ZOMBIE"]
  /\ Goto(i, "gone")
  /\ UNCHANGED <<current, wait_state, queued, need_resched, semVars, then>>
  /\ UNCHANGED <<state_sema, iter>>
GoneSchedule(next) == CallSchedule("gone", "gone", next)
Switch(next) == (Switching(next) \/ GoneSchedule(next)) /\ UNCHANGED <<state_sema, iter>>

Act(i) ==
  \/ Loop(i) \/ Take(i) \/ Hungry(i) \/ TestSelf(i) \/ Taken(i) \/ WaitForks(i) \/ Eat(i)
  \/ Put(i) \/ PutDown(i) \/ TestLeft(i) \/ TestRight(i) \/ PutDone(i) \/ Quit(i)

Next ==
  \/ \E i \in Philosopher : Act(i)
  \/ (Returning \/ Interrupt) /\ UNCHANGED <<state_sema, iter>>
  \/ \E next \in Proc : Switch(next)

Spec == Init /\ [][Next]_vars

\* The code goes on, sleeps end, and schedule() picks whomever it likes: the threads
\* have an end and give up the CPU only to wait, so nobody is passed over for ever.
Fairness ==
  /\ WF_vars(\E i \in Philosopher : Act(i))
  /\ WF_vars(Returning /\ UNCHANGED <<state_sema, iter>>)
  /\ WF_vars(IdleTick /\ UNCHANGED <<state_sema, iter>>)
  /\ \A i \in Philosopher : WF_vars(TimerWakes(i) /\ UNCHANGED <<state_sema, iter>>)
  /\ WF_vars(\E next \in Proc : Switch(next))

FairSpec == Spec /\ Fairness

----------------------------------------------------------------------------
\* Has its forks: from the end of down(&s[i]) until it declares to be THINKING.
HasForks(i) ==
  \/ pc[i] \in {"eat", "put", "put_down"}
  \/ pc[i] \in {"sleep_sched", "sleep_ret", "down_sched", "down_ret"}
       /\ then[i] \in {"put", "put_down"}

\* Two neighbours never eat at the same time.
NeighboursExclude == \A i \in Philosopher : ~(HasForks(i) /\ HasForks(RIGHT(i)))

\* Everybody takes all its meals and leaves: no deadlock, and nobody starves
\* while the others still eat.
AllDine == <>(\A i \in Philosopher : pc[i] = "gone")
============================================================================
