---------------------------- MODULE SemClients ----------------------------
(***************************************************************************)
(* Arbitrary users of semaphores: processes that call up, down and         *)
(* try_down in any order, go to sleep on timers, and are killed by do_kill *)
(* at any moment, in the middle of a down too.                             *)
(***************************************************************************)
EXTENDS Sem

CONSTANT
  Initial,  \* the values the semaphores start with
  MaxValue  \* bound on a value in the model

ASSUME ClientsAssumption ==
  /\ IsFiniteSet(Proc)
  /\ Semaphore # {} /\ Initial \in [Semaphore -> Nat]
  /\ MaxValue \in Nat

ClientsInit ==
  /\ SchedInit(Proc \ {Idle})
  /\ SemInit(Initial)
  /\ pc = [p \in Proc |-> IF p = Idle THEN "idle" ELSE "run"]
  /\ then = [p \in Proc |-> "run"]

ClientsTypeOK ==
  /\ SemTypeOK
  /\ pc \in [Proc -> {"idle", "run", "down_sched", "down_ret", "sleep_sched", "sleep_ret",
                      "down_failed"}]
  /\ then \in [Proc -> {"run"}]

Running == pc[current] = "run"

ClientUp == Running /\ \E s \in Semaphore : value[s] < MaxValue /\ CallUp(s, "run")
ClientDown == Running /\ \E s \in Semaphore : CallDown(s, "run")
ClientTryDown == Running /\ \E s \in Semaphore : CallTryDown(s, "run")
ClientSleep == Running /\ CallSleep("run")

\* A killed process is woken if its wait can be interrupted, which the wait for
\* a semaphore cannot (WT_KSEM).
Mut_KillWakes(q) == {q}
KillWakes(q) == IF wait_state[q] \in WT_INTERRUPTED THEN {q} ELSE {}
Kill(q) ==
  /\ Running
  /\ WakeupProcs(KillWakes(q))
  /\ UNCHANGED <<current, need_resched, semVars, pc, then>>

\* do_yield, or a time slice used up in user mode.
Preempted(next) == CallSchedule("run", "run", next)

ClientsNext ==
  \/ ClientUp \/ ClientDown \/ ClientTryDown \/ ClientSleep \/ Returning \/ Interrupt
  \/ \E q \in Proc \ {Idle} : Kill(q)
  \/ \E next \in Proc : Switching(next) \/ Preempted(next)

ClientsSpec == ClientsInit /\ [][ClientsNext]_semAll

----------------------------------------------------------------------------
\* The inductive invariant
ClientsInv == SemInv /\ ClientsTypeOK

----------------------------------------------------------------------------
\* Semaphores hand out exactly the units that were put in: a unit is in the
\* value or on its way to the waiter __up chose, and never both.
Units == [s \in Semaphore |-> value[s] + Cardinality(Granted(s))]
Contract == INSTANCE SemSpec WITH units <- Units
CountsUnits == Contract!SemSpec

\* Units are handed over in the order of the waits: an up releases the process
\* that has waited longest, and no later down or try_down overtakes it.
FirstComeFirstServed ==
  [][\A s \in Semaphore :
       LET q == wait_queue[s] IN
       q # <<>> => wait_queue'[s] = Tail(q) \/ IsPrefix(q, wait_queue'[s])]_semAll
============================================================================
