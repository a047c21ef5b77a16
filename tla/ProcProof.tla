------------------------------ MODULE ProcProof ------------------------------
(***************************************************************************)
(* Proofs about Proc, for any set of processes and any sleep times: IInv   *)
(* is inductive, and with it the safety properties and the action          *)
(* properties that the runs check on small instances. There is one lemma   *)
(* per action; its steps are the conjuncts of IInv. The second half is     *)
(* about the process tree: it has no cycles, whatever exits in whatever    *)
(* order, so that initproc, when it has no child left, is alone with       *)
(* idleproc.                                                               *)
(***************************************************************************)
EXTENDS Killed, TLAPS

USE IdleAssumption, ProcAssumption

\* The state proc_init leaves satisfies the invariant.
LEMMA InitEstablishes == ProcInit => IInv
<1> SUFFICES ASSUME ProcInit PROVE IInv
  OBVIOUS
<1> USE DEF ProcInit, SchedInit
<1>1. TypeOK
  <2>1. SchedTypeOK
    BY DEF SchedTypeOK, PState, WaitState, WT_INTERRUPTED
  <2>2. pc \in [Proc -> Location]
    BY DEF Location
  <2>3. exiting \in [Proc -> BOOLEAN] /\ panicked \in BOOLEAN
    OBVIOUS
  <2>4. parent \in [Proc -> Proc] /\ waitfor \in [Proc -> Proc]
    OBVIOUS
  <2>5. timer \in [Proc -> 0..MaxSleep]
    OBVIOUS
  <2> QED BY <2>1, <2>2, <2>3, <2>4, <2>5 DEF TypeOK
<1>2. RunQueueExact /\ SleepersWaitForSomething /\ PointsMatchStates /\ TimersHaveFrames
  BY DEF RunQueueExact, SleepersWaitForSomething, PointsMatchStates, TimersHaveFrames
<1>3. ParentsAlive /\ ParentsAreOthers /\ NoMissedWakeup
  BY DEF ParentsAlive, ParentsAreOthers, NoMissedWakeup, Live
<1> QED BY <1>1, <1>2, <1>3 DEF IInv

\* do_fork, the caller running: the child starts queued, parented and with no timer.
LEMMA ForkKeeps ==
  ASSUME IInv, NEW p \in Proc, NEW c \in Proc, current = p, state[p] = "RUNNABLE",
         pc[p] \in {"user", "init_main"}, Fork(p, c)
  PROVE  IInv'
<1> USE DEF Fork, WakeupProcs, WakeStates, WakeWaits, WakeQueue, Woken, MustQueue
<1>1. TypeOK'
  BY DEF IInv, TypeOK, SchedTypeOK, PState, WaitState, WT_INTERRUPTED, Location
<1>2. RunQueueExact' /\ SleepersWaitForSomething'
  BY DEF IInv, TypeOK, SchedTypeOK, RunQueueExact, SleepersWaitForSomething,
     PointsMatchStates, TimersHaveFrames, WT_INTERRUPTED
<1>3. PointsMatchStates'
  BY DEF IInv, TypeOK, SchedTypeOK, PState, SleepersWaitForSomething, PointsMatchStates,
     RunQueueExact, TimersHaveFrames, WT_INTERRUPTED
<1>4. TimersHaveFrames'
  BY DEF IInv, TypeOK, SchedTypeOK, TimersHaveFrames, PointsMatchStates
<1>5. ParentsAlive' /\ ParentsAreOthers'
  BY DEF IInv, TypeOK, SchedTypeOK, PState, ParentsAlive, ParentsAreOthers,
     PointsMatchStates, SleepersWaitForSomething, Live
<1>6. NoMissedWakeup'
  BY DEF IInv, TypeOK, SchedTypeOK, NoMissedWakeup, PointsMatchStates,
     SleepersWaitForSomething, Live, Awaited, AwaitedZombies, Children, WT_INTERRUPTED
<1> QED BY <1>1, <1>2, <1>3, <1>4, <1>5, <1>6 DEF IInv

\* do_exit: whom it wakes was asleep in do_wait, so the wakeups and the
\* caller's own change of state do not meet.
LEMMA DoExitKeeps ==
  ASSUME IInv, NEW p \in Proc, current = p, state[p] = "RUNNABLE",
         pc[p] \notin {"sleep_sched", "sleep_ret", "idle"}, DoExit(p)
  PROVE  IInv'
<1>1. CASE p = Init
  BY <1>1 DEF DoExit, IInv, TypeOK, SchedTypeOK, schedVars, RunQueueExact,
     SleepersWaitForSomething, PointsMatchStates, TimersHaveFrames, ParentsAlive,
     ParentsAreOthers, NoMissedWakeup, Live, Awaited, AwaitedZombies, Children
<1>2. CASE p # Init
  <2> DEFINE W == {q \in Proc : state[q] = "SLEEPING" /\ q \in ExitWakes(p)}
  <2>1. Woken(ExitWakes(p)) = W /\ p \notin W
    BY DEF IInv, TypeOK, SchedTypeOK, PState, Woken, ExitWakes, SleepersWaitForSomething
  <2>2. \A q \in W : wait_state[q] = "WT_CHILD"
    BY DEF ExitWakes
  <2>3. \A q \in Proc : wait_state[q] = "WT_CHILD" /\ q \notin W =>
          q # parent[p] /\ (q = Init => ZombieChildren(p) = {})
    BY DEF IInv, ExitWakes, SleepersWaitForSomething
  <2>4. /\ state' = [q \in Proc |-> IF q = p THEN "ZOMBIE"
                                    ELSE IF q \in W THEN "RUNNABLE" ELSE state[q]]
        /\ wait_state' = [q \in Proc |-> IF q \in W THEN "NONE" ELSE wait_state[q]]
        /\ queued' = [q \in Proc |-> IF q \in W /\ q \notin {p, Idle}
                                     THEN queued[q] + 1 ELSE queued[q]]
        /\ parent' = [q \in Proc |-> IF q \in Children(p) THEN Init ELSE parent[q]]
        /\ pc' = [pc EXCEPT ![p] = "exit_sched"]
        /\ UNCHANGED <<current, need_resched, exiting, timer, waitfor, panicked>>
    BY <1>2, <2>1 DEF DoExit, Goto, WakeStates, WakeWaits, WakeQueue, MustQueue,
       ParentAfterExit, IInv, TypeOK, SchedTypeOK
  <2> HIDE DEF W
  <2>5. TypeOK'
    BY <2>4 DEF IInv, TypeOK, SchedTypeOK, PState, WaitState, WT_INTERRUPTED, Location
  <2>w. W \subseteq Proc /\ \A q \in W : state[q] = "SLEEPING"
    BY DEF W
  <2>6. RunQueueExact' /\ SleepersWaitForSomething'
    BY <2>1, <2>4, <2>w DEF IInv, TypeOK, SchedTypeOK, RunQueueExact,
       SleepersWaitForSomething, PointsMatchStates
  <2>7. PointsMatchStates'
    BY <1>2, <2>1, <2>4, <2>w DEF IInv, TypeOK, SchedTypeOK, PointsMatchStates
  <2>8. TimersHaveFrames'
    BY <2>4 DEF IInv, TypeOK, SchedTypeOK, TimersHaveFrames, PointsMatchStates
  <2>9. ParentsAlive'
    <3>1. state'[Init] \in {"SLEEPING", "RUNNABLE"}
      BY <1>2, <2>4 DEF IInv, TypeOK, SchedTypeOK, PState, PointsMatchStates
    <3> SUFFICES ASSUME NEW q \in Proc, q # Idle, state'[q] # "FREE"
                 PROVE  state'[parent'[q]] \in {"SLEEPING", "RUNNABLE"}
      BY DEF ParentsAlive, Live
    <3>2. state[q] # "FREE"
      BY <2>4, <2>w DEF IInv, TypeOK, SchedTypeOK
    <3>3. CASE parent[q] = p
      BY <2>4, <3>1, <3>2, <3>3 DEF Children, Live
    <3>4. CASE parent[q] # p
      BY <2>4, <3>2, <3>4 DEF IInv, TypeOK, SchedTypeOK, ParentsAlive, Children, Live
    <3> QED BY <3>3, <3>4
  <2>11. ParentsAreOthers'
    BY <1>2, <2>4, <2>w DEF IInv, TypeOK, SchedTypeOK, ParentsAreOthers,
       PointsMatchStates, Children, Live
  <2>10. NoMissedWakeup'
    <3> SUFFICES ASSUME NEW q \in Proc
                 PROVE  /\ wait_state'[q] = "WT_TIMER" => timer'[q] > 0
                        /\ wait_state'[q] = "WT_CHILD" =>
                             Awaited(q)' # {} /\ AwaitedZombies(q)' = {}
      BY DEF NoMissedWakeup
    <3>1. wait_state'[q] = "WT_TIMER" => timer'[q] > 0
      BY <2>4 DEF IInv, TypeOK, SchedTypeOK, NoMissedWakeup
    <3>2. ASSUME wait_state'[q] = "WT_CHILD"
          PROVE  Awaited(q)' # {} /\ AwaitedZombies(q)' = {}
      <4>1. /\ wait_state[q] = "WT_CHILD" /\ q \notin W /\ q # p
            /\ Awaited(q) # {} /\ AwaitedZombies(q) = {}
        BY <2>4, <3>2 DEF IInv, TypeOK, SchedTypeOK, NoMissedWakeup,
           SleepersWaitForSomething
      <4>2. Children(q)' = Children(q) \cup (IF q = Init THEN Children(p) ELSE {})
        BY <2>4, <2>w, <4>1 DEF IInv, TypeOK, SchedTypeOK, Children, Live
      <4>3. \A c \in Children(q)' : state'[c] # "ZOMBIE" \/ (c \in Children(q) /\ state[c] = "ZOMBIE")
        BY <2>3, <2>4, <2>w, <4>1, <4>2 DEF IInv, ParentsAreOthers, Children,
           Live, ZombieChildren
      <4> QED
        BY <2>4, <4>1, <4>2, <4>3 DEF Awaited, AwaitedZombies
    <3> QED BY <3>1, <3>2
  <2> QED BY <2>5, <2>6, <2>7, <2>8, <2>9, <2>10, <2>11 DEF IInv
<1> QED BY <1>1, <1>2

\* The successful end of do_wait: the slot of the child is free again.
LEMMA WaitReapKeeps ==
  ASSUME IInv, NEW p \in Proc, WaitReap(p)
  PROVE  IInv'
<1>0. PICK c \in AwaitedZombies(p) :
        /\ state' = [state EXCEPT ![c] = "FREE"]
        /\ pc' = [pc EXCEPT ![c] = "none",
                           ![p] = IF p = Init THEN "init_sched" ELSE "sys_ret"]
        /\ exiting' = [exiting EXCEPT ![c] = FALSE]
        /\ parent' = [parent EXCEPT ![c] = Idle]
        /\ need_resched' = [need_resched EXCEPT ![c] = FALSE]
        /\ waitfor' = [waitfor EXCEPT ![c] = Idle, ![p] = Idle]
  BY DEF WaitReap
<1>a. /\ c \in Proc /\ state[c] = "ZOMBIE" /\ parent[c] = p /\ c # Idle
      /\ current = p /\ pc[p] = "wait_check"
      /\ UNCHANGED <<current, wait_state, queued, timer, panicked>>
  BY DEF WaitReap, At, AwaitedZombies, Awaited, Children, Live
<1>1. TypeOK'
  <2>1. SchedTypeOK'
    BY <1>0, <1>a DEF IInv, TypeOK, SchedTypeOK, PState
  <2>2. pc' \in [Proc -> Location]
    BY <1>0, <1>a DEF IInv, TypeOK, Location
  <2>3. exiting' \in [Proc -> BOOLEAN]
    BY <1>0, <1>a DEF IInv, TypeOK
  <2>4. parent' \in [Proc -> Proc] /\ waitfor' \in [Proc -> Proc]
    BY <1>0, <1>a DEF IInv, TypeOK
  <2> QED BY <1>a, <2>1, <2>2, <2>3, <2>4 DEF IInv, TypeOK
<1>2. RunQueueExact' /\ SleepersWaitForSomething'
  BY <1>0, <1>a DEF IInv, TypeOK, SchedTypeOK, RunQueueExact, SleepersWaitForSomething,
     PointsMatchStates, TimersHaveFrames, WT_INTERRUPTED
<1>3. PointsMatchStates'
  BY <1>0, <1>a DEF IInv, TypeOK, SchedTypeOK, PState, SleepersWaitForSomething,
     PointsMatchStates, RunQueueExact, TimersHaveFrames, WT_INTERRUPTED
<1>4. TimersHaveFrames'
  BY <1>0, <1>a DEF IInv, TypeOK, SchedTypeOK, TimersHaveFrames, PointsMatchStates
<1>5. ParentsAlive' /\ ParentsAreOthers'
  BY <1>0, <1>a DEF IInv, TypeOK, SchedTypeOK, PState, ParentsAlive, ParentsAreOthers,
     PointsMatchStates, SleepersWaitForSomething, Live
<1>6. NoMissedWakeup'
  BY <1>0, <1>a DEF IInv, TypeOK, SchedTypeOK, NoMissedWakeup, PointsMatchStates,
     SleepersWaitForSomething, Live, Awaited, AwaitedZombies, Children, WT_INTERRUPTED
<1> QED BY <1>1, <1>2, <1>3, <1>4, <1>5, <1>6 DEF IInv

\* do_wait going to sleep: it has just seen children and no zombie among them.
LEMMA WaitSleepKeeps ==
  ASSUME IInv, NEW p \in Proc, WaitSleep(p)
  PROVE  IInv'
<1> USE DEF WaitSleep, SleepCurrent, At, Goto
<1>1. TypeOK'
  BY DEF IInv, TypeOK, SchedTypeOK, PState, WaitState, WT_INTERRUPTED, Location
<1>2. RunQueueExact' /\ SleepersWaitForSomething'
  BY DEF IInv, TypeOK, SchedTypeOK, RunQueueExact, SleepersWaitForSomething,
     PointsMatchStates, TimersHaveFrames, WT_INTERRUPTED
<1>3. PointsMatchStates'
  BY DEF IInv, TypeOK, SchedTypeOK, PState, SleepersWaitForSomething, PointsMatchStates,
     RunQueueExact, TimersHaveFrames, WT_INTERRUPTED
<1>4. TimersHaveFrames'
  BY DEF IInv, TypeOK, SchedTypeOK, TimersHaveFrames, PointsMatchStates
<1>5. ParentsAlive' /\ ParentsAreOthers'
  BY DEF IInv, TypeOK, SchedTypeOK, PState, ParentsAlive, ParentsAreOthers,
     PointsMatchStates, SleepersWaitForSomething, Live
<1>6. NoMissedWakeup'
  BY DEF IInv, TypeOK, SchedTypeOK, NoMissedWakeup, PointsMatchStates,
     SleepersWaitForSomething, Live, Awaited, AwaitedZombies, Children, WT_INTERRUPTED
<1> QED BY <1>1, <1>2, <1>3, <1>4, <1>5, <1>6 DEF IInv

\* do_sleep going to sleep, its timer armed.
LEMMA SysSleepKeeps ==
  ASSUME IInv, NEW p \in Proc, SysSleep(p)
  PROVE  IInv'
<1> USE DEF SysSleep, SleepCurrent, At, Goto
<1>1. TypeOK'
  BY DEF IInv, TypeOK, SchedTypeOK, PState, WaitState, WT_INTERRUPTED, Location
<1>2. RunQueueExact' /\ SleepersWaitForSomething'
  BY DEF IInv, TypeOK, SchedTypeOK, RunQueueExact, SleepersWaitForSomething,
     PointsMatchStates, TimersHaveFrames, WT_INTERRUPTED
<1>3. PointsMatchStates'
  BY DEF IInv, TypeOK, SchedTypeOK, PState, SleepersWaitForSomething, PointsMatchStates,
     RunQueueExact, TimersHaveFrames, WT_INTERRUPTED
<1>4. TimersHaveFrames'
  BY DEF IInv, TypeOK, SchedTypeOK, TimersHaveFrames, PointsMatchStates
<1>5. ParentsAlive' /\ ParentsAreOthers'
  BY DEF IInv, TypeOK, SchedTypeOK, PState, ParentsAlive, ParentsAreOthers,
     PointsMatchStates, SleepersWaitForSomething, Live
<1>6. NoMissedWakeup'
  BY DEF IInv, TypeOK, SchedTypeOK, NoMissedWakeup, PointsMatchStates,
     SleepersWaitForSomething, Live, Awaited, AwaitedZombies, Children, WT_INTERRUPTED
<1> QED BY <1>1, <1>2, <1>3, <1>4, <1>5, <1>6 DEF IInv

\* wakeup_proc, called on processes that are not dead.
LEMMA WakeupEffect ==
  ASSUME IInv, NEW W \in SUBSET Proc, \A q \in W : state[q] \in {"SLEEPING", "RUNNABLE"},
         WakeupProcs(W), current' = current
  PROVE  /\ state' = [q \in Proc |-> IF q \in W THEN "RUNNABLE" ELSE state[q]]
         /\ wait_state' = [q \in Proc |-> IF q \in W THEN "NONE" ELSE wait_state[q]]
         /\ queued' \in [Proc -> Nat]
         /\ RunQueueExact' /\ SleepersWaitForSomething'
<1> USE DEF WakeupProcs, IInv, TypeOK, SchedTypeOK
<1>1. Woken(W) = {q \in W : state[q] = "SLEEPING"}
  BY DEF Woken
<1>2. /\ state' = [q \in Proc |-> IF q \in W THEN "RUNNABLE" ELSE state[q]]
      /\ wait_state' = [q \in Proc |-> IF q \in W THEN "NONE" ELSE wait_state[q]]
  BY <1>1 DEF WakeStates, WakeWaits, SleepersWaitForSomething
<1>3. queued' = [q \in Proc |-> IF q \in W /\ state[q] = "SLEEPING" /\ q \notin {current, Idle}
                               THEN queued[q] + 1 ELSE queued[q]]
  BY <1>1 DEF WakeQueue, MustQueue
<1>4. RunQueueExact' /\ SleepersWaitForSomething'
  BY <1>2, <1>3 DEF RunQueueExact, SleepersWaitForSomething
<1> QED BY <1>2, <1>3, <1>4

\* do_kill: the victim it wakes, if any, was asleep.
LEMMA SysKillKeeps ==
  ASSUME IInv, NEW p \in Proc, SysKill(p)
  PROVE  IInv'
<1>1. PICK q \in Killable :
        IF q \notin Live \/ exiting[q]
        THEN UNCHANGED <<state, wait_state, queued, exiting>>
        ELSE /\ exiting' = [exiting EXCEPT ![q] = TRUE]
             /\ WakeupProcs(KillWakes(q))
  BY DEF SysKill
<1>2. /\ current = p /\ pc[p] = "user" /\ pc' = [pc EXCEPT ![p] = "sys_ret"]
      /\ UNCHANGED <<current, need_resched, parent, timer, waitfor, panicked>>
  BY DEF SysKill, At, Goto
<1>3. PICK W \in SUBSET Proc :
        /\ \A r \in W : state[r] = "SLEEPING"
        /\ state' = [r \in Proc |-> IF r \in W THEN "RUNNABLE" ELSE state[r]]
        /\ wait_state' = [r \in Proc |-> IF r \in W THEN "NONE" ELSE wait_state[r]]
        /\ queued' \in [Proc -> Nat] /\ exiting' \in [Proc -> BOOLEAN]
        /\ RunQueueExact' /\ SleepersWaitForSomething'
  <2>1. CASE q \notin Live \/ exiting[q]
    <3>1. /\ state' = [r \in Proc |-> IF r \in {} THEN "RUNNABLE" ELSE state[r]]
          /\ wait_state' = [r \in Proc |-> IF r \in {} THEN "NONE" ELSE wait_state[r]]
      BY <1>1, <2>1 DEF IInv, TypeOK, SchedTypeOK
    <3>2. queued' \in [Proc -> Nat] /\ exiting' \in [Proc -> BOOLEAN]
      BY <1>1, <2>1 DEF IInv, TypeOK, SchedTypeOK
    <3>3. RunQueueExact' /\ SleepersWaitForSomething'
      BY <1>1, <1>2, <2>1 DEF IInv, RunQueueExact, SleepersWaitForSomething
    <3> WITNESS {} \in SUBSET Proc
    <3> QED BY <3>1, <3>2, <3>3
  <2>2. CASE ~(q \notin Live \/ exiting[q])
    <3>1. KillWakes(q) \in SUBSET Proc /\ \A r \in KillWakes(q) : state[r] = "SLEEPING"
      BY DEF KillWakes, IInv, SleepersWaitForSomething, WT_INTERRUPTED
    <3>2. exiting' \in [Proc -> BOOLEAN]
      BY <1>1, <2>2 DEF IInv, TypeOK
    <3> QED BY <1>1, <1>2, <2>2, <3>1, <3>2, WakeupEffect
  <2> QED BY <2>1, <2>2
<1>4. TypeOK'
  BY <1>2, <1>3 DEF IInv, TypeOK, SchedTypeOK, PState, WaitState, Location
<1>5. PointsMatchStates'
  BY <1>2, <1>3 DEF IInv, TypeOK, SchedTypeOK, PState, PointsMatchStates
<1>6. TimersHaveFrames'
  BY <1>2 DEF IInv, TypeOK, TimersHaveFrames
<1>7. ParentsAlive' /\ ParentsAreOthers'
  BY <1>2, <1>3 DEF IInv, TypeOK, SchedTypeOK, ParentsAlive, ParentsAreOthers, Live
<1>8. NoMissedWakeup'
  BY <1>2, <1>3 DEF IInv, TypeOK, SchedTypeOK, NoMissedWakeup, Awaited, AwaitedZombies,
     Children, Live
<1> QED BY <1>3, <1>4, <1>5, <1>6, <1>7, <1>8 DEF IInv

\* The timer interrupt: the sleepers it wakes are those whose timers end.
LEMMA TickKeeps ==
  ASSUME IInv, NEW expired \in BOOLEAN, Tick(expired)
  PROVE  IInv'
<1>1. /\ current' = current
      /\ pc' = IF pc[current] = "user" THEN [pc EXCEPT ![current] = "intr_ret"] ELSE pc
      /\ timer' = [p \in Proc |-> IF timer[p] > 0 THEN timer[p] - 1 ELSE 0]
      /\ need_resched' \in [Proc -> BOOLEAN]
      /\ UNCHANGED <<exiting, parent, waitfor, panicked>>
  BY DEF Tick, Goto, TimerAfterTick, ProcTick, IInv, TypeOK, SchedTypeOK
<1>2. Due \in SUBSET Proc /\ \A q \in Due : state[q] \in {"SLEEPING", "RUNNABLE"}
  BY DEF Due, IInv, TypeOK, SchedTypeOK, PState, TimersHaveFrames, PointsMatchStates
<1>3. /\ state' = [q \in Proc |-> IF q \in Due THEN "RUNNABLE" ELSE state[q]]
      /\ wait_state' = [q \in Proc |-> IF q \in Due THEN "NONE" ELSE wait_state[q]]
      /\ queued' \in [Proc -> Nat]
      /\ RunQueueExact' /\ SleepersWaitForSomething'
  BY <1>1, <1>2, WakeupEffect DEF Tick
<1>4. TypeOK'
  BY <1>1, <1>3 DEF IInv, TypeOK, SchedTypeOK, PState, WaitState, Location
<1>5. PointsMatchStates'
  BY <1>1, <1>2, <1>3 DEF IInv, TypeOK, SchedTypeOK, PState, PointsMatchStates
<1>6. TimersHaveFrames'
  BY <1>1 DEF IInv, TypeOK, SchedTypeOK, TimersHaveFrames
<1>7. ParentsAlive' /\ ParentsAreOthers'
  BY <1>1, <1>2, <1>3 DEF IInv, TypeOK, SchedTypeOK, ParentsAlive, ParentsAreOthers, Live
<1>8. NoMissedWakeup'
  <2>1. \A p \in Proc : wait_state'[p] = "WT_TIMER" => timer'[p] > 0
    BY <1>1, <1>3 DEF IInv, TypeOK, SchedTypeOK, NoMissedWakeup, Due
  <2>2. \A p \in Proc : wait_state'[p] = "WT_CHILD" =>
          Awaited(p)' # {} /\ AwaitedZombies(p)' = {}
    BY <1>1, <1>2, <1>3 DEF IInv, TypeOK, SchedTypeOK, NoMissedWakeup, Awaited,
       AwaitedZombies, Children, Live
  <2> QED BY <2>1, <2>2 DEF NoMissedWakeup
<1> QED BY <1>3, <1>4, <1>5, <1>6, <1>7, <1>8 DEF IInv

\* schedule() from any of its callers: one process leaves the queue as another enters it.
LEMMA SwitchToKeeps ==
  ASSUME IInv, NEW p \in Proc, NEW next \in Proc, Switch(p, next)
  PROVE  IInv'
<1> USE DEF Switch, CallSchedule, ResumeAt, IdleSchedule, AtTrapEnd, TrapReschedule,
            SwitchTo, Requeued, At, Goto, procVars
<1>1. TypeOK'
  <2>1. queued' \in [Proc -> Nat]
    BY DEF IInv, TypeOK, SchedTypeOK, RunQueueExact
  <2>2. need_resched' \in [Proc -> BOOLEAN] /\ current' \in Proc
    BY DEF IInv, TypeOK, SchedTypeOK
  <2>3. pc' \in [Proc -> Location]
    BY DEF IInv, TypeOK, Location
  <2>4. UNCHANGED <<state, wait_state, exiting, parent, timer, waitfor, panicked>>
    OBVIOUS
  <2> QED BY <2>1, <2>2, <2>3, <2>4 DEF IInv, TypeOK, SchedTypeOK
<1>2. RunQueueExact' /\ SleepersWaitForSomething'
  BY DEF IInv, TypeOK, SchedTypeOK, RunQueueExact, SleepersWaitForSomething,
     PointsMatchStates, TimersHaveFrames, WT_INTERRUPTED
<1>3. PointsMatchStates'
  BY DEF IInv, TypeOK, SchedTypeOK, PState, SleepersWaitForSomething, PointsMatchStates,
     RunQueueExact, TimersHaveFrames, WT_INTERRUPTED
<1>4. TimersHaveFrames'
  BY DEF IInv, TypeOK, SchedTypeOK, TimersHaveFrames, PointsMatchStates
<1>5. ParentsAlive' /\ ParentsAreOthers'
  BY DEF IInv, TypeOK, SchedTypeOK, PState, ParentsAlive, ParentsAreOthers,
     PointsMatchStates, SleepersWaitForSomething, Live
<1>6. NoMissedWakeup'
  BY DEF IInv, TypeOK, SchedTypeOK, NoMissedWakeup, PointsMatchStates,
     SleepersWaitForSomething, Live, Awaited, AwaitedZombies, Children, WT_INTERRUPTED
<1> QED BY <1>1, <1>2, <1>3, <1>4, <1>5, <1>6 DEF IInv

\* Past its return from schedule() the running process can run.
LEMMA CurrentRuns ==
  ASSUME IInv, pc[current] \notin {"sleep_sched", "wait_sched", "exit_sched"}
  PROVE  state[current] = "RUNNABLE"
BY DEF IInv, TypeOK, SchedTypeOK, PState, PointsMatchStates

\* Steps of the running process p that only move it on: no process changes its
\* state, and p has no timer.
LEMMA MoveKeeps ==
  ASSUME IInv, NEW p \in Proc, current = p, pc[p] # "idle",
         pc[p] \notin {"sleep_sched", "wait_sched", "exit_sched"},
         NEW loc \in {"sys_ret", "user", "wait_check", "init_done"},
         pc' = [pc EXCEPT ![p] = loc],
         need_resched' \in [Proc -> BOOLEAN],
         timer' \in [Proc -> 0..MaxSleep],
         timer'[p] = 0, \A q \in Proc \ {p} : timer'[q] = timer[q],
         waitfor' \in [Proc -> Proc], \A q \in Proc \ {p} : waitfor'[q] = waitfor[q],
         UNCHANGED <<current, state, wait_state, queued, exiting, parent, panicked>>
  PROVE  IInv'
<1>0. state[p] = "RUNNABLE" /\ wait_state[p] = "NONE"
  BY CurrentRuns DEF IInv, TypeOK, SchedTypeOK, SleepersWaitForSomething
<1>1. TypeOK'
  BY DEF IInv, TypeOK, SchedTypeOK, Location
<1>2. RunQueueExact' /\ SleepersWaitForSomething'
  BY DEF IInv, RunQueueExact, SleepersWaitForSomething
<1>3. PointsMatchStates'
  BY <1>0 DEF IInv, TypeOK, SchedTypeOK, PointsMatchStates
<1>4. TimersHaveFrames'
  BY DEF IInv, TypeOK, TimersHaveFrames
<1>5. ParentsAlive' /\ ParentsAreOthers'
  BY DEF IInv, ParentsAlive, ParentsAreOthers, Live
<1>6. NoMissedWakeup'
  BY <1>0 DEF IInv, NoMissedWakeup, Awaited, AwaitedZombies, Children, Live
<1> QED BY <1>1, <1>2, <1>3, <1>4, <1>5, <1>6 DEF IInv

\* A process outside do_sleep has no timer to take along.
LEMMA NoTimerOutsideSleep ==
  ASSUME IInv, NEW p \in Proc, pc[p] \notin {"sleep_sched", "sleep_ret"}
  PROVE  timer[p] = 0
BY DEF IInv, TypeOK, TimersHaveFrames

\* Every system call keeps the invariant.
LEMMA SyscallKeeps ==
  ASSUME IInv, NEW p \in Proc, Syscall(p)
  PROVE  IInv'
<1>0. current = p /\ pc[p] = "user" /\ state[p] = "RUNNABLE" /\ timer[p] = 0
  BY CurrentRuns, NoTimerOutsideSleep
  DEF Syscall, SysFork, SysExit, SysWait, SysSleep, SysKill, SysYield, At
<1>1. CASE SysFork(p)
  <2>1. CASE \E c \in Proc : Fork(p, c)
    BY <1>0, <2>1, ForkKeeps
  <2>2. CASE ~ \E c \in Proc : Fork(p, c)
    BY <1>0, <1>1, <2>2, MoveKeeps DEF SysFork, Goto, schedVars, IInv, TypeOK, SchedTypeOK
  <2> QED BY <2>1, <2>2
<1>2. CASE SysExit(p)
  BY <1>0, <1>2, DoExitKeeps DEF SysExit
<1>3. CASE SysWait(p)
  <2>1. waitfor' \in [Proc -> Proc] /\ \A q \in Proc \ {p} : waitfor'[q] = waitfor[q]
    BY <1>3 DEF SysWait, IInv, TypeOK
  <2> QED
    BY <1>0, <1>3, <2>1, MoveKeeps DEF SysWait, Goto, schedVars, IInv, TypeOK, SchedTypeOK
<1>4. CASE SysSleep(p)
  BY <1>4, SysSleepKeeps
<1>5. CASE SysKill(p)
  BY <1>5, SysKillKeeps
<1>6. CASE SysYield(p)
  BY <1>0, <1>6, MoveKeeps DEF SysYield, Goto, IInv, TypeOK, SchedTypeOK
<1> QED BY <1>1, <1>2, <1>3, <1>4, <1>5, <1>6 DEF Syscall

\* So does every later step of the kernel on behalf of a process.
LEMMA KernelStepKeeps ==
  ASSUME IInv, NEW p \in Proc, KernelStep(p)
  PROVE  IInv'
<1> USE DEF At, AtTrapEnd
<1>1. CASE WaitReap(p)
  BY <1>1, WaitReapKeeps
<1>2. CASE WaitNoChild(p)
  BY <1>2, NoTimerOutsideSleep, MoveKeeps
  DEF WaitNoChild, Goto, schedVars, IInv, TypeOK, SchedTypeOK
<1>3. CASE WaitSleep(p)
  BY <1>3, WaitSleepKeeps
<1>4. CASE WaitResume(p) /\ exiting[p]
  BY <1>4, CurrentRuns, DoExitKeeps DEF WaitResume
<1>5. CASE WaitResume(p) /\ ~exiting[p]
  BY <1>5, NoTimerOutsideSleep, MoveKeeps
  DEF WaitResume, Goto, schedVars, IInv, TypeOK, SchedTypeOK
<1>6. CASE SleepReturn(p)
  <2>1. /\ timer' \in [Proc -> 0..MaxSleep] /\ timer'[p] = 0
        /\ \A q \in Proc \ {p} : timer'[q] = timer[q]
    BY <1>6 DEF SleepReturn, IInv, TypeOK
  <2>2. waitfor' \in [Proc -> Proc] /\ need_resched' \in [Proc -> BOOLEAN]
    BY <1>6 DEF SleepReturn, schedVars, IInv, TypeOK, SchedTypeOK
  <2> QED
    BY <1>6, <2>1, <2>2, MoveKeeps DEF SleepReturn, Goto, schedVars
<1>7. CASE TrapExit(p)
  BY <1>7, CurrentRuns, DoExitKeeps DEF TrapExit
<1>8. CASE TrapReturn(p)
  BY <1>8, NoTimerOutsideSleep, MoveKeeps
  DEF TrapReturn, Goto, schedVars, IInv, TypeOK, SchedTypeOK
<1> QED BY <1>1, <1>2, <1>3, <1>4, <1>5, <1>6, <1>7, <1>8 DEF KernelStep

\* The inductive step.
LEMMA StepKeeps == IInv /\ [Next]_vars => IInv'
<1> SUFFICES ASSUME IInv, [Next]_vars PROVE IInv'
  OBVIOUS
<1>1. CASE InitMain
  BY <1>1, CurrentRuns, ForkKeeps DEF InitMain, At
<1>2. CASE InitReturns
  BY <1>2, CurrentRuns, DoExitKeeps DEF InitReturns, At
<1>3. CASE \E p \in Proc : Syscall(p) \/ KernelStep(p)
  BY <1>3, SyscallKeeps, KernelStepKeeps
<1>4. CASE \E p, q \in Proc : Switch(p, q)
  BY <1>4, SwitchToKeeps
<1>5. CASE \E expired \in BOOLEAN : Tick(expired)
  BY <1>5, TickKeeps
<1>6. CASE UNCHANGED vars
  BY <1>6 DEF vars, schedVars, procVars, IInv, TypeOK, SchedTypeOK, RunQueueExact,
     SleepersWaitForSomething, PointsMatchStates, TimersHaveFrames, ParentsAlive,
     ParentsAreOthers, NoMissedWakeup, Live, Awaited, AwaitedZombies, Children
<1> QED BY <1>1, <1>2, <1>3, <1>4, <1>5, <1>6 DEF Next

\* The kernel keeps the inductive invariant, whatever processes exist and
\* whatever they call.
THEOREM Invariant == Spec => []IInv
BY InitEstablishes, StepKeeps, PTL DEF Spec

\* Types: in particular no process is queued a negative number of times.
THEOREM TypeCorrect == Spec => []TypeOK
<1>1. IInv => TypeOK
  BY DEF IInv
<1> QED BY Invariant, <1>1, PTL

\* The run queue holds exactly the runnable processes that are not running.
THEOREM RunQueueCorrect == Spec => []RunQueueExact
<1>1. IInv => RunQueueExact
  BY DEF IInv
<1> QED BY Invariant, <1>1, PTL

\* No wakeup of do_wait or do_sleep is missed.
THEOREM WakeupsNotMissed == Spec => []NoMissedWakeup
<1>1. IInv => NoMissedWakeup
  BY DEF IInv
<1> QED BY Invariant, <1>1, PTL

\* No timer outlives the stack frame it lies in.
THEOREM TimersSafe == Spec => []TimersHaveFrames
<1>1. IInv => TimersHaveFrames
  BY DEF IInv
<1> QED BY Invariant, <1>1, PTL

\* proc->parent is always a process that has not exited.
THEOREM ParentsSafe == Spec => []ParentsAlive
<1>1. IInv => ParentsAlive
  BY DEF IInv
<1> QED BY Invariant, <1>1, PTL

\* A process gets the CPU only when it can run.
THEOREM SwitchSafe == Spec => SwitchToRunnable
<1>1. ASSUME IInv, [Next]_vars, current' # current
      PROVE  state'[current'] = "RUNNABLE"
  <2>1. PICK p \in Proc, next \in Proc : SwitchTo(next)
    BY <1>1 DEF Next, vars, schedVars, InitMain, InitReturns, Fork, DoExit, Syscall,
       SysFork,
       SysExit, SysWait, SysSleep, SysKill, SysYield, KernelStep, WaitReap, WaitNoChild,
       WaitSleep, WaitResume, SleepReturn, TrapExit, TrapReturn, Tick, Switch, CallSchedule,
       TrapReschedule, IdleSchedule
  <2>2. current' = next /\ state' = state
    BY <2>1 DEF SwitchTo
  <2>3. CASE Requeued[next] > 0
    BY <1>1, <2>2, <2>3 DEF Requeued, IInv, TypeOK, SchedTypeOK, RunQueueExact
  <2>4. CASE next = Idle
    BY <1>1, <2>2, <2>4 DEF IInv, TypeOK, SchedTypeOK, PState, PointsMatchStates
  <2> QED BY <2>1, <2>3, <2>4 DEF SwitchTo
<1> QED BY Invariant, <1>1, PTL DEF Spec, SwitchToRunnable

\* What a step can do to a dead process p.
LEMMA ZombieStep ==
  ASSUME IInv, [Next]_vars, NEW p \in Proc, state[p] = "ZOMBIE"
  PROVE  \/ state'[p] = "ZOMBIE"
         \/ /\ state'[p] = "FREE" /\ p # current
            /\ current = parent[p] /\ pc[current] = "wait_check"
<1> USE DEF IInv, TypeOK, SchedTypeOK
<1>0. \A W \in SUBSET Proc : p \notin W => WakeStates(W)[p] = "ZOMBIE"
  BY DEF WakeStates, Woken
<1>w. wait_state[p] = "NONE" /\ timer[p] = 0
  BY NoTimerOutsideSleep DEF SleepersWaitForSomething, PointsMatchStates
<1>1. ASSUME NEW q \in Proc, NEW c \in Proc, Fork(q, c) PROVE state'[p] = "ZOMBIE"
  BY <1>0, <1>1 DEF Fork, WakeupProcs
<1>2. ASSUME NEW q \in Proc, DoExit(q) PROVE state'[p] = "ZOMBIE"
  <2>1. ExitWakes(q) \in SUBSET Proc /\ p \notin ExitWakes(q)
    BY <1>w DEF ExitWakes
  <2>2. WakeStates(ExitWakes(q)) \in [Proc -> PState]
    BY DEF WakeStates, PState
  <2> QED BY <1>0, <1>2, <2>1, <2>2 DEF DoExit, schedVars
<1>3. ASSUME NEW q \in Proc, SysKill(q) PROVE state'[p] = "ZOMBIE"
  <2>1. \A r \in Proc : KillWakes(r) \in SUBSET Proc /\ p \notin KillWakes(r)
    BY <1>w DEF KillWakes, WT_INTERRUPTED
  <2> QED BY <1>0, <1>3, <2>1 DEF SysKill, WakeupProcs, Live
<1>4. ASSUME NEW expired \in BOOLEAN, Tick(expired) PROVE state'[p] = "ZOMBIE"
  BY <1>0, <1>w, <1>4 DEF Tick, WakeupProcs, Due
<1>5. ASSUME NEW q \in Proc, WaitReap(q)
      PROVE  \/ state'[p] = "ZOMBIE"
             \/ /\ state'[p] = "FREE" /\ p # current
                /\ current = parent[p] /\ pc[current] = "wait_check"
  BY <1>5 DEF WaitReap, At, AwaitedZombies, Awaited, Children, Live, ParentsAreOthers
<1>6. ASSUME NEW q \in Proc, WaitSleep(q) \/ SysSleep(q) PROVE state'[p] = "ZOMBIE"
  BY <1>6 DEF WaitSleep, SysSleep, SleepCurrent, At, PointsMatchStates
<1>7. ASSUME NEW q \in Proc, NEW next \in Proc, Switch(q, next) PROVE state'[p] = "ZOMBIE"
  BY <1>7 DEF Switch, CallSchedule, TrapReschedule, IdleSchedule, SwitchTo
<1>8. CASE UNCHANGED vars
  BY <1>8 DEF vars, schedVars
<1> QED
  BY <1>1, <1>2, <1>3, <1>4, <1>5, <1>6, <1>7, <1>8
  DEF Next, InitMain, InitReturns, Syscall, SysFork, SysExit, SysWait, SysYield, KernelStep,
      WaitNoChild, WaitResume, SleepReturn, TrapExit, TrapReturn, schedVars

\* A zombie is never woken, and is freed by its parent alone, once its stack is not
\* in use any more.
THEOREM ZombiesSafe == Spec => ZombiesOnlyReaped
<1>1. IInv /\ [Next]_vars =>
        [\A p \in Proc : state[p] = "ZOMBIE" =>
           \/ state'[p] = "ZOMBIE"
           \/ /\ state'[p] = "FREE" /\ p # current
              /\ current = parent[p] /\ pc[current] = "wait_check"]_vars
  BY ZombieStep
<1> QED BY Invariant, <1>1, PTL DEF Spec, ZombiesOnlyReaped

\* What a step can do to a process p in do_sleep: a tick wakes it when its time has
\* come, do_kill flags it, and every other wakeup is for other kinds of wait.
LEMMA SleeperStep ==
  ASSUME IInv, [Next]_vars, NEW p \in Proc, wait_state[p] = "WT_TIMER",
         wait_state'[p] # "WT_TIMER"
  PROVE  timer'[p] = 0 \/ (exiting'[p] /\ ~exiting[p])
<1> USE DEF IInv, TypeOK, SchedTypeOK
<1>0. \A W \in SUBSET Proc : p \notin W => WakeWaits(W)[p] = "WT_TIMER"
  BY DEF WakeWaits, Woken
<1>s. state[p] = "SLEEPING" BY DEF SleepersWaitForSomething
<1>1. ASSUME NEW q \in Proc, NEW c \in Proc, Fork(q, c) PROVE FALSE
  <2>1. {c} \in SUBSET Proc /\ p \notin {c} BY <1>1, <1>s DEF Fork
  <2> QED BY <1>0, <1>1, <2>1 DEF Fork, WakeupProcs
<1>2. ASSUME NEW q \in Proc, DoExit(q) PROVE FALSE
  <2>1. ExitWakes(q) \in SUBSET Proc /\ p \notin ExitWakes(q) BY DEF ExitWakes
  <2> QED BY <1>0, <1>2, <2>1 DEF DoExit, schedVars
<1>3. ASSUME NEW q \in Proc, SysKill(q) PROVE exiting'[p] /\ ~exiting[p]
  <2>1. PICK r \in Killable : ~exiting[r] /\ exiting' = [exiting EXCEPT ![r] = TRUE]
                              /\ WakeupProcs(KillWakes(r))
    BY <1>3 DEF SysKill
  <2>2. KillWakes(r) \in SUBSET Proc BY DEF KillWakes
  <2>3. p \in KillWakes(r) BY <1>0, <2>1, <2>2 DEF WakeupProcs
  <2>4. p = r BY <2>3 DEF KillWakes
  <2> QED BY <2>1, <2>4
<1>4. ASSUME NEW expired \in BOOLEAN, Tick(expired) PROVE timer'[p] = 0
  <2>1. Due \in SUBSET Proc BY DEF Due
  <2>2. p \in Due BY <1>0, <1>4, <2>1 DEF Tick, WakeupProcs
  <2> QED BY <1>4, <2>2 DEF Tick, TimerAfterTick, Due
<1>5. ASSUME NEW q \in Proc, WaitSleep(q) \/ SysSleep(q) PROVE FALSE
  <2>1. current = q /\ state[q] = "RUNNABLE"
    BY <1>5, CurrentRuns DEF WaitSleep, SysSleep, At
  <2> QED BY <1>5, <1>s, <2>1 DEF WaitSleep, SysSleep, SleepCurrent
<1>6. ASSUME NEW q \in Proc, NEW next \in Proc, Switch(q, next) PROVE FALSE
  BY <1>6 DEF Switch, CallSchedule, TrapReschedule, IdleSchedule, SwitchTo
<1>7. ASSUME NEW q \in Proc, WaitReap(q) PROVE FALSE
  BY <1>7 DEF WaitReap
<1>8. CASE UNCHANGED vars
  BY <1>8 DEF vars, schedVars
<1> QED
  BY <1>1, <1>2, <1>3, <1>4, <1>5, <1>6, <1>7, <1>8
  DEF Next, InitMain, InitReturns, Syscall, SysFork, SysExit, SysWait, SysYield, KernelStep,
      WaitNoChild, WaitResume, SleepReturn, TrapExit, TrapReturn, schedVars

\* A sleep lasts its full length unless the process is killed in it.
THEOREM SleepsLast == Spec => SleepIsFullLength
<1>1. IInv /\ [Next]_vars =>
        [\A p \in Proc : wait_state[p] = "WT_TIMER" /\ wait_state'[p] # "WT_TIMER" =>
           timer'[p] = 0 \/ (exiting'[p] /\ ~exiting[p])]_vars
  BY SleeperStep
<1> QED BY Invariant, <1>1, PTL DEF Spec, SleepIsFullLength

----------------------------------------------------------------------------
(* Killed in its sleep                                                     *)

\* A process that is about to call schedule() is the running one: a sleeper that
\* somebody else kills is past it.
BeforeSwitch ==
  \A p \in Proc : pc[p] \in {"sleep_sched", "wait_sched", "init_sched", "exit_sched"} => p = current

LEMMA BeforeSwitchKept ==
  ASSUME IInv, BeforeSwitch, [Next]_vars
  PROVE  BeforeSwitch'
<1> USE DEF IInv, TypeOK, SchedTypeOK, BeforeSwitch
<1>1. ASSUME NEW q \in Proc, NEW next \in Proc, Switch(q, next) PROVE BeforeSwitch'
  <2>1. CASE CallSchedule(q, next)
    BY <2>1 DEF CallSchedule, SwitchTo, Goto, ResumeAt
  <2>2. CASE TrapReschedule(q, next)
    BY <2>2 DEF TrapReschedule, AtTrapEnd, SwitchTo, Goto
  <2>3. CASE q = Idle /\ IdleSchedule(next)
    BY <2>3 DEF IdleSchedule, At, SwitchTo, procVars
  <2> QED BY <1>1, <2>1, <2>2, <2>3 DEF Switch
<1>2. ASSUME NEW q \in Proc, NEW c \in Proc, Fork(q, c), q = current PROVE BeforeSwitch'
  BY <1>2 DEF Fork
<1>3. ASSUME NEW q \in Proc, DoExit(q), q = current PROVE BeforeSwitch'
  BY <1>3 DEF DoExit, Goto, schedVars
<1>4. ASSUME NEW q \in Proc, NEW l \in Location, current = q, current' = current,
             pc' = [pc EXCEPT ![q] = l] \/ pc' = pc
      PROVE  BeforeSwitch'
  BY <1>4
<1>5. ASSUME NEW q \in Proc, WaitReap(q) PROVE BeforeSwitch'
  BY <1>5 DEF WaitReap, At
<1>6. ASSUME NEW q \in Proc, Syscall(q) PROVE BeforeSwitch'
  <2>1. CASE SysFork(q)
    BY <1>2, <1>4, <2>1 DEF SysFork, At, Goto, schedVars, Location
  <2>2. CASE SysExit(q) BY <1>3, <2>2 DEF SysExit, At
  <2>3. CASE SysWait(q) BY <1>4, <2>3 DEF SysWait, At, Goto, schedVars, Location
  <2>4. CASE SysSleep(q) BY <1>4, <2>4 DEF SysSleep, At, Goto, Location
  <2>5. CASE SysKill(q) BY <1>4, <2>5 DEF SysKill, At, Goto, Location
  <2>6. CASE SysYield(q) BY <1>4, <2>6 DEF SysYield, At, Goto, Location
  <2> QED BY <1>6, <2>1, <2>2, <2>3, <2>4, <2>5, <2>6 DEF Syscall
<1>7. ASSUME NEW q \in Proc, KernelStep(q) PROVE BeforeSwitch'
  <2>1. CASE WaitReap(q) BY <1>5, <2>1
  <2>2. CASE WaitNoChild(q) BY <1>4, <2>2 DEF WaitNoChild, At, Goto, schedVars, Location
  <2>3. CASE WaitSleep(q) BY <1>4, <2>3 DEF WaitSleep, At, Goto, Location
  <2>4. CASE WaitResume(q)
    BY <1>3, <1>4, <2>4 DEF WaitResume, At, Goto, schedVars, Location
  <2>5. CASE SleepReturn(q) BY <1>4, <2>5 DEF SleepReturn, At, Goto, schedVars, Location
  <2>6. CASE TrapExit(q) BY <1>3, <2>6 DEF TrapExit, AtTrapEnd
  <2>7. CASE TrapReturn(q) BY <1>4, <2>7 DEF TrapReturn, AtTrapEnd, Goto, schedVars, Location
  <2> QED BY <1>7, <2>1, <2>2, <2>3, <2>4, <2>5, <2>6, <2>7 DEF KernelStep
<1>8. ASSUME NEW expired \in BOOLEAN, Tick(expired) PROVE BeforeSwitch'
  BY <1>4, <1>8 DEF Tick, Goto, Location
<1>9. CASE InitMain BY <1>2, <1>9 DEF InitMain, At
<1>10. CASE InitReturns BY <1>3, <1>10 DEF InitReturns, At
<1>11. CASE UNCHANGED vars BY <1>11 DEF vars, schedVars, procVars
<1> QED BY <1>1, <1>6, <1>7, <1>8, <1>9, <1>10, <1>11 DEF Next

\* A process on its way out goes on until it is dead.
LEMMA LeavingKept ==
  ASSUME IInv, [Next]_vars, NEW p \in Proc, Leaving(p)
  PROVE  Leaving(p)' \/ state'[p] = "ZOMBIE"
<1> USE DEF IInv, TypeOK, SchedTypeOK, Leaving
<1>0. \A W \in SUBSET Proc : WakeStates(W)[p] = "RUNNABLE" BY DEF WakeStates
<1>1. ASSUME NEW q \in Proc, NEW c \in Proc, Fork(q, c), pc[q] \in {"user", "init_main"}
      PROVE  Leaving(p)'
  BY <1>0, <1>1 DEF Fork, WakeupProcs
<1>2. ASSUME NEW q \in Proc, DoExit(q) PROVE Leaving(p)' \/ state'[p] = "ZOMBIE"
  <2>1. WakeStates(ExitWakes(q)) \in [Proc -> PState] BY DEF WakeStates, PState
  <2>2. WakeStates(ExitWakes(q))[p] = "RUNNABLE" BY <1>0 DEF ExitWakes
  <2> QED BY <1>2, <2>1, <2>2 DEF DoExit, schedVars, Goto
<1>3. ASSUME NEW q \in Proc, SysKill(q) PROVE Leaving(p)'
  <2>1. \A r \in Proc : KillWakes(r) \in SUBSET Proc BY DEF KillWakes
  <2> QED BY <1>0, <1>3, <2>1, ProcAssumption DEF SysKill, At, Goto, WakeupProcs
<1>4. ASSUME NEW expired \in BOOLEAN, Tick(expired) PROVE Leaving(p)'
  BY <1>0, <1>4 DEF Tick, WakeupProcs, Due, Goto
<1>5. ASSUME NEW q \in Proc, Syscall(q) PROVE Leaving(p)' \/ state'[p] = "ZOMBIE"
  <2>1. CASE SysFork(q) BY <1>1, <2>1 DEF SysFork, At, Goto, schedVars
  <2>2. CASE SysExit(q) BY <1>2, <2>2 DEF SysExit
  <2>3. CASE SysWait(q) BY <2>3 DEF SysWait, At, Goto, schedVars
  <2>4. CASE SysSleep(q) BY <2>4 DEF SysSleep, SleepCurrent, At, Goto
  <2>5. CASE SysYield(q) BY <2>5 DEF SysYield, At, Goto
  <2> QED BY <1>3, <1>5, <2>1, <2>2, <2>3, <2>4, <2>5 DEF Syscall
<1>6. ASSUME NEW q \in Proc, KernelStep(q) PROVE Leaving(p)' \/ state'[p] = "ZOMBIE"
  <2>1. CASE WaitReap(q) BY <2>1 DEF WaitReap, At, AwaitedZombies, Awaited, Children, Live
  <2>2. CASE WaitNoChild(q) BY <2>2 DEF WaitNoChild, At, Goto, schedVars
  <2>3. CASE WaitSleep(q) BY <2>3 DEF WaitSleep, SleepCurrent, At, Goto
  <2>4. CASE WaitResume(q) BY <1>2, <2>4 DEF WaitResume, At, Goto, schedVars
  <2>5. CASE SleepReturn(q) BY <2>5 DEF SleepReturn, At, Goto, schedVars
  <2>6. CASE TrapExit(q) BY <1>2, <2>6 DEF TrapExit
  <2>7. CASE TrapReturn(q) BY <2>7 DEF TrapReturn, AtTrapEnd, Goto, schedVars
  <2> QED BY <1>6, <2>1, <2>2, <2>3, <2>4, <2>5, <2>6, <2>7 DEF KernelStep
<1>7. ASSUME NEW q \in Proc, NEW next \in Proc, Switch(q, next) PROVE Leaving(p)'
  <2>1. CASE CallSchedule(q, next) BY <2>1 DEF CallSchedule, SwitchTo, Goto, ResumeAt
  <2>2. CASE TrapReschedule(q, next) BY <2>2 DEF TrapReschedule, AtTrapEnd, SwitchTo, Goto
  <2>3. CASE q = Idle /\ IdleSchedule(next) BY <2>3 DEF IdleSchedule, SwitchTo, procVars
  <2> QED BY <1>7, <2>1, <2>2, <2>3 DEF Switch
<1>8. CASE InitMain BY <1>1, <1>8 DEF InitMain, At
<1>9. CASE InitReturns BY <1>2, <1>9 DEF InitReturns
<1>10. CASE UNCHANGED vars BY <1>10 DEF vars, schedVars, procVars
<1> QED BY <1>4, <1>5, <1>6, <1>7, <1>8, <1>9, <1>10 DEF Next

\* do_kill puts a sleeper on its way out.
LEMMA KillStarts ==
  ASSUME IInv, BeforeSwitch, [Next]_vars, NEW p \in Proc,
         wait_state[p] \in WT_INTERRUPTED, exiting'[p], ~exiting[p]
  PROVE  Leaving(p)'
<1> USE DEF IInv, TypeOK, SchedTypeOK
<1>1. PICK q \in Proc : SysKill(q)
  <2>1. ASSUME NEW q \in Proc, NEW c \in Proc, Fork(q, c) PROVE FALSE BY <2>1 DEF Fork
  <2>2. ASSUME NEW q \in Proc, DoExit(q) PROVE FALSE BY <2>2 DEF DoExit
  <2>3. ASSUME NEW q \in Proc, KernelStep(q) PROVE FALSE
    BY <2>2, <2>3 DEF KernelStep, WaitReap, WaitNoChild, WaitSleep, WaitResume, SleepReturn,
       TrapExit, TrapReturn
  <2>4. ASSUME NEW q \in Proc, Syscall(q) PROVE SysKill(q)
    BY <2>1, <2>2, <2>4 DEF Syscall, SysFork, SysExit, SysWait, SysSleep, SysYield
  <2>5. ASSUME NEW q \in Proc, NEW next \in Proc, Switch(q, next) PROVE FALSE
    BY <2>5 DEF Switch, CallSchedule, TrapReschedule, IdleSchedule, procVars
  <2>6. ASSUME NEW expired \in BOOLEAN, Tick(expired) PROVE FALSE BY <2>6 DEF Tick
  <2>7. ~InitMain /\ ~InitReturns /\ vars' # vars
    BY <2>1, <2>2 DEF InitMain, InitReturns, vars, procVars
  <2> QED BY <2>3, <2>4, <2>5, <2>6, <2>7 DEF Next
<1>2. /\ exiting' = [exiting EXCEPT ![p] = TRUE]
      /\ WakeupProcs(KillWakes(p))
  BY <1>1 DEF SysKill
<1>3. state[p] = "SLEEPING" BY DEF SleepersWaitForSomething, WT_INTERRUPTED
<1>4. KillWakes(p) = {p} BY DEF KillWakes
<1>5. state'[p] = "RUNNABLE" BY <1>2, <1>3, <1>4 DEF WakeupProcs, WakeStates, Woken
<1>6. current = q /\ pc[q] = "user" /\ pc' = [pc EXCEPT ![q] = "sys_ret"]
  BY <1>1 DEF SysKill, At, Goto
<1>7. pc[p] \in {"sleep_ret", "wait_ret"} BY <1>3, <1>6 DEF PointsMatchStates, BeforeSwitch
<1> QED BY <1>2, <1>5, <1>6, <1>7 DEF Leaving

\* A process killed in its sleep can run, and neither sleeps again nor comes back to
\* user mode before its exit, with any processes and whatever the scheduler does.
THEOREM KilledLeave == KilledSpec => []OnTheWayOut
<1> DEFINE KInv == IInv /\ BeforeSwitch /\ killed \subseteq Proc /\ OnTheWayOut
<1>1. KilledInit => KInv
  BY InitEstablishes DEF KilledInit, BeforeSwitch, OnTheWayOut, ProcInit
<1>2. ASSUME KInv, [KilledNext]_killedVars PROVE KInv'
  <2>1. [Next]_vars BY <1>2 DEF KilledNext, killedVars
  <2>2. IInv' /\ BeforeSwitch' BY <1>2, <2>1, StepKeeps, BeforeSwitchKept
  <2>3. ASSUME NEW p \in killed' PROVE p \in Proc /\ Leaving(p)'
    <3>1. CASE p \in killed
      <4>1. Leaving(p)' \/ state'[p] = "ZOMBIE"
        BY <1>2, <2>1, <3>1, LeavingKept DEF OnTheWayOut
      <4>2. CASE KilledNext BY <1>2, <2>3, <3>1, <4>1, <4>2 DEF KilledNext
      <4>3. CASE UNCHANGED killedVars
        BY <1>2, <3>1, <4>3 DEF killedVars, vars, schedVars, procVars, Leaving, OnTheWayOut
      <4> QED BY <1>2, <4>2, <4>3
    <3>2. CASE p \notin killed
      <4>1. KilledNext BY <1>2, <2>3, <3>2 DEF killedVars
      <4>2. p \in KilledAsleep BY <2>3, <3>2, <4>1 DEF KilledNext
      <4> QED BY <1>2, <2>1, <4>2, KillStarts DEF KilledAsleep
    <3> QED BY <3>1, <3>2
  <2> QED BY <2>2, <2>3 DEF OnTheWayOut
<1>3. KInv => OnTheWayOut OBVIOUS
<1> QED BY <1>1, <1>2, <1>3, PTL DEF KilledSpec

----------------------------------------------------------------------------
(* The process tree                                                        *)

Users == Live \ {Idle, Init}

\* The parents lead out of every set of user processes: no cycle and no process
\* without an ancestor in {Idle, Init}.
Rooted == \A S \in SUBSET Users : S # {} => \E p \in S : parent[p] \notin S

\* initproc stays in init_main and the do_wait(0, NULL) it calls, and idleproc
\* has no other child.
InitMainLoops ==
  /\ pc[Init] \in {"init_main", "init_sched", "init_done", "wait_check", "wait_sched", "wait_ret"}
  /\ waitfor[Init] = Idle
  /\ \A p \in Users : parent[p] # Idle

Family == Rooted /\ InitMainLoops /\ AllReapedAtEnd

LEMMA FamilyInit == ProcInit => Family
<1> SUFFICES ASSUME ProcInit PROVE Family OBVIOUS
<1>1. Users = {} BY DEF ProcInit, SchedInit, Users, Live
<1>2. Rooted BY <1>1 DEF Rooted
<1>3. InitMainLoops BY <1>1 DEF InitMainLoops, ProcInit
<1>4. AllReapedAtEnd BY DEF AllReapedAtEnd, ProcInit
<1> QED BY <1>2, <1>3, <1>4 DEF Family

\* A wakeup revives nobody.
LEMMA WokenAreLive ==
  ASSUME IInv, NEW W \in SUBSET Proc, \A q \in W : wait_state[q] # "NONE",
         NEW p \in Proc
  PROVE  WakeStates(W)[p] = "FREE" <=> state[p] = "FREE"
BY DEF WakeStates, Woken, IInv, SleepersWaitForSomething

\* A step is a fork, an exit, a reaping, or leaves the family as it is.
LEMMA FamilySteps ==
  ASSUME IInv, [Next]_vars
  PROVE  \/ \E c \in Proc : Fork(current, c) /\ pc[current] \in {"user", "init_main"}
         \/ current # Init /\ pc[current] # "idle" /\ DoExit(current)
         \/ WaitReap(current)
         \/ Live' = Live /\ parent' = parent
<1> USE DEF At, AtTrapEnd
<1>f. current \in Proc BY DEF IInv, TypeOK, SchedTypeOK
<1>1. ASSUME NEW p \in Proc, SysExit(p) \/ TrapExit(p) \/ (WaitResume(p) /\ exiting[p]) \/
             (p = Init /\ InitReturns)
      PROVE  \/ current # Init /\ pc[current] # "idle" /\ DoExit(current)
             \/ Live' = Live /\ parent' = parent
  <2>1. p = current /\ DoExit(p) /\ pc[p] # "idle"
    BY <1>1 DEF SysExit, TrapExit, WaitResume, InitReturns
  <2>2. CASE p = Init BY <2>1, <2>2 DEF DoExit, schedVars, Live
  <2> QED BY <2>1, <2>2
<1>2. ASSUME NEW p \in Proc, SysSleep(p) \/ WaitSleep(p) PROVE Live' = Live /\ parent' = parent
  <2>1. p = current /\ state[p] = "RUNNABLE" /\ state' = [state EXCEPT ![p] = "SLEEPING"]
    BY <1>2, CurrentRuns DEF SysSleep, WaitSleep, SleepCurrent
  <2> QED BY <1>2, <2>1 DEF SysSleep, WaitSleep, Live, IInv, TypeOK, SchedTypeOK
<1>3. ASSUME NEW p \in Proc, SysKill(p) PROVE Live' = Live /\ parent' = parent
  <2>1. \A q \in Proc : KillWakes(q) \in SUBSET Proc /\ \A r \in KillWakes(q) : wait_state[r] # "NONE"
    BY DEF KillWakes, WT_INTERRUPTED
  <2>2. CASE UNCHANGED state BY <1>3, <2>2 DEF SysKill, Live
  <2>3. ASSUME NEW q \in Killable, WakeupProcs(KillWakes(q)) PROVE Live' = Live
    <3>1. q \in Proc BY DEF IInv
    <3> QED BY <2>1, <2>3, <3>1, WokenAreLive DEF WakeupProcs, Live
  <2> QED BY <1>3, <2>2, <2>3 DEF SysKill
<1>4. ASSUME NEW expired \in BOOLEAN, Tick(expired) PROVE Live' = Live /\ parent' = parent
  <2>1. Due \in SUBSET Proc /\ \A q \in Due : timer[q] > 0 BY DEF Due
  <2>2. \A q \in Due : q \in Proc /\ state[q] # "FREE"
    BY <2>1 DEF IInv, TimersHaveFrames, PointsMatchStates
  <2>3. \A q \in Proc : WakeStates(Due)[q] = "FREE" <=> state[q] = "FREE"
    BY <2>2 DEF WakeStates, Woken
  <2> QED BY <1>4, <2>3 DEF Tick, WakeupProcs, Live
<1>5. ASSUME NEW p \in Proc, NEW q \in Proc, Switch(p, q) PROVE Live' = Live /\ parent' = parent
  BY <1>5 DEF Switch, CallSchedule, TrapReschedule, IdleSchedule, SwitchTo, procVars, Live
<1>6. ASSUME NEW p \in Proc, SysFork(p) \/ (p = Init /\ InitMain)
      PROVE  \/ \E c \in Proc : Fork(current, c) /\ pc[current] \in {"user", "init_main"}
             \/ Live' = Live /\ parent' = parent
  BY <1>6 DEF SysFork, InitMain, schedVars, Live
<1>7. ASSUME NEW p \in Proc,
             \/ SysWait(p) \/ SysYield(p) \/ WaitNoChild(p) \/ SleepReturn(p) \/ TrapReturn(p)
             \/ WaitResume(p) /\ ~exiting[p]
      PROVE  Live' = Live /\ parent' = parent
  BY <1>7
     DEF SysWait, SysYield, WaitNoChild, SleepReturn, TrapReturn, WaitResume, schedVars,
         Live
<1>8. ASSUME NEW p \in Proc, WaitReap(p) PROVE WaitReap(current)
  BY <1>8 DEF WaitReap
<1>9. CASE UNCHANGED vars BY <1>9 DEF vars, schedVars, procVars, Live
<1> QED
  BY <1>1, <1>2, <1>3, <1>4, <1>5, <1>6, <1>7, <1>8, <1>9
  DEF Next, Syscall, KernelStep

\* What each of the three does to it
LEMMA ForkGrows ==
  ASSUME IInv, NEW c \in Proc, Fork(current, c)
  PROVE  /\ c \notin Live /\ Live' = Live \cup {c} /\ current \in Live
         /\ parent' = [parent EXCEPT ![c] = current]
<1>1. state[c] = "FREE" /\ Woken({c}) = {c} BY DEF Fork, Woken
<1>2. state' = [p \in Proc |-> IF p = c THEN "RUNNABLE" ELSE state[p]]
  BY <1>1 DEF Fork, WakeupProcs, WakeStates
<1>3. current \in Live BY DEF IInv, TypeOK, SchedTypeOK, PointsMatchStates, Live
<1> QED BY <1>1, <1>2, <1>3 DEF Fork, Live

LEMMA ExitHandsOver ==
  ASSUME IInv, current # Init, pc[current] # "idle", DoExit(current)
  PROVE  /\ Live' = Live
         /\ parent' = [q \in Proc |-> IF q \in Children(current) THEN Init ELSE parent[q]]
<1>1. ExitWakes(current) \in SUBSET Proc /\ \A q \in ExitWakes(current) : wait_state[q] # "NONE"
  BY DEF ExitWakes
<1>2. \A p \in Proc : WakeStates(ExitWakes(current))[p] = "FREE" <=> state[p] = "FREE"
  BY <1>1, WokenAreLive
<1>3. state' = [WakeStates(ExitWakes(current)) EXCEPT ![current] = "ZOMBIE"] BY DEF DoExit
<1>4. WakeStates(ExitWakes(current)) = [p \in Proc |-> WakeStates(ExitWakes(current))[p]]
  BY DEF WakeStates
<1>5. state[current] # "FREE" /\ current \in Proc
  BY DEF IInv, TypeOK, SchedTypeOK, PointsMatchStates
<1>6. \A p \in Proc : state'[p] = "FREE" <=> state[p] = "FREE" BY <1>2, <1>3, <1>4, <1>5
<1> QED BY <1>6 DEF Live, DoExit, ParentAfterExit

LEMMA ReapShrinks ==
  ASSUME IInv, WaitReap(current)
  PROVE  \E c \in Users : /\ Live' = Live \ {c} /\ parent' = [parent EXCEPT ![c] = Idle]
                          /\ parent[c] = current /\ c # current
<1>1. PICK c \in AwaitedZombies(current) :
        /\ state' = [state EXCEPT ![c] = "FREE"]
        /\ parent' = [parent EXCEPT ![c] = Idle]
  BY DEF WaitReap
<1>2. c \in Live /\ c # Idle /\ state[c] = "ZOMBIE" /\ parent[c] = current
  BY DEF AwaitedZombies, Awaited, Children
<1>3. c # Init /\ c # current BY <1>2 DEF IInv, PointsMatchStates, ParentsAreOthers
<1>4. Live' = Live \ {c} BY <1>1, <1>2 DEF Live, IInv, TypeOK, SchedTypeOK
<1> QED BY <1>1, <1>2, <1>3, <1>4 DEF Users

LEMMA RootedKept ==
  ASSUME IInv, Rooted, [Next]_vars
  PROVE  Rooted'
<1> SUFFICES ASSUME NEW S, S \subseteq Users', S # {} PROVE \E p \in S : parent'[p] \notin S
  BY DEF Rooted
<1>t. parent \in [Proc -> Proc] /\ Live \subseteq Proc BY DEF IInv, TypeOK, Live
<1>1. CASE \E c \in Proc : Fork(current, c)
  <2> PICK c \in Proc : Fork(current, c) BY <1>1
  <2>1. /\ c \notin Live /\ Live' = Live \cup {c} /\ current \in Live
        /\ parent' = [parent EXCEPT ![c] = current]
    BY ForkGrows
  <2>2. CASE S = {c} BY <1>t, <2>1, <2>2
  <2>3. CASE S # {c}
    <3>1. S \ {c} \subseteq Users /\ S \ {c} # {} BY <2>1, <2>3 DEF Users
    <3>2. PICK p \in S \ {c} : parent[p] \notin S \ {c} BY <3>1 DEF Rooted
    <3>3. parent[p] \in Live BY <3>1, <1>t DEF IInv, ParentsAlive, Users, Live
    <3>4. parent[p] # c /\ parent'[p] = parent[p] BY <3>1, <3>3, <2>1, <1>t DEF Users
    <3> QED BY <3>2, <3>4
  <2> QED BY <2>2, <2>3
<1>2. CASE current # Init /\ pc[current] # "idle" /\ DoExit(current)
  <2>1. /\ Live' = Live
        /\ parent' = [q \in Proc |-> IF q \in Children(current) THEN Init ELSE parent[q]]
    BY <1>2, ExitHandsOver
  <2>2. PICK p \in S : parent[p] \notin S BY <2>1 DEF Rooted, Users
  <2>3. Init \notin S BY DEF Users
  <2> QED BY <1>t, <2>1, <2>2, <2>3 DEF Users
<1>3. CASE WaitReap(current)
  <2>1. PICK c \in Users : Live' = Live \ {c} /\ parent' = [parent EXCEPT ![c] = Idle]
    BY <1>3, ReapShrinks
  <2>2. S \subseteq Users /\ c \notin S BY <2>1 DEF Users
  <2>3. PICK p \in S : parent[p] \notin S BY <2>2 DEF Rooted
  <2> QED BY <1>t, <2>1, <2>2, <2>3 DEF Users
<1>4. CASE Live' = Live /\ parent' = parent BY <1>4 DEF Rooted, Users
<1> QED BY <1>1, <1>2, <1>3, <1>4, FamilySteps

\* initproc's location and what it waits for
LEMMA InitMainMoves ==
  ASSUME IInv, InitMainLoops, [Next]_vars
  PROVE  /\ pc'[Init] \in {"init_main", "init_sched", "init_done", "wait_check", "wait_sched",
                           "wait_ret"}
         /\ waitfor'[Init] = Idle
         /\ pc'[Init] = "init_done" => pc[Init] = "init_done" \/ WaitNoChild(Init)
<1> USE DEF InitMainLoops, At, AtTrapEnd, Goto
<1>t. pc \in [Proc -> Location] /\ waitfor \in [Proc -> Proc] /\ Init \in Proc /\ current \in Proc
  BY DEF IInv, TypeOK, SchedTypeOK
<1>1. ASSUME NEW p \in Proc, NEW c \in Proc, Fork(p, c), pc[p] \in {"user", "init_main"}
      PROVE  /\ pc'[Init] \in {pc[Init], "wait_check"} /\ waitfor' = waitfor
  <2>1. c # Init BY <1>1 DEF Fork, IInv, PointsMatchStates
  <2> QED BY <1>1, <1>t, <2>1 DEF Fork
<1>2. ASSUME NEW p \in Proc, DoExit(p) PROVE pc'[Init] = pc[Init] /\ waitfor' = waitfor
  BY <1>2, <1>t DEF DoExit
<1>3. ASSUME NEW p \in Proc, SysWait(p) \/ SysSleep(p) \/ SysKill(p) \/ SysYield(p) \/
             SleepReturn(p) \/ TrapReturn(p)
      PROVE  pc'[Init] = pc[Init] /\ waitfor'[Init] = waitfor[Init]
  BY <1>3, <1>t DEF SysWait, SysSleep, SysKill, SysYield, SleepReturn, TrapReturn
<1>4. ASSUME NEW p \in Proc, SysFork(p) PROVE pc'[Init] = pc[Init] /\ waitfor' = waitfor
  <2>1. p # Init BY <1>4 DEF SysFork
  <2>2. ASSUME NEW c \in Proc, Fork(p, c) PROVE pc'[Init] = pc[Init]
    <3>1. c # Init BY <2>2 DEF Fork, IInv, PointsMatchStates
    <3> QED BY <2>1, <2>2, <3>1, <1>t DEF Fork
  <2> QED BY <1>4, <1>t, <2>1, <2>2 DEF SysFork, Fork
<1>5. ASSUME NEW p \in Proc, WaitReap(p)
      PROVE  pc'[Init] \in {pc[Init], "init_sched"} /\ waitfor'[Init] = Idle
  <2>1. PICK c \in AwaitedZombies(p) :
          /\ pc' = [pc EXCEPT ![c] = "none", ![p] = IF p = Init THEN "init_sched" ELSE "sys_ret"]
          /\ waitfor' = [waitfor EXCEPT ![c] = Idle, ![p] = Idle]
    BY <1>5 DEF WaitReap
  <2>2. c # Init
    BY DEF AwaitedZombies, IInv, PointsMatchStates
  <2> QED BY <1>t, <2>1, <2>2
<1>6. ASSUME NEW p \in Proc, WaitNoChild(p) PROVE
        /\ pc'[Init] = IF p = Init THEN "init_done" ELSE pc[Init]
        /\ waitfor'[Init] = Idle
  BY <1>6, <1>t DEF WaitNoChild
<1>7. ASSUME NEW p \in Proc, WaitSleep(p) \/ (WaitResume(p) /\ ~exiting[p])
      PROVE  pc'[Init] \in {pc[Init], "wait_sched", "wait_check"} /\ waitfor' = waitfor
  BY <1>7, <1>t DEF WaitSleep, WaitResume
<1>8. ASSUME NEW p \in Proc, NEW q \in Proc, Switch(p, q)
      PROVE  pc'[Init] \in {pc[Init], "wait_ret", "wait_check"} /\ waitfor' = waitfor
  BY <1>8, <1>t DEF Switch, CallSchedule, TrapReschedule, IdleSchedule, ResumeAt, procVars
<1>9. ASSUME NEW expired \in BOOLEAN, Tick(expired) PROVE pc'[Init] = pc[Init] /\ waitfor' = waitfor
  BY <1>9, <1>t DEF Tick
<1>10. CASE UNCHANGED vars BY <1>10 DEF vars, procVars
<1> QED
  BY <1>1, <1>2, <1>3, <1>4, <1>5, <1>6, <1>7, <1>8, <1>9, <1>10
  DEF Next, InitMain, InitReturns, Syscall, KernelStep, SysExit, TrapExit, WaitResume

LEMMA UsersHaveParents ==
  ASSUME IInv, InitMainLoops, [Next]_vars, NEW p \in Users'
  PROVE  parent'[p] # Idle
<1>t. parent \in [Proc -> Proc] /\ Live \subseteq Proc BY DEF IInv, TypeOK, Live
<1>1. CASE \E c \in Proc : Fork(current, c) /\ pc[current] \in {"user", "init_main"}
  <2> PICK c \in Proc : Fork(current, c) /\ pc[current] \in {"user", "init_main"} BY <1>1
  <2>1. Live' = Live \cup {c} /\ parent' = [parent EXCEPT ![c] = current] BY ForkGrows
  <2>2. current # Idle BY DEF IInv, PointsMatchStates
  <2> QED BY <1>t, <2>1, <2>2 DEF InitMainLoops, Users
<1>2. CASE current # Init /\ pc[current] # "idle" /\ DoExit(current)
  <2>1. /\ Live' = Live
        /\ parent' = [q \in Proc |-> IF q \in Children(current) THEN Init ELSE parent[q]]
    BY <1>2, ExitHandsOver
  <2> QED BY <1>t, <2>1 DEF InitMainLoops, Users
<1>3. CASE WaitReap(current)
  <2>1. PICK c \in Users : Live' = Live \ {c} /\ parent' = [parent EXCEPT ![c] = Idle]
    BY <1>3, ReapShrinks
  <2> QED BY <1>t, <2>1 DEF InitMainLoops, Users
<1>4. CASE Live' = Live /\ parent' = parent BY <1>4 DEF InitMainLoops, Users
<1> QED BY <1>1, <1>2, <1>3, <1>4, FamilySteps

\* initproc without children has nobody left to care for: the parents of the
\* others would lead to it, or to idleproc, which has no other child.
LEMMA ChildlessIsAlone ==
  ASSUME IInv, Rooted, InitMainLoops, WaitNoChild(Init)
  PROVE  Live = {Idle, Init}
<1>1. Children(Init) = {} BY DEF WaitNoChild, Awaited, InitMainLoops
<1>2. {Idle, Init} \subseteq Live BY DEF IInv, PointsMatchStates, Live
<1>3. ASSUME Users # {} PROVE FALSE
  <2>1. PICK p \in Users : parent[p] \notin Users BY <1>3 DEF Rooted
  <2>2. parent[p] \in Live BY <2>1 DEF IInv, TypeOK, ParentsAlive, Users, Live
  <2>3. parent[p] = Init BY <2>1, <2>2 DEF InitMainLoops, Users
  <2> QED BY <1>1, <2>1, <2>3 DEF Children, Users
<1> QED BY <1>2, <1>3 DEF Users

\* Once the two are alone they stay alone.
LEMMA AloneForEver ==
  ASSUME IInv, Live = {Idle, Init}, pc[Init] = "init_done", [Next]_vars
  PROVE  Live' = {Idle, Init}
<1>1. current \in Live BY DEF IInv, TypeOK, SchedTypeOK, PointsMatchStates, Live
<1>2. pc[current] \in {"idle", "init_done"} BY <1>1 DEF IInv, PointsMatchStates
<1>3. ~WaitReap(current) BY <1>2 DEF WaitReap, At
<1> QED BY <1>1, <1>2, <1>3, FamilySteps DEF IInv, PointsMatchStates

LEMMA FamilyKept == IInv /\ Family /\ [Next]_vars => Family'
<1> SUFFICES ASSUME IInv, Family, [Next]_vars PROVE Family' OBVIOUS
<1>1. Rooted' BY RootedKept DEF Family
<1>2. InitMainLoops' BY InitMainMoves, UsersHaveParents DEF Family, InitMainLoops
<1>3. AllReapedAtEnd'
  <2> SUFFICES ASSUME pc'[Init] = "init_done" PROVE Live' = {Idle, Init}
    BY DEF AllReapedAtEnd
  <2>1. CASE pc[Init] = "init_done"
    BY <2>1, AloneForEver DEF Family, AllReapedAtEnd
  <2>2. CASE WaitNoChild(Init)
    <3>1. Live = {Idle, Init} BY <2>2, ChildlessIsAlone DEF Family
    <3> QED BY <2>2, <3>1 DEF WaitNoChild, schedVars, Live
  <2> QED BY <2>1, <2>2, InitMainMoves DEF Family
<1> QED BY <1>1, <1>2, <1>3 DEF Family

\* The assertion nr_process == 2 of init_main holds: when do_wait finds no child
\* any more, every process but idleproc and initproc has been reaped, in whatever
\* order they forked, exited and were killed.
THEOREM EverybodyReaped == Spec => []AllReapedAtEnd
<1>1. Spec => []Family BY Invariant, FamilyInit, FamilyKept, PTL DEF Spec
<1>2. Family => AllReapedAtEnd BY DEF Family
<1> QED BY <1>1, <1>2, PTL

=============================================================================
