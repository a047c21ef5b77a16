------------------------------ MODULE SemProof ------------------------------
(***************************************************************************)
(* Proofs about semaphores, for any set of threads and of semaphores. The  *)
(* first half has one lemma for each call: it preserves SemInv of Sem,     *)
(* whoever makes it and wherever the caller goes on; the proofs about      *)
(* CheckSync and CheckMonitor use them too. The second half is about       *)
(* SemClients: the safety properties of its run, and that semaphores       *)
(* implement SemSpec.                                                      *)
(***************************************************************************)
EXTENDS SemClients, SequenceTheorems, FiniteSetTheorems, TLAPS

IsIn(q, p) == \E i \in DOMAIN q : q[i] = p

\* What __up leaves of a queue
LEMMA QueueTail ==
  ASSUME NEW q \in Seq(Proc), q # <<>>, IsInjective(q)
  PROVE  /\ Head(q) \in Proc /\ IsIn(q, Head(q))
         /\ Tail(q) \in Seq(Proc) /\ IsInjective(Tail(q))
         /\ \A p \in Proc : IsIn(Tail(q), p) <=> IsIn(q, p) /\ p # Head(q)
<1> DEFINE t == Tail(q)
<1>1. Len(q) \in Nat \ {0} /\ DOMAIN q = 1 .. Len(q) BY EmptySeq, LenProperties
<1>2. /\ t \in Seq(Proc) /\ Head(q) \in Proc /\ Len(t) = Len(q) - 1
      /\ \A i \in 1 .. Len(t) : t[i] = q[i + 1]
  BY HeadTailProperties
<1>3. Head(q) = q[1] BY <1>1
<1>4. DOMAIN t = 1 .. Len(t) BY <1>2, LenProperties
<1> HIDE DEF t
<1>5. IsInjective(t)
  <2> SUFFICES ASSUME NEW i \in 1 .. Len(t), NEW j \in 1 .. Len(t), t[i] = t[j] PROVE i = j
    BY <1>4 DEF IsInjective
  <2>1. i + 1 \in DOMAIN q /\ j + 1 \in DOMAIN q /\ q[i + 1] = q[j + 1] BY <1>1, <1>2
  <2>2. i + 1 = j + 1 BY <2>1 DEF IsInjective
  <2> QED BY <2>2, <1>2, <1>1
<1>6. ASSUME NEW p \in Proc PROVE IsIn(t, p) <=> IsIn(q, p) /\ p # Head(q)
  <2>1. ASSUME IsIn(t, p) PROVE IsIn(q, p) /\ p # Head(q)
    <3>1. PICK i \in 1 .. Len(t) : t[i] = p BY <2>1, <1>4 DEF IsIn
    <3>2. i + 1 \in DOMAIN q /\ 1 \in DOMAIN q /\ q[i + 1] = p /\ i + 1 # 1
      BY <3>1, <1>1, <1>2
    <3> QED BY <3>2, <1>3 DEF IsIn, IsInjective
  <2>2. ASSUME IsIn(q, p), p # Head(q) PROVE IsIn(t, p)
    <3>1. PICK i \in 1 .. Len(q) : q[i] = p BY <2>2, <1>1 DEF IsIn
    <3>2. i # 1 BY <3>1, <2>2, <1>3
    <3>3. i - 1 \in 1 .. Len(t) /\ (i - 1) + 1 = i BY <3>1, <3>2, <1>1, <1>2
    <3>4. t[i - 1] = p BY <3>1, <3>3, <1>2
    <3> QED BY <3>3, <3>4, <1>4 DEF IsIn
  <2> QED BY <2>1, <2>2
<1>7. IsIn(q, Head(q)) BY <1>1, <1>3 DEF IsIn
<1> QED BY <1>2, <1>5, <1>6, <1>7 DEF t

\* What __down makes of a queue
LEMMA QueueAppend ==
  ASSUME NEW q \in Seq(Proc), IsInjective(q), NEW c \in Proc, ~IsIn(q, c)
  PROVE  /\ Append(q, c) \in Seq(Proc) /\ Append(q, c) # <<>> /\ IsInjective(Append(q, c))
         /\ \A p \in Proc : IsIn(Append(q, c), p) <=> IsIn(q, p) \/ p = c
         /\ IsPrefix(q, Append(q, c))
<1> DEFINE t == Append(q, c)
<1>1. Len(q) \in Nat /\ DOMAIN q = 1 .. Len(q) BY LenProperties
<1>2. /\ t \in Seq(Proc) /\ t # <<>> /\ Len(t) = Len(q) + 1
      /\ \A i \in 1 .. Len(q) : t[i] = q[i]
      /\ t[Len(q) + 1] = c
  BY AppendProperties
<1>3. DOMAIN t = 1 .. Len(t) BY <1>2, LenProperties
<1> HIDE DEF t
<1>4. \A i \in DOMAIN q : q[i] # c BY DEF IsIn
<1>5. \A i \in DOMAIN t : (i \in DOMAIN q /\ t[i] = q[i]) \/ (i = Len(q) + 1 /\ t[i] = c)
  BY <1>1, <1>2, <1>3
<1>6. IsInjective(t) BY <1>4, <1>5 DEF IsInjective
<1>7. \A p \in Proc : IsIn(t, p) <=> IsIn(q, p) \/ p = c
  <2>1. DOMAIN q \subseteq DOMAIN t /\ Len(q) + 1 \in DOMAIN t BY <1>1, <1>2, <1>3
  <2> QED BY <1>1, <1>2, <1>5, <2>1 DEF IsIn
<1>8. IsPrefix(q, t)
  <2>1. /\ SubSeq(t, 1, Len(q)) \in Seq(Proc)
        /\ Len(SubSeq(t, 1, Len(q))) = Len(q)
        /\ \A i \in 1 .. Len(q) : SubSeq(t, 1, Len(q))[i] = t[i]
    <3>1. \A i \in 1 .. Len(q) : t[i] \in Proc BY <1>2, <1>1, ElementOfSeq
    <3>2. /\ SubSeq(t, 1, Len(q)) \in Seq(Proc)
          /\ Len(SubSeq(t, 1, Len(q))) = IF 1 <= Len(q) THEN Len(q) - 1 + 1 ELSE 0
          /\ \A i \in 1 .. Len(q) - 1 + 1 : SubSeq(t, 1, Len(q))[i] = t[1 + i - 1]
      BY <3>1, <1>1, SubSeqProperties
    <3> QED BY <3>2, <1>1
  <2>2. SubSeq(t, 1, Len(q)) = q BY <2>1, <1>1, <1>2, SeqEqual
  <2>3. SubSeq(q, 1, Len(q)) = q BY SubSeqFull
  <2> QED BY <2>2, <2>3, <1>1, <1>2 DEF IsPrefix
<1> QED BY <1>2, <1>6, <1>7, <1>8 DEF t

----------------------------------------------------------------------------
\* The waiters of one semaphore: what WaitersAreQueued says of it.
QueueOf(s) ==
  /\ wait_queue[s] # <<>> => value[s] = 0
  /\ IsInjective(wait_queue[s])
  /\ \A p \in Proc : IsIn(wait_queue[s], p) <=> wait_state[p] = "WT_KSEM" /\ waits_on[p] = s

LEMMA Queues == WaitersAreQueued <=> \A s \in Semaphore : QueueOf(s)
BY DEF WaitersAreQueued, QueueOf, IsIn

LEMMA QueuesNext == WaitersAreQueued' <=> \A s \in Semaphore : QueueOf(s)'
BY DEF WaitersAreQueued, QueueOf, IsIn

\* sem_init, when all threads are at points of their own
LEMMA SemInitEstablishes ==
  ASSUME IdleAssumption, SchedInit(Proc \ {Idle}), NEW v \in [Semaphore -> Nat], SemInit(v),
         Semaphore # {}, NEW loc, loc \notin Reserved, DOMAIN then = Proc, \A p \in Proc : then[p] \notin Reserved,
         pc = [p \in Proc |-> IF p = Idle THEN "idle" ELSE loc]
  PROVE  SemInv
<1> USE DEF SchedInit, SemInit
<1>1. SemTypeOK
  <2>1. SchedTypeOK BY DEF SchedTypeOK, PState, WaitState
  <2>2. wait_queue \in [Semaphore -> Seq(Proc)] BY EmptySeq
  <2>3. wakeup_flags \in [Proc -> {"WT_INTERRUPTED", "WT_KSEM"}] OBVIOUS
  <2>4. waits_on \in [Proc -> Semaphore] OBVIOUS
  <2>5. DOMAIN pc = Proc /\ DOMAIN then = Proc OBVIOUS
  <2> QED BY <2>1, <2>2, <2>3, <2>4, <2>5 DEF SemTypeOK
<1>2. RunQueueExact /\ SleepersWaitForSomething
  BY DEF RunQueueExact, SleepersWaitForSomething
<1>3. WaitersAreQueued
  <2> SUFFICES ASSUME NEW s \in Semaphore PROVE QueueOf(s) BY Queues
  <2>1. wait_queue[s] = <<>> /\ DOMAIN wait_queue[s] = {}
    BY EmptySeq, LenProperties
  <2> QED BY <2>1 DEF QueueOf, IsIn, IsInjective
<1>4. DownSucceeds /\ PointsMatchWaits BY DEF DownSucceeds, PointsMatchWaits, Reserved
<1> QED BY <1>1, <1>2, <1>3, <1>4 DEF SemInv

\* wakeup_proc of a process that sleeps
LEMMA WakeSleeper ==
  ASSUME SchedTypeOK, RunQueueExact, SleepersWaitForSomething, NEW p \in Proc,
         state[p] = "SLEEPING", WakeupProcs({p}), UNCHANGED <<current, need_resched>>
  PROVE  /\ state' = [state EXCEPT ![p] = "RUNNABLE"]
         /\ wait_state' = [wait_state EXCEPT ![p] = "NONE"]
         /\ SchedTypeOK' /\ RunQueueExact' /\ SleepersWaitForSomething'
<1>1. Woken({p}) = {p} BY DEF Woken
<1>2. /\ state' = [state EXCEPT ![p] = "RUNNABLE"]
      /\ wait_state' = [wait_state EXCEPT ![p] = "NONE"]
      /\ queued' = [q \in Proc |-> IF q = p /\ q \notin {current, Idle} THEN queued[q] + 1
                                   ELSE queued[q]]
  BY <1>1 DEF WakeupProcs, WakeStates, WakeWaits, WakeQueue, MustQueue, SchedTypeOK
<1>3. SchedTypeOK' BY <1>2 DEF SchedTypeOK, PState, WaitState
<1>4. RunQueueExact' /\ SleepersWaitForSomething'
  BY <1>2 DEF SchedTypeOK, RunQueueExact, SleepersWaitForSomething
<1> QED BY <1>2, <1>3, <1>4

\* wakeup_proc of nobody, or of a process that is awake
LEMMA WakeNobody ==
  ASSUME SchedTypeOK, NEW W \in SUBSET Proc, \A p \in W : state[p] = "RUNNABLE",
         WakeupProcs(W)
  PROVE  UNCHANGED <<state, wait_state, queued>>
<1>1. Woken(W) = {} BY DEF Woken
<1> QED BY <1>1 DEF WakeupProcs, WakeStates, WakeWaits, WakeQueue, SchedTypeOK

\* The process that runs goes to sleep.
LEMMA CurrentSleeps ==
  ASSUME IdleAssumption, SchedTypeOK, RunQueueExact, SleepersWaitForSomething,
         NEW w \in WaitState \ {"NONE"}, SleepCurrent(w), UNCHANGED <<current, need_resched>>
  PROVE  SchedTypeOK' /\ RunQueueExact' /\ SleepersWaitForSomething'
BY DEF SleepCurrent, SchedTypeOK, RunQueueExact, SleepersWaitForSomething, PState

\* schedule(): whom it gives the CPU to can run, and the run queue stays exact.
LEMMA SwitchKeeps ==
  ASSUME IdleAssumption, SchedTypeOK, RunQueueExact, SleepersWaitForSomething,
         state[Idle] = "RUNNABLE", NEW next \in Proc, SwitchTo(next)
  PROVE  /\ SchedTypeOK' /\ RunQueueExact' /\ SleepersWaitForSomething'
         /\ current' = next /\ state'[next] = "RUNNABLE" /\ UNCHANGED <<state, wait_state>>
<1>1. \A p \in Proc : Requeued[p] = IF state[p] = "RUNNABLE" /\ p # Idle THEN 1 ELSE 0
  BY DEF Requeued, RunQueueExact, SchedTypeOK
<1>2. state[next] = "RUNNABLE" BY <1>1 DEF SwitchTo
<1>3. \A p \in Proc : queued'[p] = IF p = next /\ p # Idle THEN Requeued[p] - 1 ELSE Requeued[p]
  BY DEF SwitchTo
<1>4. RunQueueExact' BY <1>1, <1>2, <1>3 DEF SwitchTo, RunQueueExact
<1>5. SchedTypeOK'
  <2>1. queued' \in [Proc -> Nat]
    <3>1. queued' = [p \in Proc |-> IF p = next /\ p # Idle THEN Requeued[p] - 1 ELSE Requeued[p]]
      BY DEF SwitchTo
    <3> QED BY <1>1, <1>2, <3>1
  <2> QED BY <2>1 DEF SwitchTo, SchedTypeOK
<1> QED BY <1>2, <1>4, <1>5 DEF SwitchTo, SleepersWaitForSomething

----------------------------------------------------------------------------
\* A thread that runs its own code is awake.
LEMMA CurrentAwake ==
  ASSUME SemInv, pc[current] \notin Reserved
  PROVE  /\ current \in Proc /\ current # Idle
         /\ state[current] = "RUNNABLE" /\ wait_state[current] = "NONE"
BY DEF SemInv, PointsMatchWaits, SleepersWaitForSomething, SemTypeOK, SchedTypeOK, Reserved

\* A step of its own code: it only moves on.
LEMMA GotoKeeps ==
  ASSUME SemInv, pc[current] \notin Reserved, NEW loc, loc \notin Reserved, Goto(current, loc),
         UNCHANGED <<schedVars, semVars, then>>
  PROVE  SemInv'
<1>1. pc' = [pc EXCEPT ![current] = loc] /\ current \in Proc
  BY CurrentAwake DEF Goto
<1>2. SemTypeOK' BY <1>1 DEF SemInv, SemTypeOK, SchedTypeOK, schedVars, semVars, Reserved
<1>3. PointsMatchWaits' /\ DownSucceeds'
  BY <1>1, CurrentAwake
  DEF SemInv, SemTypeOK, PointsMatchWaits, DownSucceeds, schedVars, semVars, Reserved
<1>4. WaitersAreQueued' BY DEF SemInv, WaitersAreQueued, semVars, schedVars
<1> QED BY <1>2, <1>3, <1>4
    DEF SemInv, RunQueueExact, SleepersWaitForSomething, schedVars

\* __up with a waiter: the first one leaves the queue with its unit, and wakes.
LEMMA HandOver ==
  ASSUME SemInv, NEW s \in Semaphore, wait_queue[s] # <<>>, NEW p, p = Head(wait_queue[s])
  PROVE  /\ p \in Proc /\ state[p] = "SLEEPING" /\ wait_state[p] = "WT_KSEM" /\ waits_on[p] = s
         /\ pc[p] \in {"down_sched", "down_ret"} /\ wakeup_flags[p] = "WT_INTERRUPTED"
<1>1. wait_queue[s] \in Seq(Proc) /\ QueueOf(s) BY Queues DEF SemInv, SemTypeOK
<1>2. p \in Proc /\ IsIn(wait_queue[s], p) BY <1>1, QueueTail DEF QueueOf
<1>3. wait_state[p] = "WT_KSEM" /\ waits_on[p] = s BY <1>1, <1>2 DEF QueueOf
<1> QED BY <1>2, <1>3 DEF SemInv, PointsMatchWaits, SleepersWaitForSomething

LEMMA UpKeeps ==
  ASSUME SemInv, NEW s \in Semaphore, NEW loc, loc \notin Reserved,
         pc[current] \notin Reserved, CallUp(s, loc)
  PROVE  SemInv'
<1>0. /\ pc' = [pc EXCEPT ![current] = loc]
      /\ UNCHANGED <<current, need_resched, waits_on, then>> /\ Up(s)
      /\ current \in Proc /\ state[current] = "RUNNABLE" /\ wait_state[current] = "NONE"
      /\ current # Idle
  BY CurrentAwake DEF CallUp, Goto, Reserved
<1>1. CASE wait_queue[s] = <<>>
  <2>1. value' = [value EXCEPT ![s] = @ + 1]
        /\ UNCHANGED <<wait_queue, wakeup_flags, state, wait_state, queued>>
    BY <1>0, <1>1 DEF Up
  <2>2. SemTypeOK' BY <1>0, <2>1 DEF SemInv, SemTypeOK, SchedTypeOK
  <2>3. WaitersAreQueued'
    <3> SUFFICES ASSUME NEW r \in Semaphore PROVE QueueOf(r)' BY QueuesNext
    <3> QED BY <1>0, <1>1, <2>1, Queues DEF SemInv, QueueOf
  <2>4. PointsMatchWaits' /\ DownSucceeds'
    BY <1>0, <2>1 DEF SemInv, SemTypeOK, PointsMatchWaits, DownSucceeds, Reserved
  <2> QED BY <1>0, <2>1, <2>2, <2>3, <2>4
      DEF SemInv, RunQueueExact, SleepersWaitForSomething
<1>2. CASE wait_queue[s] # <<>>
  <2> DEFINE p == Head(wait_queue[s])
  <2>1. /\ wait_queue' = [wait_queue EXCEPT ![s] = Tail(@)]
        /\ wakeup_flags' = [wakeup_flags EXCEPT ![p] = "WT_KSEM"]
        /\ WakeupProcs({p}) /\ UNCHANGED value
    BY <1>0, <1>2 DEF Up
  <2>2. /\ p \in Proc /\ state[p] = "SLEEPING" /\ wait_state[p] = "WT_KSEM" /\ waits_on[p] = s
        /\ pc[p] \in {"down_sched", "down_ret"}
    BY <1>2, HandOver
  <2>3. /\ IsInjective(wait_queue[s]) /\ wait_queue[s] \in Seq(Proc)
    BY Queues DEF SemInv, QueueOf, SemTypeOK
  <2>4. /\ Tail(wait_queue[s]) \in Seq(Proc) /\ IsInjective(Tail(wait_queue[s]))
        /\ \A q \in Proc : IsIn(Tail(wait_queue[s]), q) <=> IsIn(wait_queue[s], q) /\ q # p
    BY <1>2, <2>3, QueueTail
  <2> HIDE DEF p
  <2>5. /\ state' = [state EXCEPT ![p] = "RUNNABLE"]
        /\ wait_state' = [wait_state EXCEPT ![p] = "NONE"]
        /\ SchedTypeOK' /\ RunQueueExact' /\ SleepersWaitForSomething'
    BY <1>0, <2>1, <2>2, WakeSleeper DEF SemInv, SemTypeOK
  <2>6. SemTypeOK' BY <1>0, <2>1, <2>2, <2>4, <2>5 DEF SemInv, SemTypeOK
  <2>7. WaitersAreQueued'
    <3> SUFFICES ASSUME NEW r \in Semaphore PROVE QueueOf(r)' BY QueuesNext
    <3>1. QueueOf(r) /\ value[s] = 0 BY <1>2, Queues DEF SemInv, QueueOf
    <3>2. \A q \in Proc : wait_state'[q] = IF q = p THEN "NONE" ELSE wait_state[q]
      BY <2>2, <2>5 DEF SemInv, SemTypeOK, SchedTypeOK
    <3>3. CASE r = s
      <4>1. wait_queue'[r] = Tail(wait_queue[s]) BY <2>1, <3>3 DEF SemInv, SemTypeOK
      <4> QED BY <1>0, <2>1, <2>4, <3>1, <3>2, <3>3, <4>1 DEF QueueOf
    <3>4. CASE r # s
      <4>1. wait_queue'[r] = wait_queue[r] BY <2>1, <3>4 DEF SemInv, SemTypeOK
      <4> QED BY <1>0, <2>1, <2>2, <3>1, <3>2, <3>4, <4>1 DEF QueueOf
    <3> QED BY <3>3, <3>4
  <2>8. PointsMatchWaits' /\ DownSucceeds'
    BY <1>0, <2>1, <2>2, <2>5
    DEF SemInv, PointsMatchWaits, DownSucceeds, SemTypeOK, SchedTypeOK, Reserved
  <2> QED BY <2>5, <2>6, <2>7, <2>8 DEF SemInv
<1> QED BY <1>1, <1>2

\* A unit taken at once, by down or try_down
LEMMA TakeKeeps ==
  ASSUME SemInv, NEW s \in Semaphore, NEW loc, loc \notin Reserved,
         pc[current] \notin Reserved,
         TakeUnit(s), Goto(current, loc), UNCHANGED <<then, current, need_resched>>
  PROVE  SemInv'
<1>0. /\ pc' = [pc EXCEPT ![current] = loc]
      /\ current \in Proc /\ state[current] = "RUNNABLE" /\ wait_state[current] = "NONE"
  BY CurrentAwake DEF Goto, Reserved
<1>1. SemTypeOK' BY <1>0 DEF TakeUnit, SemInv, SemTypeOK, SchedTypeOK
<1>2. WaitersAreQueued'
  <2> SUFFICES ASSUME NEW r \in Semaphore PROVE QueueOf(r)' BY QueuesNext
  <2>1. QueueOf(r) /\ wait_queue[s] = <<>>
    BY Queues DEF SemInv, QueueOf, TakeUnit, SemTypeOK
  <2>2. value' = [value EXCEPT ![s] = @ - 1] /\ wait_queue' = wait_queue
        /\ wait_state' = wait_state /\ waits_on' = waits_on
    BY DEF TakeUnit
  <2> QED BY <2>1, <2>2 DEF QueueOf, SemInv, SemTypeOK
<1>3. PointsMatchWaits' /\ DownSucceeds'
  BY <1>0, CurrentAwake
     DEF TakeUnit, SemInv, SemTypeOK, PointsMatchWaits, DownSucceeds, Reserved
<1>4. RunQueueExact' /\ SleepersWaitForSomething'
  BY DEF TakeUnit, SemInv, RunQueueExact, SleepersWaitForSomething
<1> QED BY <1>1, <1>2, <1>3, <1>4 DEF SemInv

\* __down without a unit: the thread queues itself and falls asleep.
LEMMA EnqueueKeeps ==
  ASSUME IdleAssumption, SemInv, NEW s \in Semaphore, NEW loc, loc \notin Reserved,
         pc[current] \notin Reserved,
         Enqueue(s), Goto(current, "down_sched"), then' = [then EXCEPT ![current] = loc],
         UNCHANGED <<current, need_resched>>
  PROVE  SemInv'
<1>1. /\ current \in Proc /\ current # Idle /\ wait_state[current] = "NONE"
      /\ state[current] = "RUNNABLE" /\ wait_queue[s] \in Seq(Proc)
      /\ pc' = [pc EXCEPT ![current] = "down_sched"]

  BY CurrentAwake DEF SemInv, SemTypeOK, Goto, Reserved
<1>2. IsInjective(wait_queue[s]) /\ \A r \in Semaphore : ~IsIn(wait_queue[r], current)
  BY <1>1, Queues DEF SemInv, QueueOf
<1>3. /\ Append(wait_queue[s], current) \in Seq(Proc)
      /\ Append(wait_queue[s], current) # <<>> /\ IsInjective(Append(wait_queue[s], current))
      /\ \A p \in Proc : IsIn(Append(wait_queue[s], current), p)
                           <=> IsIn(wait_queue[s], p) \/ p = current
  BY <1>1, <1>2, QueueAppend
<1>4. /\ wait_queue' = [wait_queue EXCEPT ![s] = Append(@, current)]
      /\ wakeup_flags' = [wakeup_flags EXCEPT ![current] = "WT_INTERRUPTED"]
      /\ waits_on' = [waits_on EXCEPT ![current] = s]
      /\ SleepCurrent("WT_KSEM") /\ value[s] = 0 /\ value' = value
  BY DEF Enqueue
<1>5. SchedTypeOK' /\ RunQueueExact' /\ SleepersWaitForSomething'
  BY <1>4, IdleAssumption, CurrentSleeps DEF SemInv, SemTypeOK, WaitState
<1>6. SemTypeOK' BY <1>1, <1>3, <1>4, <1>5 DEF SemInv, SemTypeOK
<1>7. WaitersAreQueued'
  <2> SUFFICES ASSUME NEW r \in Semaphore PROVE QueueOf(r)' BY QueuesNext
  <2>1. QueueOf(r) BY Queues DEF SemInv
  <2>2. \A p \in Proc : /\ wait_state'[p] = IF p = current THEN "WT_KSEM" ELSE wait_state[p]
                        /\ waits_on'[p] = IF p = current THEN s ELSE waits_on[p]
    BY <1>1, <1>4 DEF SleepCurrent, SemInv, SemTypeOK, SchedTypeOK
  <2>3. CASE r = s
    <3>1. wait_queue'[r] = Append(wait_queue[s], current)
      BY <1>4, <2>3 DEF SemInv, SemTypeOK
    <3> QED BY <1>3, <1>4, <2>1, <2>2, <2>3, <3>1 DEF QueueOf
  <2>4. CASE r # s
    <3>1. wait_queue'[r] = wait_queue[r] BY <1>4, <2>4 DEF SemInv, SemTypeOK
    <3> QED BY <1>2, <1>4, <2>1, <2>2, <2>4, <3>1 DEF QueueOf
  <2> QED BY <2>3, <2>4
<1>8. PointsMatchWaits' /\ DownSucceeds'
  BY <1>1, <1>4 DEF SleepCurrent, SemInv, PointsMatchWaits, DownSucceeds, SemTypeOK,
     SchedTypeOK, Reserved
<1> QED BY <1>5, <1>6, <1>7, <1>8 DEF SemInv

LEMMA DownKeeps ==
  ASSUME IdleAssumption, SemInv, NEW s \in Semaphore, NEW loc, loc \notin Reserved,
         pc[current] \notin Reserved,
         CallDown(s, loc)
  PROVE  SemInv'
BY TakeKeeps, EnqueueKeeps DEF CallDown

LEMMA TryDownKeeps ==
  ASSUME SemInv, NEW s \in Semaphore, NEW loc, loc \notin Reserved,
         pc[current] \notin Reserved,
         CallTryDown(s, loc)
  PROVE  SemInv'
BY TakeKeeps, GotoKeeps DEF CallTryDown, schedVars

\* do_sleep falls asleep.
LEMMA SleepKeeps ==
  ASSUME IdleAssumption, SemInv, NEW loc, loc \notin Reserved,
         pc[current] \notin Reserved, CallSleep(loc)
  PROVE  SemInv'
<1>1. /\ SleepCurrent("WT_TIMER") /\ pc' = [pc EXCEPT ![current] = "sleep_sched"]
      /\ then' = [then EXCEPT ![current] = loc]
      /\ UNCHANGED <<current, need_resched, value, wait_queue, wakeup_flags, waits_on>>
  BY DEF CallSleep, Goto, semVars
<1>2. SchedTypeOK' /\ RunQueueExact' /\ SleepersWaitForSomething'
  BY <1>1, IdleAssumption, CurrentSleeps DEF SemInv, SemTypeOK, WaitState, WT_INTERRUPTED
<1>3. /\ current \in Proc /\ current # Idle /\ wait_state[current] = "NONE"
      /\ state[current] = "RUNNABLE"
  BY CurrentAwake DEF Reserved
<1>4. SemTypeOK' BY <1>1, <1>2, <1>3 DEF SemInv, SemTypeOK
<1>5. WaitersAreQueued'
  <2> SUFFICES ASSUME NEW s \in Semaphore PROVE QueueOf(s)' BY QueuesNext
  <2>1. QueueOf(s) BY Queues DEF SemInv
  <2>2. \A p \in Proc : wait_state'[p] = "WT_KSEM" <=> wait_state[p] = "WT_KSEM"
    BY <1>1, <1>3 DEF SleepCurrent, SemInv, SemTypeOK, SchedTypeOK
  <2> QED BY <1>1, <2>1, <2>2 DEF QueueOf
<1>6. PointsMatchWaits' /\ DownSucceeds'
  BY <1>1, <1>3 DEF SleepCurrent, SemInv, PointsMatchWaits, DownSucceeds, SemTypeOK,
     SchedTypeOK, Reserved
<1> QED BY <1>2, <1>4, <1>5, <1>6 DEF SemInv

\* A thread back from schedule() in the middle of a down is awake: __up has taken
\* it off its queue, and wait_current_del finds nothing to remove.
LEMMA BackInDown ==
  ASSUME SemInv, DownReturn
  PROVE  /\ current \in Proc /\ current # Idle /\ waits_on[current] \in Semaphore
         /\ state[current] = "RUNNABLE" /\ wait_state[current] = "NONE"
         /\ wakeup_flags[current] = "WT_KSEM" /\ then[current] \notin Reserved
         /\ pc[current] = "down_ret" /\ pc' = [pc EXCEPT ![current] = then[current]]
         /\ UNCHANGED <<schedVars, semVars, then>>
<1> DEFINE s == waits_on[current]
<1>1. /\ current \in Proc /\ s \in Semaphore /\ then[current] \notin Reserved /\ current # Idle
      /\ wait_queue \in [Semaphore -> Seq(Proc)] /\ state[current] = "RUNNABLE"
      /\ pc[current] = "down_ret"
  BY DEF DownReturn, SemInv, PointsMatchWaits, SemTypeOK, SchedTypeOK
<1>2. wait_state[current] = "NONE"
  BY <1>1 DEF SemInv, SleepersWaitForSomething, SemTypeOK, SchedTypeOK
<1>3. wakeup_flags[current] = "WT_KSEM" BY <1>1, <1>2 DEF SemInv, PointsMatchWaits
<1>4. ~IsIn(wait_queue[s], current) BY <1>1, <1>2, Queues DEF SemInv, QueueOf
<1>5. DOMAIN wait_queue[s] = 1 .. Len(wait_queue[s]) BY <1>1, LenProperties
<1>6. ~Contains(wait_queue[s], current) BY <1>4, <1>5 DEF IsIn, Contains
<1>7. wait_queue' = wait_queue BY <1>1, <1>6 DEF DownReturn
<1>8. pc' = [pc EXCEPT ![current] = then[current]] BY <1>3 DEF DownReturn, Goto
<1> QED BY <1>1, <1>2, <1>3, <1>7, <1>8 DEF DownReturn, semVars

LEMMA BackInSleep ==
  ASSUME SemInv, SleepReturn
  PROVE  /\ current \in Proc /\ current # Idle
         /\ state[current] = "RUNNABLE" /\ wait_state[current] = "NONE"
         /\ then[current] \notin Reserved /\ pc[current] = "sleep_ret"
         /\ pc' = [pc EXCEPT ![current] = then[current]]
         /\ UNCHANGED <<schedVars, semVars, then>>
BY DEF SleepReturn, Goto, SemInv, PointsMatchWaits, SleepersWaitForSomething, SemTypeOK,
   SchedTypeOK

LEMMA ReturnKeeps ==
  ASSUME SemInv, Returning
  PROVE  SemInv'
<1>1. /\ current \in Proc /\ current # Idle
      /\ state[current] = "RUNNABLE" /\ wait_state[current] = "NONE"
      /\ then[current] \notin Reserved /\ pc[current] \in {"down_ret", "sleep_ret"}
      /\ pc' = [pc EXCEPT ![current] = then[current]]
      /\ UNCHANGED <<schedVars, semVars, then>>
  BY BackInDown, BackInSleep DEF Returning
<1>2. SemTypeOK'
  BY <1>1 DEF SemInv, SemTypeOK, SchedTypeOK, schedVars, semVars
<1>3. PointsMatchWaits' /\ DownSucceeds'
  BY <1>1 DEF SemInv, PointsMatchWaits, DownSucceeds, SemTypeOK, SchedTypeOK, schedVars,
     semVars, Reserved
<1>4. WaitersAreQueued' BY <1>1 DEF SemInv, WaitersAreQueued, semVars, schedVars
<1> QED BY <1>1, <1>2, <1>3, <1>4
    DEF SemInv, RunQueueExact, SleepersWaitForSomething, schedVars

\* A timer that has run out, or do_kill, wakes a process that is in do_sleep.
LEMMA WakeKeeps ==
  ASSUME SemInv, NEW p \in Proc, wait_state[p] = "WT_TIMER", WakeupProcs({p}),
         UNCHANGED <<current, need_resched, semVars, pc, then>>
  PROVE  SemInv'
<1>1. state[p] = "SLEEPING" BY DEF SemInv, SleepersWaitForSomething
<1>2. /\ state' = [state EXCEPT ![p] = "RUNNABLE"]
      /\ wait_state' = [wait_state EXCEPT ![p] = "NONE"]
      /\ SchedTypeOK' /\ RunQueueExact' /\ SleepersWaitForSomething'
  BY <1>1, WakeSleeper DEF SemInv, SemTypeOK
<1>3. SemTypeOK' BY <1>2 DEF SemInv, SemTypeOK, semVars
<1>4. WaitersAreQueued'
  <2> SUFFICES ASSUME NEW s \in Semaphore PROVE QueueOf(s)' BY QueuesNext
  <2>1. QueueOf(s) BY Queues DEF SemInv
  <2>2. \A q \in Proc : wait_state'[q] = "WT_KSEM" <=> wait_state[q] = "WT_KSEM"
    BY <1>2 DEF SemInv, SemTypeOK, SchedTypeOK
  <2> QED BY <2>1, <2>2 DEF QueueOf, semVars
<1>5. PointsMatchWaits' /\ DownSucceeds'
  BY <1>1, <1>2
  DEF SemInv, PointsMatchWaits, DownSucceeds, SemTypeOK, SchedTypeOK, semVars
<1> QED BY <1>2, <1>3, <1>4, <1>5 DEF SemInv

\* Nothing of this invariant looks at need_resched.
LEMMA StillKeeps ==
  ASSUME SemInv, UNCHANGED <<current, state, wait_state, queued, semVars, pc, then>>,
         need_resched' \in [Proc -> BOOLEAN]
  PROVE  SemInv'
BY DEF SemInv, SemTypeOK, SchedTypeOK, RunQueueExact, SleepersWaitForSomething,
   WaitersAreQueued, DownSucceeds, PointsMatchWaits, semVars

LEMMA InterruptKeeps ==
  ASSUME SemInv, Interrupt
  PROVE  SemInv' /\ UNCHANGED <<current, semVars, pc, then>>
<1>1. CASE IdleTick
  <2>1. need_resched' \in [Proc -> BOOLEAN]
    BY <1>1 DEF IdleTick, ProcTick, SemInv, SemTypeOK, SchedTypeOK
  <2> QED BY <1>1, <2>1, StillKeeps DEF IdleTick
<1>2. ASSUME NEW p \in Proc, TimerWakes(p)
      PROVE  SemInv' /\ UNCHANGED <<current, semVars, pc, then>>
  BY <1>2, WakeKeeps DEF TimerWakes
<1> QED BY <1>1, <1>2 DEF Interrupt

\* schedule(), by whoever is about to call it, may be preempted or has exited
LEMMA ScheduleKeeps ==
  ASSUME IdleAssumption, SemInv, NEW next \in Proc, NEW loc,
         loc \notin Reserved \/ loc = "gone",
         Switching(next) \/ CallSchedule(loc, loc, next)
  PROVE  /\ SemInv' /\ UNCHANGED <<semVars, then>>
         /\ \A p \in Proc : pc'[p] = IF pc[p] = "down_sched" THEN "down_ret"
                                    ELSE IF pc[p] = "sleep_sched" THEN "sleep_ret" ELSE pc[p]
<1>1. /\ SwitchTo(next) /\ UNCHANGED <<semVars, then>>
      /\ \/ pc[current] = "down_sched" /\ pc' = [pc EXCEPT ![current] = "down_ret"]
         \/ pc[current] = "sleep_sched" /\ pc' = [pc EXCEPT ![current] = "sleep_ret"]
         \/ pc[current] = loc /\ pc' = [pc EXCEPT ![current] = loc]
         \/ current = Idle /\ pc' = pc
  BY DEF Switching, CallSchedule, IdleSchedule, Goto
<1>2. current \in Proc /\ DOMAIN pc = Proc /\ loc \notin {"down_sched", "sleep_sched"}
  BY DEF SemInv, SemTypeOK, SchedTypeOK, Reserved
<1>3. \A p \in Proc : pc[p] \in {"down_sched", "sleep_sched"} => p = current
  BY DEF SemInv, PointsMatchWaits
<1>4. /\ DOMAIN pc' = Proc
      /\ \A p \in Proc : pc'[p] = IF pc[p] = "down_sched" THEN "down_ret"
                                 ELSE IF pc[p] = "sleep_sched" THEN "sleep_ret" ELSE pc[p]
  <2>1. pc[Idle] = "idle" BY IdleAssumption DEF SemInv, PointsMatchWaits
  <2> QED BY <1>1, <1>2, <1>3, <2>1
<1>5. state[Idle] = "RUNNABLE"
  BY IdleAssumption
  DEF SemInv, PointsMatchWaits, SleepersWaitForSomething, SemTypeOK, SchedTypeOK, PState
<1>6. /\ SchedTypeOK' /\ RunQueueExact' /\ SleepersWaitForSomething'
      /\ current' = next /\ state'[next] = "RUNNABLE" /\ UNCHANGED <<state, wait_state>>
  BY <1>1, <1>5, IdleAssumption, SwitchKeeps DEF SemInv, SemTypeOK
<1>7. SemTypeOK' BY <1>1, <1>4, <1>6 DEF SemInv, SemTypeOK, semVars
<1>8. WaitersAreQueued' BY <1>1, <1>6 DEF SemInv, WaitersAreQueued, semVars
<1>9. PointsMatchWaits' /\ DownSucceeds'
  BY <1>1, <1>4, <1>6 DEF SemInv, PointsMatchWaits, DownSucceeds, semVars
<1> QED BY <1>1, <1>4, <1>6, <1>7, <1>8, <1>9 DEF SemInv

\* A thread exits.
LEMMA ExitKeeps ==
  ASSUME SemInv, pc[current] \notin Reserved, state' = [state EXCEPT ![current] = "ZOMBIE"],
         Goto(current, "gone"),
         UNCHANGED <<current, wait_state, queued, need_resched, semVars, then>>
  PROVE  SemInv'
<1>1. /\ current \in Proc /\ current # Idle /\ state[current] = "RUNNABLE"
      /\ wait_state[current] = "NONE" /\ pc' = [pc EXCEPT ![current] = "gone"]
  BY CurrentAwake DEF Goto
<1>2. SemTypeOK' BY <1>1 DEF SemInv, SemTypeOK, SchedTypeOK, semVars, PState
<1>3. PointsMatchWaits' /\ DownSucceeds'
  BY <1>1
     DEF SemInv, PointsMatchWaits, DownSucceeds, SemTypeOK, SchedTypeOK, semVars, Reserved
<1>4. WaitersAreQueued' BY DEF SemInv, WaitersAreQueued, semVars
<1>5. RunQueueExact' /\ SleepersWaitForSomething'
  BY <1>1 DEF SemInv, RunQueueExact, SleepersWaitForSomething, SemTypeOK, SchedTypeOK
<1> QED BY <1>2, <1>3, <1>4, <1>5 DEF SemInv

----------------------------------------------------------------------------
(* SemClients                                                              *)

Loc == {"idle", "run", "down_sched", "down_ret", "sleep_sched", "sleep_ret", "down_failed"}

LEMMA ClientsInitEstablishes == ClientsInit => ClientsInv
<1> SUFFICES ASSUME ClientsInit PROVE ClientsInv OBVIOUS
<1>1. "run" \notin Reserved /\ DOMAIN then = Proc /\ \A p \in Proc : then[p] \notin Reserved
  BY DEF ClientsInit, Reserved
<1>2. SemInv
  BY <1>1, IdleAssumption, ClientsAssumption, SemInitEstablishes DEF ClientsInit
<1> QED BY <1>2 DEF ClientsInv, ClientsInit, ClientsTypeOK, SemInv

LEMMA KillKeeps ==
  ASSUME SemInv, NEW q \in Proc, Kill(q)
  PROVE  SemInv'
<1>1. CASE wait_state[q] \in WT_INTERRUPTED
  <2>1. wait_state[q] = "WT_TIMER" BY <1>1 DEF SemInv, PointsMatchWaits, WT_INTERRUPTED
  <2> QED BY <1>1, <2>1, WakeKeeps DEF Kill, KillWakes
<1>2. CASE wait_state[q] \notin WT_INTERRUPTED
  <2>1. UNCHANGED <<state, wait_state, queued>>
    BY <1>2, WakeNobody DEF Kill, KillWakes, SemInv, SemTypeOK
  <2> QED BY <2>1, StillKeeps DEF Kill, SemInv, SemTypeOK, SchedTypeOK
<1> QED BY <1>1, <1>2

\* Every step preserves what the calls do.
LEMMA ClientsKeepSemInv ==
  ASSUME ClientsInv, [ClientsNext]_semAll
  PROVE  SemInv'
<1> USE IdleAssumption DEF ClientsInv
<1>0. "run" \notin Reserved BY DEF Reserved
<1>1. CASE ClientUp BY <1>0, <1>1, UpKeeps DEF ClientUp, Running
<1>2. CASE ClientDown BY <1>0, <1>2, DownKeeps DEF ClientDown, Running
<1>3. CASE ClientTryDown BY <1>0, <1>3, TryDownKeeps DEF ClientTryDown, Running
<1>4. CASE ClientSleep BY <1>0, <1>4, SleepKeeps DEF ClientSleep, Running
<1>5. CASE Returning BY <1>5, ReturnKeeps
<1>6. CASE Interrupt BY <1>6, InterruptKeeps
<1>7. CASE \E q \in Proc \ {Idle} : Kill(q) BY <1>7, KillKeeps
<1>8. CASE \E next \in Proc : Switching(next) \/ Preempted(next)
  BY <1>0, <1>8, ScheduleKeeps DEF Preempted
<1>9. CASE UNCHANGED semAll
  BY <1>9, StillKeeps DEF semAll, schedVars, SemInv, SemTypeOK, SchedTypeOK
<1> QED BY <1>1, <1>2, <1>3, <1>4, <1>5, <1>6, <1>7, <1>8, <1>9 DEF ClientsNext

\* Where a step leaves the process that makes it
LEMMA ClientPoints ==
  ASSUME ClientsInv, [ClientsNext]_semAll
  PROVE  pc' \in [Proc -> Loc] /\ then' \in [Proc -> {"run"}]
<1>0. /\ current \in Proc /\ pc \in [Proc -> Loc] /\ then \in [Proc -> {"run"}]
  BY DEF ClientsInv, ClientsTypeOK, SemTypeOK, SchedTypeOK, Loc
<1> SUFFICES ASSUME NEW loc \in Loc, pc' = [pc EXCEPT ![current] = loc] \/ pc' = pc,
                    then' = [then EXCEPT ![current] = "run"] \/ then' = then
             PROVE  pc' \in [Proc -> Loc] /\ then' \in [Proc -> {"run"}]
  <2> USE DEF Goto, Loc
  <2>1. CASE ClientUp BY <2>1 DEF ClientUp, CallUp
  <2>2. CASE ClientDown BY <2>2 DEF ClientDown, CallDown
  <2>3. CASE ClientTryDown BY <2>3 DEF ClientTryDown, CallTryDown
  <2>4. CASE ClientSleep BY <2>4 DEF ClientSleep, CallSleep
  <2>5. CASE Returning BY <1>0, <2>5 DEF Returning, DownReturn, SleepReturn
  <2>6. CASE Interrupt BY <2>6 DEF Interrupt, IdleTick, TimerWakes
  <2>7. CASE \E q \in Proc \ {Idle} : Kill(q) BY <2>7 DEF Kill
  <2>8. CASE \E next \in Proc : Switching(next) \/ Preempted(next)
    BY <2>8 DEF Switching, Preempted, CallSchedule, IdleSchedule
  <2>9. CASE UNCHANGED semAll BY <2>9 DEF semAll
  <2> QED BY <2>1, <2>2, <2>3, <2>4, <2>5, <2>6, <2>7, <2>8, <2>9 DEF ClientsNext
<1> QED BY <1>0

LEMMA ClientsInvariant == ClientsSpec => []ClientsInv
<1>1. ClientsInv /\ [ClientsNext]_semAll => ClientsInv'
  BY ClientsKeepSemInv, ClientPoints DEF ClientsInv, ClientsTypeOK, SemInv, Loc
<1> QED BY <1>1, ClientsInitEstablishes, PTL DEF ClientsSpec

\* The types of the run queue, the wait queues and the semaphores
\* (sem.c, wait.c, sched.c).
THEOREM TypeCorrect == ClientsSpec => []ClientsTypeOK
BY ClientsInvariant, PTL DEF ClientsInv

\* A process asleep on a semaphore is on its queue, once, and there is no unit it
\* could have had (__up, __down and wait_current_set).
THEOREM WaitersStayQueued == ClientsSpec => []WaitersAreQueued
BY ClientsInvariant, PTL DEF ClientsInv, SemInv

\* The assertion flags == 0 of down holds: no kill and no timer ends its wait.
THEOREM DownsSucceed == ClientsSpec => []DownSucceeds
BY ClientsInvariant, PTL DEF ClientsInv, SemInv

----------------------------------------------------------------------------
\* What a step may do to a wait queue: nothing, or what __up and __down do.
LEMMA QueueSteps ==
  ASSUME ClientsInv, [ClientsNext]_semAll, NEW s \in Semaphore
  PROVE  \/ wait_queue'[s] = wait_queue[s]
         \/ wait_queue'[s] = Tail(wait_queue[s])
         \/ ~IsIn(wait_queue[s], current) /\ wait_queue'[s] = Append(wait_queue[s], current)
<1> USE DEF ClientsInv, ClientsTypeOK, SemInv, SemTypeOK
<1>1. CASE ClientUp BY <1>1 DEF ClientUp, CallUp, Up
<1>2. CASE ClientDown
  <2>1. wait_state[current] = "NONE"
    BY <1>2 DEF ClientDown, Running, PointsMatchWaits, SchedTypeOK
  <2>2. ~IsIn(wait_queue[s], current) BY <2>1, Queues DEF QueueOf, SchedTypeOK
  <2> QED BY <1>2, <2>2 DEF ClientDown, CallDown, TakeUnit, Enqueue
<1>3. CASE ClientTryDown BY <1>3 DEF ClientTryDown, CallTryDown, TakeUnit, semVars
<1>4. CASE ClientSleep BY <1>4 DEF ClientSleep, CallSleep, semVars
<1>5. CASE Returning
  <2>1. CASE DownReturn BY <2>1, BackInDown DEF semVars
  <2>2. CASE SleepReturn BY <2>2 DEF SleepReturn, semVars
  <2> QED BY <1>5, <2>1, <2>2 DEF Returning
<1>6. CASE Interrupt BY <1>6 DEF Interrupt, IdleTick, TimerWakes, semVars
<1>7. CASE \E q \in Proc \ {Idle} : Kill(q) BY <1>7 DEF Kill, semVars
<1>8. CASE \E next \in Proc : Switching(next) \/ Preempted(next)
  BY <1>8 DEF Switching, Preempted, CallSchedule, IdleSchedule, semVars
<1>9. CASE UNCHANGED semAll BY <1>9 DEF semAll, semVars
<1> QED BY <1>1, <1>2, <1>3, <1>4, <1>5, <1>6, <1>7, <1>8, <1>9 DEF ClientsNext

\* Units are handed over in the order of the waits (__up takes the first of the
\* queue, wait_current_set appends, and nobody else removes a waiter).
THEOREM ServedInOrder == ClientsSpec => FirstComeFirstServed
<1>1. ASSUME ClientsInv, [ClientsNext]_semAll, NEW s \in Semaphore, wait_queue[s] # <<>>
      PROVE  wait_queue'[s] = Tail(wait_queue[s]) \/ IsPrefix(wait_queue[s], wait_queue'[s])
  <2> DEFINE q == wait_queue[s]
  <2>1. q \in Seq(Proc) /\ IsInjective(q) /\ current \in Proc
    BY <1>1, Queues DEF ClientsInv, SemInv, QueueOf, SemTypeOK, SchedTypeOK
  <2>2. IsPrefix(q, q) BY <2>1, LenProperties DEF IsPrefix
  <2>3. ~IsIn(q, current) => IsPrefix(q, Append(q, current)) BY <2>1, QueueAppend
  <2> QED BY <1>1, <2>2, <2>3, QueueSteps
<1>2. ClientsInv /\ [ClientsNext]_semAll =>
        [\A s \in Semaphore :
           LET q == wait_queue[s] IN
           q # <<>> => wait_queue'[s] = Tail(q) \/ IsPrefix(q, wait_queue'[s])]_semAll
  BY <1>1
<1> QED BY <1>2, ClientsInvariant, PTL DEF ClientsSpec, FirstComeFirstServed

----------------------------------------------------------------------------
\* The units of one semaphore after a step, and those of the others
LEMMA GrantedFinite ==
  ASSUME NEW s \in Semaphore
  PROVE  IsFiniteSet(Granted(s)) /\ Cardinality(Granted(s)) \in Nat
<1>1. Granted(s) \subseteq Proc BY DEF Granted
<1> QED BY <1>1, ClientsAssumption, FS_Subset, FS_CardinalityType

\* A step that changes no value and no grant
LEMMA NoUnits ==
  ASSUME UNCHANGED value, \A s \in Semaphore : Granted(s)' = Granted(s)
  PROVE  UNCHANGED Units
BY DEF Units

\* A step of one semaphore
LEMMA UnitsOfOne ==
  ASSUME NEW s \in Semaphore, NEW n,
         value'[s] + Cardinality(Granted(s)') = n,
         \A r \in Semaphore \ {s} : value'[r] = value[r] /\ Granted(r)' = Granted(r)
  PROVE  Units' = [Units EXCEPT ![s] = n]
BY DEF Units

LEMMA UpProvides ==
  ASSUME ClientsInv, NEW s \in Semaphore, pc[current] = "run", CallUp(s, "run")
  PROVE  Units' = [Units EXCEPT ![s] = @ + 1]
<1>0. pc' = pc /\ waits_on' = waits_on /\ Up(s)
  BY DEF CallUp, Goto, ClientsInv, ClientsTypeOK, SemTypeOK, SchedTypeOK
<1>t. value \in [Semaphore -> Nat] /\ wakeup_flags \in [Proc -> {"WT_INTERRUPTED", "WT_KSEM"}]
  BY DEF ClientsInv, ClientsTypeOK, SemInv, SemTypeOK
<1>s. Units[s] = value[s] + Cardinality(Granted(s)) BY DEF Units
<1>1. CASE wait_queue[s] = <<>>
  <2>1. value' = [value EXCEPT ![s] = @ + 1] /\ wakeup_flags' = wakeup_flags
    BY <1>0, <1>1 DEF Up
  <2>2. \A r \in Semaphore : Granted(r)' = Granted(r) BY <1>0, <2>1 DEF Granted
  <2>3. value'[s] + Cardinality(Granted(s)') = Units[s] + 1
    BY <1>t, <1>s, <2>1, <2>2, GrantedFinite
  <2>4. \A r \in Semaphore \ {s} : value'[r] = value[r] BY <1>t, <2>1
  <2> QED BY <2>2, <2>3, <2>4, UnitsOfOne
<1>2. CASE wait_queue[s] # <<>>
  <2> DEFINE p == Head(wait_queue[s])
  <2>1. wakeup_flags' = [wakeup_flags EXCEPT ![p] = "WT_KSEM"] /\ value' = value
    BY <1>0, <1>2 DEF Up
  <2>2. /\ p \in Proc /\ waits_on[p] = s /\ pc[p] \in {"down_sched", "down_ret"}
        /\ wakeup_flags[p] = "WT_INTERRUPTED"
    BY <1>2, HandOver DEF ClientsInv
  <2> HIDE DEF p
  <2>3. Granted(s)' = Granted(s) \cup {p} /\ p \notin Granted(s)
    BY <1>0, <1>t, <2>1, <2>2 DEF Granted
  <2>4. \A r \in Semaphore \ {s} : Granted(r)' = Granted(r)
    BY <1>0, <1>t, <2>1, <2>2 DEF Granted
  <2>5. Cardinality(Granted(s) \cup {p}) = Cardinality(Granted(s)) + 1
    BY <2>3, GrantedFinite, FS_AddElement
  <2>6. value'[s] + Cardinality(Granted(s)') = Units[s] + 1
    BY <1>t, <1>s, <2>1, <2>3, <2>5, GrantedFinite
  <2> QED BY <2>1, <2>4, <2>6, UnitsOfOne
<1> QED BY <1>1, <1>2

LEMMA TakeTakes ==
  ASSUME ClientsInv, NEW s \in Semaphore, TakeUnit(s), UNCHANGED pc
  PROVE  Units[s] > 0 /\ Units' = [Units EXCEPT ![s] = @ - 1]
<1>1. /\ value \in [Semaphore -> Nat] /\ value[s] > 0
      /\ value' = [value EXCEPT ![s] = @ - 1] /\ UNCHANGED <<wakeup_flags, waits_on, pc>>
  BY DEF ClientsInv, ClientsTypeOK, SemInv, SemTypeOK, TakeUnit
<1>2. \A r \in Semaphore : Granted(r)' = Granted(r) BY <1>1 DEF Granted
<1>3. Units[s] = value[s] + Cardinality(Granted(s)) /\ Cardinality(Granted(s)) \in Nat
  BY GrantedFinite DEF Units
<1>4. value'[s] + Cardinality(Granted(s)') = Units[s] - 1 /\ Units[s] > 0
  BY <1>1, <1>2, <1>3
<1>5. \A r \in Semaphore \ {s} : value'[r] = value[r] BY <1>1
<1> QED BY <1>2, <1>4, <1>5, UnitsOfOne

\* A down that had to wait takes its unit when it returns.
LEMMA ReturnTakes ==
  ASSUME ClientsInv, DownReturn, NEW s, s = waits_on[current]
  PROVE  s \in Semaphore /\ Units[s] > 0 /\ Units' = [Units EXCEPT ![s] = @ - 1]
<1>1. /\ current \in Proc /\ s \in Semaphore /\ pc[current] = "down_ret"
      /\ wakeup_flags[current] = "WT_KSEM" /\ then[current] = "run"
  BY BackInDown DEF ClientsInv, ClientsTypeOK
<1>2. /\ pc' = [pc EXCEPT ![current] = "run"] /\ pc \in [Proc -> Loc]
      /\ UNCHANGED <<wakeup_flags, waits_on, value>>
  BY <1>1 DEF DownReturn, Goto, ClientsInv, ClientsTypeOK, Loc
<1>3. Granted(s)' = Granted(s) \ {current} /\ current \in Granted(s)
  BY <1>1, <1>2 DEF Granted
<1>4. \A r \in Semaphore \ {s} : Granted(r)' = Granted(r)
  BY <1>1, <1>2 DEF Granted
<1>5. Cardinality(Granted(s) \ {current}) = Cardinality(Granted(s)) - 1
  BY <1>1, <1>3, GrantedFinite, FS_RemoveElement
<1>6. IsFiniteSet(Granted(s)) /\ Cardinality(Granted(s)) \in Nat /\ Cardinality(Granted(s)) # 0
  BY <1>1, <1>3, GrantedFinite, FS_EmptySet
<1>7. Units[s] = value[s] + Cardinality(Granted(s)) /\ value[s] \in Nat
  BY <1>1 DEF Units, ClientsInv, SemInv, SemTypeOK
<1>8. value'[s] + Cardinality(Granted(s)') = Units[s] - 1 /\ Units[s] > 0
  BY <1>2, <1>3, <1>5, <1>6, <1>7
<1> QED BY <1>1, <1>2, <1>4, <1>8, UnitsOfOne

\* A step at which nobody who has been granted a unit comes or goes
LEMMA SameGrants ==
  ASSUME ClientsInv, UNCHANGED <<value, waits_on, wakeup_flags>>,
         \A p \in Proc : pc'[p] \in {"down_sched", "down_ret"} <=> pc[p] \in {"down_sched", "down_ret"}
  PROVE  UNCHANGED Units
<1>1. \A s \in Semaphore : Granted(s)' = Granted(s) BY DEF Granted
<1> QED BY <1>1, NoUnits

\* Every step takes or provides at most one unit.
LEMMA UnitSteps ==
  ASSUME ClientsInv, [ClientsNext]_semAll
  PROVE  \/ \E s \in Semaphore : Contract!Provide(s) \/ Contract!Take(s)
         \/ UNCHANGED Units
<1> USE DEF Contract!Provide, Contract!Take
<1>t. current \in Proc /\ pc \in [Proc -> Loc] /\ wakeup_flags \in [Proc -> {"WT_INTERRUPTED", "WT_KSEM"}]
  BY DEF ClientsInv, ClientsTypeOK, SemInv, SemTypeOK, SchedTypeOK, Loc
<1>1. CASE ClientUp BY <1>1, UpProvides DEF ClientUp, Running
<1>2. CASE ClientDown
  <2> PICK s \in Semaphore : CallDown(s, "run") BY <1>2 DEF ClientDown
  <2>1. CASE TakeUnit(s) /\ Goto(current, "run")
    <3>1. pc' = pc BY <1>2, <1>t, <2>1 DEF ClientDown, Running, Goto
    <3> QED BY <2>1, <3>1, TakeTakes
  <2>2. CASE Enqueue(s) /\ Goto(current, "down_sched")
    <3>1. /\ pc' = [pc EXCEPT ![current] = "down_sched"] /\ pc[current] = "run" /\ value' = value
          /\ wakeup_flags' = [wakeup_flags EXCEPT ![current] = "WT_INTERRUPTED"]
          /\ waits_on' = [waits_on EXCEPT ![current] = s]
      BY <1>2, <2>2 DEF ClientDown, Running, Goto, Enqueue
    <3>2. waits_on \in [Proc -> Semaphore]
      BY DEF ClientsInv, ClientsTypeOK, SemInv, SemTypeOK
    <3>3. \A r \in Semaphore : Granted(r)' = Granted(r) BY <1>t, <3>1, <3>2 DEF Granted
    <3> QED BY <3>1, <3>3, NoUnits
  <2> QED BY <2>1, <2>2 DEF CallDown
<1>3. CASE ClientTryDown
  <2> PICK s \in Semaphore : CallTryDown(s, "run") BY <1>3 DEF ClientTryDown
  <2>1. pc' = pc BY <1>3, <1>t DEF ClientTryDown, Running, CallTryDown, Goto
  <2> QED BY <2>1, TakeTakes, SameGrants DEF CallTryDown, semVars
<1>4. CASE ClientSleep
  BY <1>4, <1>t, SameGrants DEF ClientSleep, Running, CallSleep, Goto, semVars
<1>5. CASE Returning
  <2>1. CASE DownReturn BY <2>1, ReturnTakes
  <2>2. CASE SleepReturn
    <3>1. then[current] = "run" BY <1>t DEF ClientsInv, ClientsTypeOK
    <3> QED BY <2>2, <3>1, <1>t, SameGrants DEF SleepReturn, Goto, semVars
  <2> QED BY <1>5, <2>1, <2>2 DEF Returning
<1>6. CASE Interrupt BY <1>6, SameGrants DEF Interrupt, IdleTick, TimerWakes, semVars
<1>7. CASE \E q \in Proc \ {Idle} : Kill(q) BY <1>7, SameGrants DEF Kill, semVars
<1>8. CASE \E next \in Proc : Switching(next) \/ Preempted(next)
  BY <1>8, <1>t, SameGrants
     DEF Switching, Preempted, CallSchedule, IdleSchedule, Goto, semVars
<1>9. CASE UNCHANGED semAll BY <1>9, SameGrants DEF semAll, semVars
<1> QED BY <1>1, <1>2, <1>3, <1>4, <1>5, <1>6, <1>7, <1>8, <1>9 DEF ClientsNext

\* Semaphores implement SemSpec: up adds a unit, a down that completes has taken
\* one, and a unit handed to a waiter is not taken by anybody else meanwhile.
THEOREM UnitsAreCounted == ClientsSpec => CountsUnits
<1>1. ClientsInit => Contract!SpecInit
  <2> SUFFICES ASSUME ClientsInit PROVE Units = Initial BY DEF Contract!SpecInit
  <2>1. \A s \in Semaphore : Granted(s) = {} BY DEF ClientsInit, Granted, SemInit
  <2>2. \A s \in Semaphore : Units[s] = Initial[s]
    <3> TAKE s \in Semaphore
    <3>1. Cardinality(Granted(s)) = 0 BY <2>1, FS_EmptySet
    <3>2. value[s] = Initial[s] /\ Initial[s] \in Nat
      BY ClientsAssumption DEF ClientsInit, SemInit
    <3> QED BY <3>1, <3>2 DEF Units
  <2> QED BY <2>2, ClientsAssumption DEF Units
<1>2. ClientsInv /\ [ClientsNext]_semAll =>
        [\E s \in Semaphore : Contract!Provide(s) \/ Contract!Take(s)]_Units
  BY UnitSteps
<1> QED BY <1>1, <1>2, ClientsInvariant, PTL DEF ClientsSpec, CountsUnits, Contract!SemSpec

=============================================================================
