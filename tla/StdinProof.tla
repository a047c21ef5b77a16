----------------------------- MODULE StdinProof -----------------------------
(***************************************************************************)
(* Proofs about the console input device of Stdin, for any set of readers, *)
(* any size of the ring and any number of keys: no reader sleeps over      *)
(* input, the wait_t on the queue belong to processes that are inside      *)
(* dev_stdin_read, and the ring implements the queue of StdinSpec.         *)
(***************************************************************************)
EXTENDS Stdin, SequenceTheorems, TLAPS

TypeOK ==
  /\ SchedTypeOK
  /\ stdin_buffer \in [0 .. STDIN_BUFSIZE - 1 -> Nat]
  /\ p_rpos \in Nat /\ p_wpos \in Nat
  /\ wait_queue \in Seq(Proc)
  /\ wakeup_flags \in [Proc -> {"WT_INTERRUPTED", "WT_KBD"}]
  /\ todo \in [Proc -> Nat]
  /\ pc \in [Proc -> {"idle", "user", "sys_ret", "read_sched", "read_ret", "exit_sched",
                    "exited"}]
  /\ exiting \in [Proc -> BOOLEAN]
  /\ typed \in Nat

RingBounded == p_rpos <= p_wpos /\ p_wpos - p_rpos <= STDIN_BUFSIZE

\* Where a process stands says what it waits for, and whose wait_t are linked.
PointsMatchWaits ==
  /\ state[current] = "RUNNABLE" \/ pc[current] \in {"read_sched", "exit_sched"}
  /\ \A p \in Proc :
       /\ state[p] # "FREE"
       /\ state[p] = "ZOMBIE" <=> pc[p] \in {"exit_sched", "exited"}
       /\ pc[p] = "idle" <=> p = Idle
       /\ pc[p] \in {"read_sched", "exit_sched"} => p = current
       /\ wait_state[p] \in {"NONE", "WT_KBD"}
       /\ wait_state[p] = "WT_KBD" => p \in ToSet(wait_queue)
       /\ p \in ToSet(wait_queue) => pc[p] \in {"read_sched", "read_ret"}

\* The inductive invariant
StdinInv ==
  /\ TypeOK /\ RingBounded
  /\ RunQueueExact /\ SleepersWaitForSomething
  /\ IsInjective(wait_queue)
  /\ PointsMatchWaits
  /\ NoReaderMissesInput

----------------------------------------------------------------------------
(* The wait queue                                                          *)

LEMMA Elements ==
  ASSUME NEW q \in Seq(Proc)
  PROVE  /\ Len(q) \in Nat /\ DOMAIN q = 1 .. Len(q)
         /\ ToSet(q) = {q[i] : i \in 1 .. Len(q)} /\ ToSet(q) \subseteq Proc
BY LenProperties, ElementOfSeq DEF ToSet

LEMMA QueueAppend ==
  ASSUME NEW q \in Seq(Proc), IsInjective(q), NEW c \in Proc, c \notin ToSet(q)
  PROVE  /\ Append(q, c) \in Seq(Proc) /\ IsInjective(Append(q, c))
         /\ ToSet(Append(q, c)) = ToSet(q) \cup {c}
<1> DEFINE t == Append(q, c)
<1>1. Len(q) \in Nat /\ DOMAIN q = 1 .. Len(q) BY LenProperties
<1>2. /\ t \in Seq(Proc) /\ Len(t) = Len(q) + 1
      /\ \A i \in 1 .. Len(q) : t[i] = q[i]
      /\ t[Len(q) + 1] = c
  BY AppendProperties
<1>3. DOMAIN t = 1 .. Len(t) BY <1>2, LenProperties
<1> HIDE DEF t
<1>4. \A i \in DOMAIN q : q[i] # c BY DEF ToSet
<1>5. \A i \in DOMAIN t : (i \in DOMAIN q /\ t[i] = q[i]) \/ (i = Len(q) + 1 /\ t[i] = c)
  BY <1>1, <1>2, <1>3
<1>6. DOMAIN q \subseteq DOMAIN t /\ Len(q) + 1 \in DOMAIN t BY <1>1, <1>2, <1>3
<1>7. IsInjective(t) BY <1>4, <1>5 DEF IsInjective
<1>8. ToSet(t) = ToSet(q) \cup {c} BY <1>1, <1>2, <1>5, <1>6 DEF ToSet
<1> QED BY <1>2, <1>7, <1>8 DEF t

\* wait_current_del of a process that is on the queue, and of one that is not
LEMMA QueueWithout ==
  ASSUME NEW q \in Seq(Proc), IsInjective(q), NEW c \in Proc
  PROVE  /\ RemoveFirst(q, c) \in Seq(Proc) /\ IsInjective(RemoveFirst(q, c))
         /\ ToSet(RemoveFirst(q, c)) = ToSet(q) \ {c}
<1>1. Len(q) \in Nat /\ DOMAIN q = 1 .. Len(q) BY LenProperties
<1>2. CASE c \notin ToSet(q)
  <2>1. RemoveFirst(q, c) = q BY <1>1, <1>2 DEF RemoveFirst, ToSet
  <2> QED BY <1>2, <2>1
<1>3. CASE c \in ToSet(q)
  <2>1. PICK i \in 1 .. Len(q) : q[i] = c BY <1>1, <1>3 DEF ToSet
  <2>2. \A j \in 1 .. Len(q) : q[j] = c => j = i BY <1>1, <2>1 DEF IsInjective
  <2>3. RemoveFirst(q, c) = RemoveAt(q, i)
    <3>1. {j \in 1 .. Len(q) : q[j] = c} = {i} BY <2>1, <2>2
    <3>2. Min({i}) = i BY DEF Min
    <3> QED BY <2>1, <3>1, <3>2 DEF RemoveFirst, SelectInSeq
  <2> DEFINE a == SubSeq(q, 1, i - 1)
             b == SubSeq(q, i + 1, Len(q))
             t == a \o b
  <2>4. \A j \in 1 .. Len(q) : q[j] \in Proc BY ElementOfSeq
  <2>5. /\ a \in Seq(Proc) /\ Len(a) = i - 1
        /\ \A j \in 1 .. i - 1 : a[j] = q[j]
    <3>1. /\ SubSeq(q, 1, i - 1) \in Seq(Proc)
          /\ Len(SubSeq(q, 1, i - 1)) = IF 1 <= i - 1 THEN i - 1 - 1 + 1 ELSE 0
          /\ \A j \in 1 .. i - 1 - 1 + 1 : SubSeq(q, 1, i - 1)[j] = q[1 + j - 1]
      BY <1>1, <2>4, SubSeqProperties
    <3> QED BY <3>1
  <2>6. /\ b \in Seq(Proc) /\ Len(b) = Len(q) - i
        /\ \A j \in 1 .. Len(q) - i : b[j] = q[i + j]
    <3>1. /\ SubSeq(q, i + 1, Len(q)) \in Seq(Proc)
          /\ Len(SubSeq(q, i + 1, Len(q))) = IF i + 1 <= Len(q) THEN Len(q) - (i + 1) + 1 ELSE 0
          /\ \A j \in 1 .. Len(q) - (i + 1) + 1 : SubSeq(q, i + 1, Len(q))[j] = q[(i + 1) + j - 1]
      BY <1>1, <2>4, SubSeqProperties
    <3> QED BY <1>1, <3>1
  <2> HIDE DEF a, b
  <2>7. /\ t \in Seq(Proc) /\ Len(t) = Len(q) - 1
        /\ \A j \in 1 .. Len(q) - 1 : t[j] = IF j < i THEN q[j] ELSE q[j + 1]
    <3>1. /\ t \in Seq(Proc) /\ Len(t) = Len(a) + Len(b)
          /\ \A j \in 1 .. Len(a) + Len(b) : t[j] = IF j <= Len(a) THEN a[j] ELSE b[j - Len(a)]
      BY <2>5, <2>6, ConcatProperties
    <3> HIDE DEF t
    <3>2. Len(a) = i - 1 /\ Len(a) + Len(b) = Len(q) - 1 BY <1>1, <2>5, <2>6
    <3>3. ASSUME NEW j \in 1 .. Len(q) - 1 PROVE t[j] = IF j < i THEN q[j] ELSE q[j + 1]
      <4>1. CASE j < i BY <2>5, <3>1, <3>2, <4>1
      <4>2. CASE j >= i
        <5>1. t[j] = b[j - (i - 1)] BY <3>1, <3>2, <4>2
        <5>2. j - (i - 1) \in 1 .. Len(q) - i /\ i + (j - (i - 1)) = j + 1 BY <1>1, <4>2
        <5> QED BY <2>6, <4>2, <5>1, <5>2
      <4> QED BY <4>1, <4>2
    <3> QED BY <3>1, <3>2, <3>3
  <2>8. DOMAIN t = 1 .. Len(q) - 1 BY <2>7, LenProperties
  <2> HIDE DEF t
  <2>9. IsInjective(t) BY <1>1, <2>7, <2>8 DEF IsInjective
  <2>10. ToSet(t) = ToSet(q) \ {c}
    <3>1. ASSUME NEW j \in DOMAIN t PROVE t[j] \in ToSet(q) \ {c}
      BY <1>1, <2>1, <2>2, <2>7, <2>8 DEF ToSet
    <3>2. ASSUME NEW j \in DOMAIN q, q[j] # c PROVE q[j] \in ToSet(t)
      <4>1. CASE j < i
        <5>1. j \in DOMAIN t /\ t[j] = q[j] BY <1>1, <2>1, <2>7, <2>8, <4>1
        <5> QED BY <5>1 DEF ToSet
      <4>2. CASE j > i
        <5>1. j - 1 \in DOMAIN t /\ t[j - 1] = q[j] BY <1>1, <2>1, <2>7, <2>8, <4>2
        <5> QED BY <5>1 DEF ToSet
      <4> QED BY <1>1, <2>1, <3>2, <4>1, <4>2
    <3> QED BY <3>1, <3>2 DEF ToSet
  <2> QED BY <2>3, <2>7, <2>9, <2>10 DEF RemoveAt, t, a, b
<1> QED BY <1>2, <1>3

----------------------------------------------------------------------------
(* The scheduler                                                           *)

\* wakeup_proc, of processes that sleep or are awake already
LEMMA WakeAll ==
  ASSUME SchedTypeOK, RunQueueExact, SleepersWaitForSomething,
         NEW W \in SUBSET Proc, \A p \in W : state[p] \in {"SLEEPING", "RUNNABLE"},
         WakeupProcs(W), UNCHANGED <<current, need_resched>>
  PROVE  /\ SchedTypeOK' /\ RunQueueExact' /\ SleepersWaitForSomething'
         /\ \A p \in Proc : /\ state'[p] = IF p \in W THEN "RUNNABLE" ELSE state[p]
                            /\ wait_state'[p] = IF p \in W THEN "NONE" ELSE wait_state[p]
<1>1. \A p \in Proc : p \in Woken(W) <=> p \in W /\ state[p] = "SLEEPING" BY DEF Woken
<1>2. SchedTypeOK'
  BY DEF WakeupProcs, WakeStates, WakeWaits, WakeQueue, SchedTypeOK, PState, WaitState
<1>3. \A p \in Proc :
        /\ state'[p] = IF p \in W /\ state[p] = "SLEEPING" THEN "RUNNABLE" ELSE state[p]
        /\ wait_state'[p] = IF p \in W /\ state[p] = "SLEEPING" THEN "NONE" ELSE wait_state[p]
        /\ queued'[p] = IF p \in W /\ state[p] = "SLEEPING" /\ p \notin {current, Idle}
                        THEN queued[p] + 1 ELSE queued[p]
  BY <1>1 DEF WakeupProcs, WakeStates, WakeWaits, WakeQueue, MustQueue
<1>4. RunQueueExact' /\ SleepersWaitForSomething'
  BY <1>3 DEF RunQueueExact, SleepersWaitForSomething
<1> QED BY <1>2, <1>3, <1>4 DEF SleepersWaitForSomething

\* The process that runs goes to sleep.
LEMMA CurrentSleeps ==
  ASSUME SchedTypeOK, RunQueueExact, SleepersWaitForSomething,
         NEW w \in WaitState \ {"NONE"}, SleepCurrent(w), UNCHANGED <<current, need_resched>>
  PROVE  SchedTypeOK' /\ RunQueueExact' /\ SleepersWaitForSomething'
BY IdleAssumption
   DEF SleepCurrent, SchedTypeOK, RunQueueExact, SleepersWaitForSomething, PState

\* schedule(): whom it gives the CPU to can run, and the run queue stays exact.
LEMMA SwitchKeeps ==
  ASSUME SchedTypeOK, RunQueueExact, SleepersWaitForSomething,
         state[Idle] = "RUNNABLE", NEW next \in Proc, SwitchTo(next)
  PROVE  /\ SchedTypeOK' /\ RunQueueExact' /\ SleepersWaitForSomething'
         /\ current' = next /\ state'[next] = "RUNNABLE" /\ UNCHANGED <<state, wait_state>>
<1>1. \A p \in Proc : Requeued[p] = IF state[p] = "RUNNABLE" /\ p # Idle THEN 1 ELSE 0
  BY IdleAssumption DEF Requeued, RunQueueExact, SchedTypeOK
<1>2. state[next] = "RUNNABLE" BY <1>1, IdleAssumption DEF SwitchTo
<1>3. /\ queued' = [p \in Proc |-> IF p = next /\ p # Idle THEN Requeued[p] - 1 ELSE Requeued[p]]
      /\ current' = next /\ UNCHANGED <<state, wait_state>>
  BY DEF SwitchTo
<1>4. RunQueueExact' BY <1>1, <1>2, <1>3 DEF RunQueueExact
<1>5. queued' \in [Proc -> Nat] BY <1>1, <1>2, <1>3
<1>6. SchedTypeOK' BY <1>3, <1>5 DEF SwitchTo, SchedTypeOK
<1> QED BY <1>2, <1>3, <1>4, <1>6 DEF SleepersWaitForSomething

----------------------------------------------------------------------------
(* The steps                                                               *)

LEMMA InitEstablishes == Init => StdinInv
<1> SUFFICES ASSUME Init PROVE StdinInv OBVIOUS
<1> USE DEF Init, SchedInit, User
<1>1. wait_queue \in Seq(Proc) /\ DOMAIN wait_queue = {}
  BY EmptySeq, LenProperties
<1>2. SchedTypeOK BY IdleAssumption DEF SchedTypeOK, PState, WaitState
<1>3. TypeOK BY <1>1, <1>2 DEF TypeOK
<1>4. RingBounded BY StdinAssumption DEF RingBounded
<1>5. RunQueueExact /\ SleepersWaitForSomething
  BY DEF RunQueueExact, SleepersWaitForSomething
<1>6. IsInjective(wait_queue) BY <1>1 DEF IsInjective
<1>7. PointsMatchWaits BY <1>1, IdleAssumption DEF PointsMatchWaits, ToSet
<1>8. NoReaderMissesInput BY DEF NoReaderMissesInput
<1> QED BY <1>3, <1>4, <1>5, <1>6, <1>7, <1>8 DEF StdinInv

LEMMA Queue ==
  ASSUME StdinInv
  PROVE  /\ wait_queue \in Seq(Proc) /\ ToSet(wait_queue) \subseteq Proc
         /\ \A p \in ToSet(wait_queue) :
              state[p] \in {"SLEEPING", "RUNNABLE"} /\ pc[p] \in {"read_sched", "read_ret"}
<1>1. wait_queue \in Seq(Proc) /\ ToSet(wait_queue) \subseteq Proc
  BY Elements DEF StdinInv, TypeOK
<1> QED BY <1>1 DEF StdinInv, TypeOK, SchedTypeOK, PState, PointsMatchWaits

LEMMA KeyKeeps ==
  ASSUME StdinInv, KeyInterrupt
  PROVE  StdinInv'
<1>1. /\ wait_queue' = <<>> /\ WakeupProcs(ToSet(wait_queue))
      /\ wakeup_flags' = [p \in Proc |-> IF p \in ToSet(wait_queue) THEN "WT_KBD" ELSE wakeup_flags[p]]
      /\ UNCHANGED <<current, need_resched, p_rpos, todo, pc, exiting>>
      /\ typed' = typed + 1
  BY DEF KeyInterrupt, WakeReaders
<1>2. /\ SchedTypeOK' /\ RunQueueExact' /\ SleepersWaitForSomething'
      /\ \A p \in Proc :
           /\ state'[p] = IF p \in ToSet(wait_queue) THEN "RUNNABLE" ELSE state[p]
           /\ wait_state'[p] = IF p \in ToSet(wait_queue) THEN "NONE" ELSE wait_state[p]
  BY <1>1, Queue, WakeAll DEF StdinInv, TypeOK
<1>3. wait_queue' \in Seq(Proc) /\ IsInjective(wait_queue') /\ ToSet(wait_queue') = {}
  BY <1>1, EmptySeq, LenProperties DEF IsInjective, ToSet
<1>4. /\ stdin_buffer' \in [0 .. STDIN_BUFSIZE - 1 -> Nat]
      /\ p_wpos' \in Nat /\ RingBounded'
  <2>1. /\ stdin_buffer' = [stdin_buffer EXCEPT ![p_wpos % STDIN_BUFSIZE] = typed + 1]
        /\ p_wpos' = IF p_wpos - p_rpos < STDIN_BUFSIZE THEN p_wpos + 1 ELSE p_wpos
    BY DEF KeyInterrupt, Advance
  <2> QED BY <1>1, <2>1, StdinAssumption DEF StdinInv, TypeOK, RingBounded
<1>5. TypeOK' BY <1>1, <1>2, <1>3, <1>4 DEF StdinInv, TypeOK
<1>6. PointsMatchWaits'
  <2>1. current \in Proc BY DEF StdinInv, TypeOK, SchedTypeOK
  <2> QED BY <1>1, <1>2, <1>3, <2>1, Queue DEF StdinInv, PointsMatchWaits
<1>7. NoReaderMissesInput'
  <2>1. \A p \in Proc : wait_state'[p] # "WT_KBD"
    BY <1>2 DEF StdinInv, PointsMatchWaits
  <2> QED BY <2>1 DEF NoReaderMissesInput, User
<1> QED BY <1>2, <1>3, <1>4, <1>5, <1>6, <1>7 DEF StdinInv

\* What a read takes
LEMMA Taken ==
  ASSUME TypeOK, RingBounded, NEW len \in Nat
  PROVE  /\ Available(len) \in Nat /\ Available(len) <= len
         /\ Available(len) <= p_wpos - p_rpos
         /\ Available(len) < len => Available(len) = p_wpos - p_rpos
<1>1. p_wpos - p_rpos \in Nat BY DEF TypeOK, RingBounded
<1> DEFINE n == p_wpos - p_rpos
<1> HIDE DEF n
<1>2. n \in Nat => Min({len, n}) = IF len <= n THEN len ELSE n BY DEF Min
<1> QED BY <1>1, <1>2 DEF Available, n

LEMMA ReadLoopKeeps ==
  ASSUME StdinInv, NEW p \in User, current = p, pc[p] \in {"user", "read_ret"},
         NEW len \in Nat, NEW queue \in Seq(Proc), IsInjective(queue),
         ToSet(queue) = ToSet(wait_queue) \ {p},
         ReadLoop(p, len, queue), UNCHANGED <<current, need_resched, exiting, typed>>
  PROVE  StdinInv'
<1> DEFINE k == Available(len)
<1>1. /\ k \in Nat /\ k <= len /\ k <= p_wpos - p_rpos /\ (k < len => k = p_wpos - p_rpos)
  BY Taken DEF StdinInv
<1> HIDE DEF k
<1>2. /\ p_rpos' = p_rpos + k /\ todo' = [todo EXCEPT ![p] = len - k]
      /\ UNCHANGED <<stdin_buffer, p_wpos>>
  BY DEF ReadLoop, k
<1>3. /\ p_rpos' \in Nat /\ RingBounded' /\ todo' \in [Proc -> Nat]
  <2>1. p_rpos \in Nat /\ p_wpos \in Nat /\ todo \in [Proc -> Nat] /\ RingBounded
    BY DEF StdinInv, TypeOK
  <2>2. len - k \in Nat BY <1>1
  <2>3. p_rpos' \in Nat /\ RingBounded' BY <1>1, <1>2, <2>1, StdinAssumption DEF RingBounded
  <2> QED BY <1>2, <2>1, <2>2, <2>3
<1>4. /\ p \in Proc /\ p # Idle /\ state[p] = "RUNNABLE" /\ wait_state[p] = "NONE"
  BY DEF User, StdinInv, PointsMatchWaits, SleepersWaitForSomething
<1>5. CASE k = len
  <2>1. /\ pc' = [pc EXCEPT ![p] = "sys_ret"] /\ wait_queue' = queue
        /\ UNCHANGED <<wakeup_flags, state, wait_state, queued>>
    BY <1>1, <1>5 DEF ReadLoop, Goto, k
  <2>2. TypeOK' BY <1>2, <1>3, <2>1 DEF StdinInv, TypeOK, SchedTypeOK
  <2>3. PointsMatchWaits' BY <1>4, <2>1 DEF StdinInv, TypeOK, PointsMatchWaits
  <2>4. RunQueueExact' /\ SleepersWaitForSomething'
    BY <2>1 DEF StdinInv, RunQueueExact, SleepersWaitForSomething
  <2>5. NoReaderMissesInput'
    BY <1>1, <1>2, <2>1 DEF StdinInv, TypeOK, RingBounded, NoReaderMissesInput
  <2> QED BY <1>3, <2>1, <2>2, <2>3, <2>4, <2>5 DEF StdinInv
<1>6. CASE k < len
  <2>1. /\ pc' = [pc EXCEPT ![p] = "read_sched"] /\ wait_queue' = Append(queue, p)
        /\ wakeup_flags' = [wakeup_flags EXCEPT ![p] = "WT_INTERRUPTED"]
        /\ SleepCurrent("WT_KBD")
    BY <1>1, <1>6 DEF ReadLoop, Goto, k
  <2>2. /\ wait_queue' \in Seq(Proc) /\ IsInjective(wait_queue')
        /\ ToSet(wait_queue') = ToSet(wait_queue) \cup {p}
    BY <1>4, <2>1, QueueAppend
  <2>3. SchedTypeOK' /\ RunQueueExact' /\ SleepersWaitForSomething'
    BY <2>1, CurrentSleeps DEF StdinInv, TypeOK, WaitState, WT_INTERRUPTED
  <2>4. TypeOK' BY <1>2, <1>3, <2>1, <2>2, <2>3 DEF StdinInv, TypeOK
  <2>5. PointsMatchWaits'
    BY <1>4, <2>1, <2>2 DEF SleepCurrent, StdinInv, TypeOK, SchedTypeOK, PointsMatchWaits
  <2>6. NoReaderMissesInput'
    BY <1>1, <1>2, <1>6 DEF StdinInv, TypeOK, NoReaderMissesInput
  <2> QED BY <1>3, <2>2, <2>3, <2>4, <2>5, <2>6 DEF StdinInv
<1> QED BY <1>1, <1>5, <1>6

LEMMA SysReadKeeps ==
  ASSUME StdinInv, NEW p \in User, SysRead(p)
  PROVE  StdinInv'
<1>1. PICK len \in 1 .. MaxLen : ReadLoop(p, len, wait_queue) BY DEF SysRead
<1>2. current = p /\ pc[p] = "user" /\ len \in Nat
  BY StdinAssumption DEF SysRead, At
<1>3. p \notin ToSet(wait_queue) BY <1>2, Queue
<1>4. UNCHANGED <<current, need_resched, exiting, typed>> BY DEF SysRead
<1> QED BY <1>1, <1>2, <1>3, <1>4, Queue, ReadLoopKeeps DEF StdinInv

LEMMA ReadReturnKeeps ==
  ASSUME StdinInv, NEW p \in User, ReadReturn(p)
  PROVE  StdinInv'
<1>1. /\ current = p /\ pc[p] = "read_ret" /\ p \in Proc /\ p # Idle
      /\ UNCHANGED <<current, need_resched, exiting, typed>>
  BY DEF ReadReturn, At, User
<1>2. /\ WithoutSelf(p) \in Seq(Proc) /\ IsInjective(WithoutSelf(p))
      /\ ToSet(WithoutSelf(p)) = ToSet(wait_queue) \ {p}
  BY <1>1, Queue, QueueWithout DEF WithoutSelf, StdinInv
<1>3. CASE ReadLoop(p, todo[p], WithoutSelf(p))
  <2>1. todo[p] \in Nat BY <1>1 DEF StdinInv, TypeOK
  <2>2. PICK len \in Nat, queue \in Seq(Proc) : len = todo[p] /\ queue = WithoutSelf(p)
    BY <1>2, <2>1
  <2> QED BY <1>1, <1>2, <1>3, <2>2, ReadLoopKeeps
<1>4. CASE ReadAborted(p)
  <2>1. /\ pc' = [pc EXCEPT ![p] = "sys_ret"] /\ wait_queue' = WithoutSelf(p)
        /\ UNCHANGED <<schedVars, ringVars, wakeup_flags, todo, exiting, typed>>
    BY <1>1, <1>4 DEF ReadAborted, Goto, schedVars
  <2>2. state[p] = "RUNNABLE" /\ wait_state[p] = "NONE"
    BY <1>1 DEF StdinInv, PointsMatchWaits, SleepersWaitForSomething
  <2>3. TypeOK' BY <1>2, <2>1 DEF StdinInv, TypeOK, SchedTypeOK, schedVars, ringVars
  <2>4. PointsMatchWaits'
    BY <1>1, <1>2, <2>1, <2>2 DEF StdinInv, TypeOK, PointsMatchWaits, schedVars
  <2>5. IsInjective(wait_queue') BY <1>2, <2>1
  <2> QED BY <2>1, <2>3, <2>4, <2>5
      DEF StdinInv, RunQueueExact, SleepersWaitForSomething, NoReaderMissesInput,
          RingBounded,
          schedVars, ringVars
<1> QED BY <1>3, <1>4 DEF ReadReturn

\* A step that changes nothing but where a running process stands
LEMMA MoveKeeps ==
  ASSUME StdinInv, NEW p \in User, current = p, pc[p] \in {"user", "sys_ret"},
         pc' = [pc EXCEPT ![p] = "user"] \/ pc' = [pc EXCEPT ![p] = "sys_ret"],
         UNCHANGED <<schedVars, ringVars, waitVars, todo, typed>>,
         exiting' \in [Proc -> BOOLEAN]
  PROVE  StdinInv'
<1>1. TypeOK' BY DEF StdinInv, TypeOK, SchedTypeOK, schedVars, ringVars, waitVars
<1>2. p \in Proc /\ p # Idle /\ p \notin ToSet(wait_queue) BY Queue DEF User
<1>3. PointsMatchWaits' BY <1>2 DEF StdinInv, TypeOK, PointsMatchWaits, schedVars, waitVars
<1> QED BY <1>1, <1>3
    DEF StdinInv, RunQueueExact, SleepersWaitForSomething, NoReaderMissesInput, RingBounded,
        schedVars, ringVars, waitVars

LEMMA SysKillKeeps ==
  ASSUME StdinInv, NEW p \in User, SysKill(p)
  PROVE  StdinInv'
<1>1. /\ current = p /\ pc[p] = "user" /\ p \in Proc /\ p # Idle
      /\ pc' = [pc EXCEPT ![p] = "sys_ret"]
      /\ UNCHANGED <<current, need_resched, ringVars, waitVars, todo, typed>>
  BY DEF SysKill, At, Goto, Quiet, User
<1>2. PICK q \in User :
        IF exiting[q] THEN UNCHANGED <<state, wait_state, queued, exiting>>
        ELSE /\ exiting' = [exiting EXCEPT ![q] = TRUE]
             /\ WakeupProcs(IF wait_state[q] \in WT_INTERRUPTED THEN {q} ELSE {})
  BY DEF SysKill
<1>3. CASE exiting[q]
  <2>1. UNCHANGED schedVars /\ exiting' \in [Proc -> BOOLEAN]
    BY <1>1, <1>2, <1>3 DEF schedVars, StdinInv, TypeOK
  <2> QED BY <1>1, <2>1, MoveKeeps
<1>4. CASE ~exiting[q]
  <2> DEFINE W == IF wait_state[q] \in WT_INTERRUPTED THEN {q} ELSE {}
  <2>1. q \in Proc /\ W \subseteq {q} BY DEF User
  <2>2. \A r \in W : state[r] = "SLEEPING" /\ wait_state[r] = "WT_KBD"
    BY <2>1 DEF StdinInv, PointsMatchWaits, SleepersWaitForSomething, WT_INTERRUPTED
  <2>3. /\ SchedTypeOK' /\ RunQueueExact' /\ SleepersWaitForSomething'
        /\ \A r \in Proc : /\ state'[r] = IF r \in W THEN "RUNNABLE" ELSE state[r]
                           /\ wait_state'[r] = IF r \in W THEN "NONE" ELSE wait_state[r]
    <3>1. W \in SUBSET Proc /\ WakeupProcs(W) BY <1>2, <1>4, <2>1
    <3> HIDE DEF W
    <3> QED BY <1>1, <2>2, <3>1, WakeAll DEF StdinInv, TypeOK
  <2> HIDE DEF W
  <2>4. exiting' \in [Proc -> BOOLEAN] BY <1>2, <1>4 DEF StdinInv, TypeOK
  <2>5. TypeOK' BY <1>1, <2>3, <2>4 DEF StdinInv, TypeOK, ringVars, waitVars
  <2>6. p \notin ToSet(wait_queue) /\ state[p] = "RUNNABLE"
    BY <1>1, Queue DEF StdinInv, PointsMatchWaits
  <2>7. PointsMatchWaits'
    <3>1. \A r \in W : r \in ToSet(wait_queue) /\ pc[r] \in {"read_sched", "read_ret"} /\ r \in Proc
      BY <2>1, <2>2 DEF StdinInv, PointsMatchWaits
    <3> QED BY <1>1, <2>3, <2>6, <3>1 DEF StdinInv, TypeOK, PointsMatchWaits, waitVars
  <2>8. NoReaderMissesInput'
    BY <1>1, <2>3 DEF StdinInv, NoReaderMissesInput, User, ringVars
  <2> QED BY <1>1, <2>3, <2>5, <2>7, <2>8 DEF StdinInv, RingBounded, ringVars, waitVars
<1> QED BY <1>3, <1>4

LEMMA TrapExitKeeps ==
  ASSUME StdinInv, NEW p \in User, TrapExit(p)
  PROVE  StdinInv'
<1>1. /\ current = p /\ pc[p] \in {"user", "sys_ret"} /\ p \in Proc /\ p # Idle
      /\ state' = [state EXCEPT ![p] = "ZOMBIE"] /\ pc' = [pc EXCEPT ![p] = "exit_sched"]
      /\ UNCHANGED <<current, wait_state, queued, need_resched, exiting, ringVars, waitVars, todo, typed>>
  BY DEF TrapExit, Goto, Quiet, User
<1>2. p \notin ToSet(wait_queue) /\ state[p] = "RUNNABLE" /\ wait_state[p] = "NONE"
  BY <1>1, Queue DEF StdinInv, PointsMatchWaits, SleepersWaitForSomething
<1>3. TypeOK' BY <1>1 DEF StdinInv, TypeOK, SchedTypeOK, PState, ringVars, waitVars
<1>4. PointsMatchWaits'
  BY <1>1, <1>2 DEF StdinInv, TypeOK, SchedTypeOK, PointsMatchWaits, waitVars
<1>5. RunQueueExact' /\ SleepersWaitForSomething'
  BY <1>1, <1>2 DEF StdinInv, TypeOK, SchedTypeOK, RunQueueExact, SleepersWaitForSomething
<1> QED BY <1>1, <1>3, <1>4, <1>5
    DEF StdinInv, NoReaderMissesInput, RingBounded, ringVars, waitVars

\* schedule(), from whatever point
LEMMA ScheduleKeeps ==
  ASSUME StdinInv, NEW next \in Proc, SwitchTo(next),
         UNCHANGED <<ringVars, waitVars, todo, typed, exiting>>,
         \/ current = Idle /\ pc' = pc
         \/ pc[current] = "user" /\ pc' = pc
         \/ pc[current] = "read_sched" /\ pc' = [pc EXCEPT ![current] = "read_ret"]
         \/ pc[current] = "exit_sched" /\ pc' = [pc EXCEPT ![current] = "exited"]
  PROVE  StdinInv'
<1>1. current \in Proc /\ pc[Idle] = "idle"
  BY IdleAssumption DEF StdinInv, TypeOK, SchedTypeOK, PointsMatchWaits
<1>2. state[Idle] = "RUNNABLE"
  <2>1. Idle \notin ToSet(wait_queue) BY <1>1, Queue
  <2>2. wait_state[Idle] = "NONE" BY <2>1, IdleAssumption DEF StdinInv, PointsMatchWaits
  <2> QED BY <1>1, <2>2, IdleAssumption
      DEF StdinInv, TypeOK, SchedTypeOK, PState, PointsMatchWaits, SleepersWaitForSomething
<1>3. /\ SchedTypeOK' /\ RunQueueExact' /\ SleepersWaitForSomething'
      /\ current' = next /\ state'[next] = "RUNNABLE" /\ UNCHANGED <<state, wait_state>>
  BY <1>2, SwitchKeeps DEF StdinInv, TypeOK
<1>4. TypeOK' BY <1>3 DEF StdinInv, TypeOK, ringVars, waitVars
<1>5. PointsMatchWaits'
  BY <1>1, <1>3 DEF StdinInv, TypeOK, PointsMatchWaits, waitVars
<1> QED BY <1>3, <1>4, <1>5
    DEF StdinInv, NoReaderMissesInput, RingBounded, ringVars, waitVars

LEMMA StepKeeps == StdinInv /\ [Next]_vars => StdinInv'
<1> SUFFICES ASSUME StdinInv, [Next]_vars PROVE StdinInv' OBVIOUS
<1>1. CASE KeyInterrupt BY <1>1, KeyKeeps
<1>2. ASSUME UNCHANGED <<current, state, wait_state, queued, pc, exiting, ringVars, waitVars, todo, typed>>,
             need_resched' \in [Proc -> BOOLEAN]
      PROVE  StdinInv'
  BY <1>2
     DEF StdinInv, TypeOK, SchedTypeOK, RingBounded, RunQueueExact,
         SleepersWaitForSomething,
     PointsMatchWaits, NoReaderMissesInput, ringVars, waitVars
<1>3. CASE IdleTick
  <2>1. need_resched' \in [Proc -> BOOLEAN]
    BY <1>3 DEF IdleTick, ProcTick, StdinInv, TypeOK, SchedTypeOK
  <2> QED BY <1>2, <1>3, <2>1 DEF IdleTick, Quiet
<1>4. ASSUME NEW p \in User, SysRead(p) PROVE StdinInv' BY <1>4, SysReadKeeps
<1>5. ASSUME NEW p \in User, SysKill(p) PROVE StdinInv' BY <1>5, SysKillKeeps
<1>6. ASSUME NEW p \in User, KernelStep(p) PROVE StdinInv'
  <2>1. CASE TrapReturn(p)
    <3>1. exiting' \in [Proc -> BOOLEAN] BY <2>1 DEF TrapReturn, StdinInv, TypeOK
    <3> QED BY <2>1, <3>1, MoveKeeps DEF TrapReturn, At, Goto, Quiet
  <2> QED BY <1>6, <2>1, ReadReturnKeeps, TrapExitKeeps DEF KernelStep
<1>7. ASSUME NEW p \in User, NEW next \in Proc, Switch(p, next) PROVE StdinInv'
  <2>1. /\ current = p /\ SwitchTo(next) /\ UNCHANGED <<exiting, ringVars, waitVars, todo, typed>>
        /\ \/ pc[p] = "user" /\ pc' = [pc EXCEPT ![p] = "user"]
           \/ pc[p] = "read_sched" /\ pc' = [pc EXCEPT ![p] = "read_ret"]
           \/ pc[p] = "exit_sched" /\ pc' = [pc EXCEPT ![p] = "exited"]
    <3>1. /\ DOMAIN ResumeAt = {"read_sched", "exit_sched", "user"}
          /\ ResumeAt.read_sched = "read_ret" /\ ResumeAt.exit_sched = "exited"
          /\ ResumeAt.user = "user"
      BY DEF ResumeAt
    <3>2. /\ current = p /\ SwitchTo(next) /\ pc[p] \in DOMAIN ResumeAt
          /\ pc' = [pc EXCEPT ![p] = ResumeAt[pc[p]]]
          /\ UNCHANGED <<exiting, ringVars, waitVars, todo, typed>>
      BY <1>7 DEF Switch, Goto, Quiet
    <3>3. pc[p] = "user" \/ pc[p] = "read_sched" \/ pc[p] = "exit_sched" BY <3>1, <3>2
    <3> QED BY <3>1, <3>2, <3>3
  <2>2. pc[p] = "user" => [pc EXCEPT ![p] = "user"] = pc BY DEF StdinInv, TypeOK
  <2> QED BY <2>1, <2>2, ScheduleKeeps
<1>8. ASSUME NEW next \in Proc, IdleSchedule(next) PROVE StdinInv'
  BY <1>8, ScheduleKeeps DEF IdleSchedule, At, Quiet
<1>9. CASE UNCHANGED vars
  <2>1. need_resched' \in [Proc -> BOOLEAN]
    BY <1>9 DEF vars, schedVars, StdinInv, TypeOK, SchedTypeOK
  <2> QED BY <1>2, <1>9, <2>1 DEF vars, schedVars
<1> QED BY <1>1, <1>3, <1>4, <1>5, <1>6, <1>7, <1>8, <1>9 DEF Next

LEMMA Invariant == Spec => []StdinInv
BY InitEstablishes, StepKeeps, PTL DEF Spec

\* Whoever found the ring empty is woken by the key that fills it (dev_stdin_write,
\* dev_stdin_read).
THEOREM InputNotMissed == Spec => []NoReaderMissesInput
BY Invariant, PTL DEF StdinInv

\* Only processes inside dev_stdin_read have their wait_t on the queue, each once, also
\* when they are killed in their sleep.
THEOREM WaitsSafe == Spec => []WaitsHaveFrames
<1>1. StdinInv => WaitsHaveFrames
  BY Queue DEF StdinInv, WaitsHaveFrames
<1> QED BY <1>1, Invariant, PTL

----------------------------------------------------------------------------
(* The ring implements the queue of StdinSpec                              *)

LEMMA Division ==
  ASSUME NEW n \in Nat \ {0}, NEW a \in Nat
  PROVE  a \div n \in Nat /\ a % n \in 0 .. n - 1 /\ a = n * (a \div n) + (a % n)
BY SMT

LEMMA Multiple ==
  ASSUME NEW n \in Nat \ {0}, NEW x \in Int, NEW d \in Int, n * x = d, d > 0
  PROVE  d >= n
<1>1. x > 0 BY SMT
<1>2. n * x >= n BY <1>1, SMT
<1> QED BY <1>2

\* Two counters less than a ring apart have slots of their own.
LEMMA SlotsApart ==
  ASSUME NEW n \in Nat \ {0}, NEW a \in Nat, NEW b \in Nat, a < b, b - a < n
  PROVE  a % n # b % n
<1>1. PICK x \in Nat : a = n * x + (a % n) BY Division
<1>2. PICK y \in Nat : b = n * y + (b % n) BY Division
<1>3. SUFFICES ASSUME a % n = b % n PROVE FALSE OBVIOUS
<1>4. a % n \in Int /\ b % n \in Int BY Division
<1>5. n * y - n * x = b - a BY <1>1, <1>2, <1>3, <1>4
<1>6. n * (y - x) = b - a BY <1>5, SMT
<1> QED BY <1>6, Multiple

\* Two counters a whole ring apart share theirs.
LEMMA SlotsMeet ==
  ASSUME NEW n \in Nat \ {0}, NEW a \in Nat
  PROVE  (a + n) % n = a % n
<1>1. PICK b \in Nat : b = a + n OBVIOUS
<1>2. PICK x \in Nat : a = n * x + (a % n) BY Division
<1>3. PICK y \in Nat : b = n * y + (b % n) BY Division
<1>4. a % n \in 0 .. n - 1 /\ b % n \in 0 .. n - 1 BY Division
<1>5. PICK s \in 0 .. n - 1, t \in 0 .. n - 1 : s = a % n /\ t = b % n BY <1>4
<1>6. n * y - n * x - n = s - t
  <2>1. PICK u \in Int, v \in Int : u = n * x /\ v = n * y OBVIOUS
  <2>2. a = u + s BY <1>2, <1>5, <2>1
  <2>3. b = v + t BY <1>3, <1>5, <2>1
  <2>4. v - u - n = s - t BY <1>1, <2>2, <2>3
  <2> QED BY <2>1, <2>4
<1>7. n * (y - x - 1) = s - t /\ n * (x + 1 - y) = t - s BY <1>6, SMT
<1>8. ~(s - t > 0) BY <1>7, Multiple
<1>9. ~(t - s > 0) BY <1>7, Multiple
<1> QED BY <1>1, <1>5, <1>8, <1>9

\* The slot of the i-th character that waits to be read
Slot(i) == (p_rpos + i - 1) % STDIN_BUFSIZE

InputInRing ==
  /\ Input \in Seq(Nat) /\ Len(Input) = p_wpos - p_rpos
  /\ \A i \in 1 .. p_wpos - p_rpos :
       Slot(i) \in 0 .. STDIN_BUFSIZE - 1 /\ Input[i] = stdin_buffer[Slot(i)]

LEMMA InputIs == StdinInv => InputInRing
<1> SUFFICES ASSUME StdinInv PROVE InputInRing OBVIOUS
<1>1. PICK n \in Nat : n = p_wpos - p_rpos BY DEF StdinInv, TypeOK, RingBounded
<1>2. \A i \in 1 .. n : Slot(i) \in 0 .. STDIN_BUFSIZE - 1
  BY StdinAssumption, Division DEF StdinInv, TypeOK, Slot
<1>3. \A i \in 1 .. n : stdin_buffer[Slot(i)] \in Nat BY <1>2 DEF StdinInv, TypeOK
<1>4. Input = [i \in 1 .. n |-> stdin_buffer[Slot(i)]] BY <1>1 DEF Input, Slot
<1>5. Input \in [1 .. n -> Nat] BY <1>3, <1>4
<1>6. Input \in Seq(Nat) /\ DOMAIN Input = 1 .. n BY <1>1, <1>5, SeqDef
<1>7. Len(Input) = n BY <1>1, <1>6, LenProperties
<1> QED BY <1>1, <1>2, <1>4, <1>6, <1>7 DEF InputInRing

\* A character that is typed goes to the end of the queue, or, when the ring is full,
\* takes the place of the oldest one.
LEMMA KeyTypes ==
  ASSUME StdinInv, KeyInterrupt
  PROVE  Contract!SpecNext
<1>1. /\ stdin_buffer' = [stdin_buffer EXCEPT ![p_wpos % STDIN_BUFSIZE] = typed + 1]
      /\ p_wpos' = IF p_wpos - p_rpos < STDIN_BUFSIZE THEN p_wpos + 1 ELSE p_wpos
      /\ p_rpos' = p_rpos /\ delivered' = <<>> /\ typed + 1 \in Char
  BY StdinAssumption DEF KeyInterrupt, Advance, StdinInv, TypeOK, Char
<1>2. PICK c \in Nat : c = typed + 1 BY DEF StdinInv, TypeOK
<1>3. PICK n \in Nat : n = p_wpos - p_rpos /\ n <= STDIN_BUFSIZE
  BY DEF StdinInv, TypeOK, RingBounded
<1>4. PICK m \in Nat : m = p_wpos' - p_rpos' /\ m = IF n < STDIN_BUFSIZE THEN n + 1 ELSE n
  BY <1>1, <1>3 DEF StdinInv, TypeOK
<1>5. PICK old \in Seq(Nat) :
        /\ old = Input /\ Len(old) = n
        /\ \A i \in 1 .. n :
             Slot(i) \in 0 .. STDIN_BUFSIZE - 1 /\ old[i] = stdin_buffer[Slot(i)]
  BY <1>3, InputIs DEF InputInRing
<1>6. PICK new \in Seq(Nat) :
        /\ new = Input' /\ Len(new) = m
        /\ \A i \in 1 .. m : new[i] = stdin_buffer'[Slot(i)]
  <2>1. StdinInv' BY KeyKeeps
  <2>2. /\ Input' \in Seq(Nat) /\ Len(Input') = p_wpos' - p_rpos'
        /\ \A i \in 1 .. p_wpos' - p_rpos' : (Input')[i] = stdin_buffer'[Slot(i)']
    <3>1. InputInRing' BY <2>1, InputIs, PTL
    <3> QED BY <3>1 DEF InputInRing
  <2>3. \A i : Slot(i)' = Slot(i) BY <1>1 DEF Slot
  <2> QED BY <1>4, <2>2, <2>3
<1>7. p_rpos \in Nat /\ p_wpos \in Nat /\ STDIN_BUFSIZE \in Nat \ {0}
  BY StdinAssumption DEF StdinInv, TypeOK
<1>8. /\ p_wpos % STDIN_BUFSIZE \in 0 .. STDIN_BUFSIZE - 1
      /\ stdin_buffer'[p_wpos % STDIN_BUFSIZE] = c
  BY <1>1, <1>2, <1>7, Division DEF StdinInv, TypeOK
<1>9. ASSUME NEW i \in 1 .. n, n - i + 1 < STDIN_BUFSIZE
      PROVE  stdin_buffer'[Slot(i)] = old[i]
  <2>1. p_rpos + i - 1 \in Nat /\ p_rpos + i - 1 < p_wpos
        /\ p_wpos - (p_rpos + i - 1) < STDIN_BUFSIZE
    BY <1>3, <1>7, <1>9
  <2>2. Slot(i) # p_wpos % STDIN_BUFSIZE BY <1>7, <2>1, SlotsApart DEF Slot
  <2> QED BY <1>1, <1>5, <2>2 DEF StdinInv, TypeOK
<1>10. CASE n < STDIN_BUFSIZE
  <2>1. m = n + 1 BY <1>4, <1>10
  <2>2. Slot(n + 1) = p_wpos % STDIN_BUFSIZE BY <1>3, <1>7 DEF Slot
  <2>3. ASSUME NEW i \in 1 .. n PROVE new[i] = old[i]
    <3>1. n - i + 1 < STDIN_BUFSIZE BY <1>3, <1>7, <1>10
    <3>2. i \in 1 .. m BY <1>3, <2>1
    <3> QED BY <1>6, <1>9, <3>1, <3>2
  <2>4. new[n + 1] = c BY <1>3, <1>6, <1>8, <2>1, <2>2
  <2>5. /\ Append(old, c) \in Seq(Nat) /\ Len(Append(old, c)) = n + 1
        /\ \A i \in 1 .. n : Append(old, c)[i] = old[i]
        /\ Append(old, c)[n + 1] = c
    BY <1>5, AppendProperties
  <2>6. new = Append(old, c)
    <3>1. \A i \in 1 .. n + 1 : new[i] = Append(old, c)[i] BY <1>3, <2>3, <2>4, <2>5
    <3> QED BY <1>6, <2>1, <2>5, <3>1, SeqEqual
  <2>7. Len(Input) < STDIN_BUFSIZE /\ Input' = Append(Input, c) BY <1>5, <1>6, <1>10, <2>6
  <2>8. Contract!Type(c) BY <1>1, <2>7 DEF Contract!Type
  <2> QED BY <1>1, <1>2, <2>8 DEF Contract!SpecNext
<1>11. CASE n = STDIN_BUFSIZE
  <2>1. m = n /\ n >= 1 BY <1>4, <1>7, <1>11
  <2>2. Slot(1) = p_wpos % STDIN_BUFSIZE
    <3>1. p_wpos = p_rpos + STDIN_BUFSIZE /\ p_rpos + 1 - 1 = p_rpos BY <1>3, <1>7, <1>11
    <3> QED BY <1>7, <3>1, SlotsMeet DEF Slot
  <2>3. ASSUME NEW i \in 1 .. n, i # 1 PROVE new[i] = old[i]
    <3>1. n - i + 1 < STDIN_BUFSIZE BY <1>3, <1>7, <1>11, <2>3
    <3> QED BY <1>6, <1>9, <2>1, <3>1
  <2>4. new[1] = c BY <1>6, <1>8, <2>1, <2>2
  <2>5. /\ Tail(old) \in Seq(Nat) /\ Len(Tail(old)) = n - 1
        /\ \A i \in 1 .. n - 1 : Tail(old)[i] = old[i + 1]
    BY <1>5, <2>1, HeadTailProperties, EmptySeq
  <2>6. <<c>> \in Seq(Nat) /\ Len(<<c>>) = 1 /\ <<c>>[1] = c OBVIOUS
  <2> DEFINE t == <<c>> \o Tail(old)
  <2>7. /\ t \in Seq(Nat) /\ Len(t) = n
        /\ \A i \in 1 .. n : t[i] = IF i <= 1 THEN c ELSE Tail(old)[i - 1]
    BY <1>3, <2>1, <2>5, <2>6, ConcatProperties
  <2> HIDE DEF t
  <2>8. new = t
    <3>1. ASSUME NEW i \in 1 .. n PROVE new[i] = t[i]
      <4>1. CASE i = 1 BY <2>4, <2>7, <4>1
      <4>2. CASE i # 1
        <5>1. ~(i <= 1) /\ i - 1 \in 1 .. n - 1 /\ (i - 1) + 1 = i BY <1>3, <4>2
        <5>2. t[i] = Tail(old)[i - 1] BY <2>7, <5>1
        <5>3. t[i] = old[i] BY <2>5, <5>1, <5>2
        <5> QED BY <2>3, <4>2, <5>3
      <4> QED BY <4>1, <4>2
    <3> QED BY <1>6, <2>1, <2>7, <3>1, SeqEqual
  <2>9. ~(Len(Input) < STDIN_BUFSIZE) BY <1>5, <1>7, <1>11
  <2>10. Input' = <<c>> \o Tail(Input) BY <1>5, <1>6, <2>8 DEF t
  <2>11. Contract!Type(c) BY <1>1, <2>9, <2>10 DEF Contract!Type
  <2> QED BY <1>1, <1>2, <2>11 DEF Contract!SpecNext
<1> QED BY <1>3, <1>7, <1>10, <1>11

\* A read takes the characters from the front.
LEMMA LoopReads ==
  ASSUME StdinInv, StdinInv', NEW p \in User, NEW len \in Nat, NEW queue,
         ReadLoop(p, len, queue)
  PROVE  Contract!SpecNext
<1>1. PICK k \in Nat : k = Available(len) /\ k <= p_wpos - p_rpos
  BY Taken DEF StdinInv
<1>2. /\ delivered' = [j \in 1 .. k |-> stdin_buffer[Slot(j)]]
      /\ p_rpos' = p_rpos + k /\ UNCHANGED <<stdin_buffer, p_wpos>>
  BY <1>1 DEF ReadLoop, Slot
<1>3. PICK n \in Nat : n = p_wpos - p_rpos BY DEF StdinInv, TypeOK, RingBounded
<1>4. PICK old \in Seq(Nat) :
        old = Input /\ Len(old) = n /\ \A i \in 1 .. n : old[i] = stdin_buffer[Slot(i)]
  BY <1>3, InputIs DEF InputInRing
<1>5. PICK new \in Seq(Nat) :
        /\ new = Input' /\ Len(new) = n - k
        /\ \A i \in 1 .. n - k : new[i] = stdin_buffer[Slot(k + i)]
  <2>1. /\ Input' \in Seq(Nat) /\ Len(Input') = p_wpos' - p_rpos'
        /\ \A i \in 1 .. p_wpos' - p_rpos' : (Input')[i] = stdin_buffer'[Slot(i)']
    <3>1. InputInRing' BY InputIs, PTL
    <3> QED BY <3>1 DEF InputInRing
  <2>2. p_wpos' - p_rpos' = n - k BY <1>1, <1>2, <1>3 DEF StdinInv, TypeOK
  <2>3. ASSUME NEW i \in Nat PROVE Slot(i)' = Slot(k + i)
    <3>1. p_rpos' + i - 1 = p_rpos + (k + i) - 1 BY <1>2 DEF StdinInv, TypeOK
    <3> QED BY <3>1 DEF Slot
  <2>4. \A i \in Nat : Slot(i)' = Slot(k + i) BY <2>3
  <2>5. \A i \in 1 .. n - k : i \in Nat BY <1>3
  <2>6. \A i \in 1 .. n - k : (Input')[i] = stdin_buffer[Slot(i)'] BY <1>2, <2>1, <2>2
  <2>7. \A i \in 1 .. n - k : (Input')[i] = stdin_buffer[Slot(k + i)] BY <2>4, <2>5, <2>6
  <2> QED BY <2>1, <2>2, <2>7
<1>6. \A i \in 1 .. n : old[i] \in Nat BY <1>4, ElementOfSeq
<1>7. delivered' = SubSeq(old, 1, k)
  <2>1. /\ SubSeq(old, 1, k) \in Seq(Nat)
        /\ Len(SubSeq(old, 1, k)) = IF 1 <= k THEN k - 1 + 1 ELSE 0
        /\ \A i \in 1 .. k - 1 + 1 : SubSeq(old, 1, k)[i] = old[1 + i - 1]
    <3>1. \A i \in 1 .. k : i \in 1 .. n BY <1>1, <1>3
    <3>2. \A i \in 1 .. k : old[i] \in Nat BY <1>6, <3>1
    <3> QED BY <3>2, SubSeqProperties
  <2>2. \A i \in 1 .. k : stdin_buffer[Slot(i)] = old[i] BY <1>1, <1>3, <1>4
  <2>3. delivered' \in [1 .. k -> Nat] BY <1>1, <1>2, <1>3, <1>6, <2>2
  <2>4. delivered' \in Seq(Nat) /\ Len(delivered') = k BY <1>2, <2>3, SeqDef, LenProperties
  <2>5. Len(SubSeq(old, 1, k)) = k /\ \A i \in 1 .. k : (delivered')[i] = SubSeq(old, 1, k)[i]
    BY <1>1, <1>2, <2>1, <2>2
  <2> QED BY <2>1, <2>4, <2>5, SeqEqual
<1>8. new = SubSeq(old, k + 1, n)
  <2>1. /\ SubSeq(old, k + 1, n) \in Seq(Nat)
        /\ Len(SubSeq(old, k + 1, n)) = IF k + 1 <= n THEN n - (k + 1) + 1 ELSE 0
        /\ \A i \in 1 .. n - (k + 1) + 1 : SubSeq(old, k + 1, n)[i] = old[(k + 1) + i - 1]
    <3>1. k + 1 \in Int /\ n \in Int /\ \A i \in k + 1 .. n : i \in 1 .. n OBVIOUS
    <3>2. \A i \in k + 1 .. n : old[i] \in Nat BY <1>6, <3>1
    <3> QED BY <3>1, <3>2, SubSeqProperties
  <2>2. Len(SubSeq(old, k + 1, n)) = n - k BY <1>1, <1>3, <2>1
  <2>3. ASSUME NEW i \in 1 .. n - k PROVE new[i] = SubSeq(old, k + 1, n)[i]
    <3>1. /\ k + i \in 1 .. n /\ i \in 1 .. n - (k + 1) + 1
          /\ (k + 1) + i - 1 = k + i
      BY <1>1, <1>3
    <3> QED BY <1>4, <1>5, <2>1, <3>1
  <2> QED BY <1>5, <2>1, <2>2, <2>3, SeqEqual
<1>9. k \in 0 .. Len(old) BY <1>1, <1>3, <1>4
<1>10. Contract!Read(k) BY <1>4, <1>5, <1>7, <1>8 DEF Contract!Read
<1> QED BY <1>4, <1>9, <1>10 DEF Contract!SpecNext

\* Every other step reads nothing.
LEMMA NothingRead ==
  ASSUME StdinInv, UNCHANGED ringVars, delivered' = <<>>
  PROVE  Contract!SpecNext
<1>1. Input' = Input BY DEF Input, ringVars
<1>2. PICK s \in Seq(Nat) : s = Input BY InputIs DEF InputInRing
<1>3. SubSeq(s, 1, 0) = <<>> /\ SubSeq(s, 0 + 1, Len(s)) = s
  <2>1. Len(s) \in Nat /\ \A i \in 1 .. Len(s) : s[i] \in Nat BY LenProperties, ElementOfSeq
  <2>2. /\ SubSeq(s, 1, 0) \in Seq(Nat)
        /\ Len(SubSeq(s, 1, 0)) = IF 1 <= 0 THEN 0 - 1 + 1 ELSE 0
    BY <2>1, SubSeqProperties
  <2>3. /\ SubSeq(s, 1, Len(s)) \in Seq(Nat)
        /\ Len(SubSeq(s, 1, Len(s))) = IF 1 <= Len(s) THEN Len(s) - 1 + 1 ELSE 0
        /\ \A i \in 1 .. Len(s) - 1 + 1 : SubSeq(s, 1, Len(s))[i] = s[1 + i - 1]
    BY <2>1, SubSeqProperties
  <2>4. SubSeq(s, 1, Len(s)) = s BY <2>1, <2>3, SeqEqual
  <2> QED BY <2>2, <2>4, EmptySeq
<1>4. 0 \in 0 .. Len(s) BY LenProperties
<1>5. Contract!Read(0) BY <1>1, <1>2, <1>3 DEF Contract!Read
<1> QED BY <1>2, <1>4, <1>5 DEF Contract!SpecNext

LEMMA StepRefines ==
  StdinInv /\ StdinInv' /\ [Next]_vars => [Contract!SpecNext]_<<Input, delivered>>
<1> SUFFICES ASSUME StdinInv, StdinInv', [Next]_vars
             PROVE  [Contract!SpecNext]_<<Input, delivered>>
  OBVIOUS
<1>1. CASE KeyInterrupt BY <1>1, KeyTypes
<1>2. CASE IdleTick BY <1>2, NothingRead DEF IdleTick, Quiet
<1>3. ASSUME NEW p \in User, SysRead(p) PROVE Contract!SpecNext
  <2>1. PICK len \in Nat : ReadLoop(p, len, wait_queue) BY <1>3, StdinAssumption DEF SysRead
  <2> QED BY <2>1, LoopReads
<1>4. ASSUME NEW p \in User, SysKill(p) PROVE Contract!SpecNext
  BY <1>4, NothingRead DEF SysKill, Quiet
<1>5. ASSUME NEW p \in User, KernelStep(p) PROVE Contract!SpecNext
  <2>1. CASE ReadReturn(p)
    <3>1. CASE ReadLoop(p, todo[p], WithoutSelf(p))
      <4>1. PICK len \in Nat : len = todo[p] BY DEF User, StdinInv, TypeOK
      <4> QED BY <3>1, <4>1, LoopReads
    <3>2. CASE ReadAborted(p) BY <3>2, NothingRead DEF ReadAborted
    <3> QED BY <2>1, <3>1, <3>2 DEF ReadReturn
  <2>2. CASE TrapExit(p) \/ TrapReturn(p)
    BY <2>2, NothingRead DEF TrapExit, TrapReturn, Quiet
  <2> QED BY <1>5, <2>1, <2>2 DEF KernelStep
<1>6. ASSUME NEW p \in User, NEW next \in Proc, Switch(p, next) PROVE Contract!SpecNext
  BY <1>6, NothingRead DEF Switch, Quiet
<1>7. ASSUME NEW next \in Proc, IdleSchedule(next) PROVE Contract!SpecNext
  BY <1>7, NothingRead DEF IdleSchedule, Quiet
<1>8. CASE UNCHANGED vars BY <1>8 DEF vars, ringVars, Input
<1> QED BY <1>1, <1>2, <1>3, <1>4, <1>5, <1>6, <1>7, <1>8 DEF Next

\* dev_stdin_write and dev_stdin_read together are the queue of characters of StdinSpec:
\* what is typed is read once and in order, and only a full ring loses a character.
THEOREM RingImplementsQueue == Spec => RingIsQueue
<1>1. Init => Contract!SpecInit
  <2> SUFFICES ASSUME Init PROVE Contract!SpecInit OBVIOUS
  <2>1. Input \in Seq(Nat) /\ Len(Input) = 0
    BY InitEstablishes, InputIs DEF InputInRing, Init
  <2> QED BY <2>1, EmptySeq DEF Init, Contract!SpecInit
<1> QED BY <1>1, StepRefines, Invariant, PTL DEF Spec, RingIsQueue, Contract!StdinSpec

=============================================================================
