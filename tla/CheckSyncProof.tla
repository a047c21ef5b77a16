--------------------------- MODULE CheckSyncProof ---------------------------
(***************************************************************************)
(* Proofs about the dining philosophers of CheckSync, for any number of    *)
(* philosophers and meals: two neighbours never have their forks at the    *)
(* same time. SemProof has what the semaphores do; here is how the         *)
(* philosophers use theirs.                                                *)
(***************************************************************************)
EXTENDS CheckSync, SemProof

Down(i) == pc[i] \in {"down_sched", "down_ret"}

\* Between declaring itself hungry and the end of down(&s[i])
Trying(i) == pc[i] \in {"test_self", "taken", "wait_forks"} \/ (Down(i) /\ then[i] = "eat")

\* A philosopher waits for the mutex or for its own forks, and for nobody else's.
WaitsRight(i) ==
  /\ Down(i) => \/ then[i] = "eat" /\ waits_on[i] = i
                \/ then[i] \in {"hungry", "put_down"} /\ waits_on[i] = mutex
  /\ pc[i] \in {"sleep_sched", "sleep_ret"} => then[i] \in {"take", "put"}

\* What it has declared agrees with where it is. EATING while it still tries means
\* that a neighbour's phi_test_sema, or its own, has given it the forks.
DeclaresRight(i) ==
  /\ state_sema[i] = "THINKING" <=> ~Trying(i) /\ ~HasForks(i)
  /\ state_sema[i] = "HUNGRY" => Trying(i)

\* Its semaphore has the unit that lets it eat, or has passed it on, only if it has
\* been declared to be EATING and has not started yet, and there is only one.
UnitForEating(i) ==
  /\ value[i] \in {0, 1}
  /\ value[i] = 1 => state_sema[i] = "EATING" /\ Trying(i)
  /\ Down(i) /\ waits_on[i] = i /\ wakeup_flags[i] = "WT_KSEM" =>
       state_sema[i] = "EATING" /\ value[i] = 0

PhilosopherInv(i) == WaitsRight(i) /\ DeclaresRight(i) /\ UnitForEating(i)

\* The inductive invariant
SyncInv ==
  /\ SemInv
  /\ state_sema \in [Philosopher -> {"THINKING", "HUNGRY", "EATING"}]
  /\ \A i \in Philosopher : PhilosopherInv(i)
  /\ \A i \in Philosopher : ~(state_sema[i] = "EATING" /\ state_sema[RIGHT(i)] = "EATING")

----------------------------------------------------------------------------
LEMMA Ring ==
  ASSUME NEW i \in Philosopher
  PROVE  /\ LEFT(i) \in Philosopher /\ RIGHT(i) \in Philosopher /\ RIGHT(i) # i
         /\ LEFT(RIGHT(i)) = i /\ RIGHT(LEFT(i)) = i
BY PhilosopherAssumption, SMT DEF LEFT, RIGHT, Philosopher

LEMMA Threads ==
  /\ mutex \in Semaphore /\ mutex \notin Philosopher
  /\ Philosopher \subseteq Proc /\ Philosopher \subseteq Semaphore
  /\ Proc \ {Idle} \subseteq Philosopher
BY PhilosopherAssumption, ThreadAssumption, SMT DEF Philosopher, mutex

LEMMA SyncInit == Init => SyncInv
<1> SUFFICES ASSUME Init PROVE SyncInv OBVIOUS
<1> USE DEF Init, SchedInit, SemInit
<1>1. SemInv
  <2>1. "loop" \notin Reserved BY DEF Reserved
  <2>2. SchedInit(Proc \ {Idle})
    <3>1. /\ Philosopher \cup {Idle} = (Proc \ {Idle}) \cup {Idle}
          /\ Philosopher \ {Idle} = (Proc \ {Idle}) \ {Idle}
      BY ThreadAssumption
    <3> QED BY <3>1
  <2>3. [x \in Semaphore |-> IF x = mutex THEN 1 ELSE 0] \in [Semaphore -> Nat] OBVIOUS
  <2>4. SemInit([x \in Semaphore |-> IF x = mutex THEN 1 ELSE 0]) OBVIOUS
  <2>5. Semaphore # {} BY Threads
  <2>6. DOMAIN then = Proc /\ \A p \in Proc : then[p] \notin Reserved BY <2>1
  <2>7. pc = [p \in Proc |-> IF p = Idle THEN "idle" ELSE "loop"] OBVIOUS
  <2> HIDE DEF Init, SchedInit, SemInit
  <2> QED BY <2>1, <2>2, <2>3, <2>4, <2>5, <2>6, <2>7, IdleAssumption, SemInitEstablishes
<1>2. ASSUME NEW i \in Philosopher PROVE PhilosopherInv(i)
  BY Threads
     DEF PhilosopherInv, WaitsRight, DeclaresRight, UnitForEating, Trying, HasForks, Down
<1> QED BY <1>1, <1>2, Ring DEF SyncInv

----------------------------------------------------------------------------
\* What concerns philosopher q is unchanged, but that it may have been given the mutex.
Unmoved(q) ==
  /\ pc'[q] = pc[q] /\ then'[q] = then[q] /\ waits_on'[q] = waits_on[q]
  /\ value'[q] = value[q] /\ state_sema'[q] = state_sema[q]
  /\ wakeup_flags'[q] = wakeup_flags[q] \/ (Down(q) /\ waits_on[q] = mutex)

LEMMA UnmovedKeeps ==
  ASSUME NEW q \in Philosopher, PhilosopherInv(q), Unmoved(q)
  PROVE  PhilosopherInv(q)'
BY Threads
   DEF PhilosopherInv, WaitsRight, DeclaresRight, UnitForEating, Trying, HasForks, Down,
   Unmoved

\* What concerns q is unchanged, but that it is now at loc.
MovedTo(q, loc) ==
  /\ pc'[q] = loc
  /\ then'[q] = then[q] /\ waits_on'[q] = waits_on[q] /\ wakeup_flags'[q] = wakeup_flags[q]
  /\ value'[q] = value[q]

\* A philosopher at a point of its own has the CPU, and is in no call.
LEMMA Acting ==
  ASSUME SyncInv, NEW i \in Philosopher, NEW loc, At(i, loc), loc \notin Reserved
  PROVE  /\ current = i /\ pc[i] = loc /\ pc[current] \notin Reserved /\ i \in Proc
         /\ DOMAIN pc = Proc /\ DOMAIN then = Proc /\ SemTypeOK /\ SemInv
BY Threads DEF At, SyncInv, SemInv, SemTypeOK

\* up(&mutex)
LEMMA MutexUp ==
  ASSUME SyncInv, NEW i \in Philosopher, NEW old, At(i, old), old \notin Reserved,
         NEW loc, loc \notin Reserved,
         CallUp(mutex, loc)
  PROVE  /\ SemInv' /\ MovedTo(i, loc)
         /\ state_sema' = state_sema => \A q \in Philosopher \ {i} : Unmoved(q)
<1>1. /\ current = i /\ pc[i] = old /\ i \in Proc /\ mutex \in Semaphore /\ mutex \notin Philosopher
      /\ DOMAIN pc = Proc /\ SemTypeOK /\ SemInv
  BY Acting, Threads
<1>2. SemInv' BY <1>1, UpKeeps
<1>3. /\ pc' = [pc EXCEPT ![i] = loc] /\ then' = then /\ waits_on' = waits_on /\ Up(mutex)
  BY <1>1 DEF CallUp, Goto
<1>4. /\ \A q \in Philosopher : value'[q] = value[q]
      /\ \A q \in Philosopher : wakeup_flags'[q] = wakeup_flags[q]
                                  \/ (q # i /\ Down(q) /\ waits_on[q] = mutex)
  <2>1. CASE wait_queue[mutex] = <<>> BY <1>1, <1>3, <2>1, Threads DEF Up, SemTypeOK
  <2>2. CASE wait_queue[mutex] # <<>>
    <3> DEFINE p == Head(wait_queue[mutex])
    <3>1. p \in Proc /\ waits_on[p] = mutex /\ Down(p)
      BY <1>1, <2>2, HandOver DEF Down
    <3>2. value' = value /\ wakeup_flags' = [wakeup_flags EXCEPT ![p] = "WT_KSEM"]
      BY <1>3, <2>2 DEF Up
    <3>3. p # i BY <1>1, <3>1 DEF Down, Reserved
    <3> QED BY <1>1, <3>1, <3>2, <3>3, Threads DEF SemTypeOK
  <2> QED BY <2>1, <2>2
<1>5. Philosopher \subseteq Proc BY Threads
<1>6. MovedTo(i, loc) BY <1>1, <1>3, <1>4 DEF MovedTo
<1>7. ASSUME state_sema' = state_sema, NEW q \in Philosopher \ {i} PROVE Unmoved(q)
  BY <1>1, <1>3, <1>4, <1>5, <1>7 DEF Unmoved
<1> QED BY <1>2, <1>6, <1>7

\* down(&mutex) and down(&s[i])
LEMMA DownOf ==
  ASSUME SyncInv, NEW i \in Philosopher, NEW old, At(i, old), old \notin Reserved,
         NEW loc, loc \notin Reserved,
         NEW s \in {mutex, i}, CallDown(s, loc), state_sema' = state_sema
  PROVE  /\ SemInv'
         /\ \A q \in Philosopher \ {i} : Unmoved(q)
         /\ \/ /\ value[s] > 0 /\ pc'[i] = loc /\ then'[i] = then[i]
               /\ value'[i] = IF s = i THEN value[i] - 1 ELSE value[i]
            \/ /\ value[s] = 0 /\ value'[i] = value[i]
               /\ pc'[i] = "down_sched" /\ then'[i] = loc /\ waits_on'[i] = s
               /\ wakeup_flags'[i] = "WT_INTERRUPTED"
<1>1. /\ current = i /\ pc[i] = old /\ i \in Proc /\ s \in Semaphore
      /\ DOMAIN pc = Proc /\ DOMAIN then = Proc /\ SemTypeOK /\ SemInv
      /\ Philosopher \subseteq Proc /\ Philosopher \subseteq Semaphore /\ mutex \notin Philosopher
  BY Acting, Threads
<1>2. SemInv' BY <1>1, DownKeeps, IdleAssumption
<1>3. CASE TakeUnit(s) /\ Goto(current, loc) /\ UNCHANGED then
  BY <1>1, <1>2, <1>3 DEF TakeUnit, Goto, SemTypeOK, Unmoved
<1>4. CASE Enqueue(s) /\ Goto(current, "down_sched") /\ then' = [then EXCEPT ![current] = loc]
  BY <1>1, <1>2, <1>4 DEF Enqueue, Goto, SemTypeOK, Unmoved
<1> QED BY <1>3, <1>4 DEF CallDown

\* A step that only moves the philosopher on
LEMMA GoesTo ==
  ASSUME SyncInv, NEW i \in Philosopher, NEW old, At(i, old), old \notin Reserved,
         NEW loc, loc \notin Reserved,
         Goto(i, loc), UNCHANGED <<schedVars, semVars, then>>
  PROVE  /\ SemInv' /\ MovedTo(i, loc)
         /\ state_sema' = [state_sema EXCEPT ![i] = state_sema'[i]] => \A q \in Philosopher \ {i} : Unmoved(q)
<1>1. /\ current = i /\ pc[i] = old /\ i \in Proc
      /\ DOMAIN pc = Proc /\ DOMAIN then = Proc /\ SemTypeOK /\ SemInv
      /\ Philosopher \subseteq Proc
  BY Acting, Threads
<1>2. SemInv' BY <1>1, GotoKeeps
<1>3. pc' = [pc EXCEPT ![i] = loc] BY DEF Goto
<1>4. MovedTo(i, loc) BY <1>1, <1>3 DEF MovedTo, semVars
<1>5. ASSUME state_sema' = [state_sema EXCEPT ![i] = state_sema'[i]], NEW q \in Philosopher \ {i}
      PROVE  Unmoved(q)
  BY <1>1, <1>3, <1>5 DEF Unmoved, semVars, SyncInv
<1> QED BY <1>2, <1>4, <1>5

\* do_sleep
LEMMA FallsAsleep ==
  ASSUME SyncInv, NEW i \in Philosopher, NEW old, At(i, old), old \notin Reserved,
         NEW loc, loc \notin Reserved,
         CallSleep(loc), state_sema' = state_sema
  PROVE  /\ SemInv' /\ \A q \in Philosopher \ {i} : Unmoved(q)
         /\ pc'[i] = "sleep_sched" /\ then'[i] = loc /\ value'[i] = value[i]
<1>1. /\ current = i /\ pc[i] = old /\ i \in Proc
      /\ DOMAIN pc = Proc /\ DOMAIN then = Proc /\ SemTypeOK /\ SemInv
      /\ Philosopher \subseteq Proc
  BY Acting, Threads
<1>2. SemInv' BY <1>1, SleepKeeps, IdleAssumption
<1> QED BY <1>1, <1>2 DEF CallSleep, Goto, semVars, Unmoved

\* phi_test_sema of a philosopher that may not eat changes nothing; of one that may,
\* it makes it EATING and ups its semaphore.
LEMMA TestKeeps ==
  ASSUME SyncInv, NEW i \in Philosopher, NEW old, At(i, old), old \notin Reserved,
         NEW loc, loc \notin Reserved, NEW j \in Philosopher, Test(j, loc)
  PROVE  /\ SemInv'
         /\ state_sema' \in [Philosopher -> {"THINKING", "HUNGRY", "EATING"}]
         /\ \A q \in Philosopher : ~(state_sema'[q] = "EATING" /\ state_sema'[RIGHT(q)] = "EATING")
         /\ \A q \in Philosopher \ {i, j} : Unmoved(q)
         /\ i # j => MovedTo(i, loc) /\ state_sema'[i] = state_sema[i]
         /\ i # j => PhilosopherInv(j)'
         /\ i = j => /\ pc'[i] = loc
                     /\ \/ state_sema'[i] = state_sema[i] /\ value'[i] = value[i]
                        \/ state_sema[i] = "HUNGRY" /\ state_sema'[i] = "EATING" /\ value'[i] = 1
<1>1. /\ current = i /\ pc[i] = old /\ i \in Proc /\ j \in Proc /\ j \in Semaphore
      /\ DOMAIN pc = Proc /\ DOMAIN then = Proc /\ SemTypeOK /\ SemInv
      /\ Philosopher \subseteq Proc /\ Philosopher \subseteq Semaphore /\ mutex \notin Philosopher
  BY Acting, Threads
<1>2. CASE ~MayEat(j)
  <2>1. Goto(i, loc) /\ UNCHANGED <<schedVars, semVars, then, state_sema>>
    BY <1>1, <1>2 DEF Test
  <2>2. SemInv' /\ MovedTo(i, loc) BY <2>1, GoesTo
  <2>3. state_sema' = [state_sema EXCEPT ![i] = state_sema'[i]] BY <2>1 DEF SyncInv
  <2>4. \A q \in Philosopher \ {i} : Unmoved(q) BY <2>1, <2>3, GoesTo
  <2>5. i # j => PhilosopherInv(j)' BY <2>4, UnmovedKeeps DEF SyncInv
  <2> QED BY <2>1, <2>2, <2>4, <2>5 DEF SyncInv, MovedTo
<1>3. CASE MayEat(j)
  <2>1. Declare(j, "EATING") /\ CallUp(j, loc) BY <1>3 DEF Test
  <2>2. SemInv' BY <1>1, <2>1, UpKeeps
  <2>3. /\ pc' = [pc EXCEPT ![i] = loc] /\ then' = then /\ waits_on' = waits_on /\ Up(j)
        /\ state_sema' = [state_sema EXCEPT ![j] = "EATING"]
    BY <1>1, <2>1 DEF CallUp, Goto, Declare
  <2>4. /\ state_sema[j] = "HUNGRY" /\ value[j] = 0 /\ Trying(j)
        /\ ~(Down(j) /\ waits_on[j] = j /\ wakeup_flags[j] = "WT_KSEM")
    BY <1>3 DEF MayEat, SyncInv, PhilosopherInv, UnitForEating, DeclaresRight
  <2>5. ASSUME NEW q \in Philosopher PROVE ~(state_sema'[q] = "EATING" /\ state_sema'[RIGHT(q)] = "EATING")
    <3>1. RIGHT(q) \in Philosopher /\ RIGHT(q) # q /\ LEFT(RIGHT(q)) = q BY Ring
    <3> QED BY <1>3, <2>3, <2>5, <3>1 DEF MayEat, SyncInv
  <2>6. state_sema' \in [Philosopher -> {"THINKING", "HUNGRY", "EATING"}]
    BY <2>3 DEF SyncInv
  <2>7. CASE wait_queue[j] = <<>>
    <3>1. value' = [value EXCEPT ![j] = @ + 1] /\ wakeup_flags' = wakeup_flags
      BY <2>3, <2>7 DEF Up
    <3>2. value'[j] = 1 /\ \A q \in Philosopher \ {j} : value'[q] = value[q]
      BY <1>1, <2>4, <3>1 DEF SemTypeOK
    <3>3. ASSUME NEW q \in Philosopher \ {i, j} PROVE Unmoved(q)
      BY <1>1, <2>3, <3>1, <3>2 DEF Unmoved, SyncInv
    <3>4. i # j => MovedTo(i, loc) /\ state_sema'[i] = state_sema[i]
      BY <1>1, <2>3, <3>1, <3>2 DEF MovedTo, SyncInv
    <3>5. ASSUME i # j PROVE PhilosopherInv(j)'
      <4>1. pc'[j] = pc[j] /\ state_sema'[j] = "EATING" BY <1>1, <2>3, <3>5 DEF SyncInv
      <4> QED BY <2>3, <2>4, <3>1, <3>2, <4>1
          DEF SyncInv, PhilosopherInv, WaitsRight, DeclaresRight, UnitForEating, Trying,
              HasForks, Down
    <3>6. pc'[i] = loc BY <1>1, <2>3
    <3> QED BY <2>2, <2>3, <2>4, <2>5, <2>6, <3>2, <3>3, <3>4, <3>5, <3>6 DEF SyncInv
  <2>8. CASE wait_queue[j] # <<>>
    <3> DEFINE p == Head(wait_queue[j])
    <3>1. p \in Proc /\ waits_on[p] = j /\ Down(p) /\ p # Idle
      <4>1. pc[Idle] = "idle" BY IdleAssumption DEF SyncInv, SemInv, PointsMatchWaits
      <4> QED BY <1>1, <2>8, <4>1, HandOver DEF Down
    <3>2. p \in Philosopher BY <3>1, Threads
    <3>3. p = j BY <3>1, <3>2, <1>1 DEF SyncInv, PhilosopherInv, WaitsRight
    <3>4. value' = value /\ wakeup_flags' = [wakeup_flags EXCEPT ![j] = "WT_KSEM"]
      BY <2>3, <2>8, <3>3 DEF Up
    <3>5. i # j BY <1>1, <3>1, <3>3 DEF Down, Reserved
    <3>6. ASSUME NEW q \in Philosopher \ {i, j} PROVE Unmoved(q)
      BY <1>1, <2>3, <3>4 DEF Unmoved, SyncInv, SemTypeOK
    <3>7. MovedTo(i, loc) /\ state_sema'[i] = state_sema[i]
      BY <1>1, <2>3, <3>4, <3>5 DEF MovedTo, SyncInv, SemTypeOK
    <3>8. PhilosopherInv(j)'
      <4>1. pc'[j] = pc[j] /\ state_sema'[j] = "EATING" BY <1>1, <2>3, <3>5 DEF SyncInv
      <4> QED BY <2>3, <2>4, <3>4, <4>1
          DEF SyncInv, PhilosopherInv, WaitsRight, DeclaresRight, UnitForEating, Trying,
              HasForks, Down
    <3> QED BY <2>2, <2>5, <2>6, <3>5, <3>6, <3>7, <3>8
  <2> QED BY <2>7, <2>8
<1> QED BY <1>2, <1>3

----------------------------------------------------------------------------
\* One lemma for the steps of a philosopher's own: where the others are unmoved and
\* nobody starts to eat, only the philosopher itself is to be looked at.
LEMMA Local ==
  ASSUME SyncInv, SemInv', NEW i \in Philosopher, \A q \in Philosopher \ {i} : Unmoved(q),
         state_sema' = state_sema \/ state_sema' = [state_sema EXCEPT ![i] = "HUNGRY"]
           \/ state_sema' = [state_sema EXCEPT ![i] = "THINKING"],
         PhilosopherInv(i)'
  PROVE  SyncInv'
<1>1. \A q \in Philosopher : PhilosopherInv(q)'
  <2> SUFFICES ASSUME NEW q \in Philosopher \ {i} PROVE PhilosopherInv(q)' OBVIOUS
  <2> QED BY UnmovedKeeps DEF SyncInv
<1>2. state_sema' \in [Philosopher -> {"THINKING", "HUNGRY", "EATING"}] BY DEF SyncInv
<1>3. ASSUME NEW q \in Philosopher PROVE ~(state_sema'[q] = "EATING" /\ state_sema'[RIGHT(q)] = "EATING")
  <2>1. RIGHT(q) \in Philosopher BY Ring
  <2> QED BY <2>1 DEF SyncInv
<1> QED BY <1>1, <1>2, <1>3 DEF SyncInv

LEMMA ActKeeps ==
  ASSUME SyncInv, NEW i \in Philosopher, Act(i)
  PROVE  SyncInv'
<1> USE DEF Reserved
<1>0. /\ PhilosopherInv(i) /\ mutex \notin Philosopher
      /\ state_sema \in [Philosopher -> {"THINKING", "HUNGRY", "EATING"}]
  BY Threads DEF SyncInv
<1>loop. CASE Loop(i)
  <2>1. CASE CallSleep("take")
    <3>1. At(i, "loop") /\ UNCHANGED state_sema BY <1>loop DEF Loop
    <3>2. /\ SemInv' /\ \A q \in Philosopher \ {i} : Unmoved(q)
          /\ pc'[i] = "sleep_sched" /\ then'[i] = "take" /\ value'[i] = value[i]
      BY <2>1, <3>1, FallsAsleep
    <3>3. PhilosopherInv(i)'
      BY <1>0, <3>1, <3>2
         DEF At, PhilosopherInv, WaitsRight, DeclaresRight, UnitForEating, Trying, HasForks,
             Down
    <3> QED BY <3>1, <3>2, <3>3, Local
  <2>2. CASE Goto(i, "quit") /\ UNCHANGED <<schedVars, semVars, then>>
    <3>1. At(i, "loop") /\ UNCHANGED state_sema BY <1>loop DEF Loop
    <3>2. state_sema' = [state_sema EXCEPT ![i] = state_sema'[i]] BY <1>0, <3>1
    <3>3. SemInv' /\ MovedTo(i, "quit") /\ \A q \in Philosopher \ {i} : Unmoved(q)
      BY <2>2, <3>1, <3>2, GoesTo
    <3>4. PhilosopherInv(i)'
      BY <1>0, <3>1, <3>3
         DEF At, MovedTo, PhilosopherInv, WaitsRight, DeclaresRight, UnitForEating, Trying,
             HasForks, Down
    <3> QED BY <3>1, <3>3, <3>4, Local
  <2> QED BY <1>loop, <2>1, <2>2 DEF Loop
<1>down. ASSUME NEW s \in {mutex, i}, NEW old, NEW loc, UNCHANGED state_sema,
                At(i, old), CallDown(s, loc),
                \/ old = "take" /\ s = mutex /\ loc = "hungry"
                \/ old = "wait_forks" /\ s = i /\ loc = "eat"
                \/ old = "put" /\ s = mutex /\ loc = "put_down"
         PROVE  SyncInv'
  <2>1. /\ SemInv'
        /\ \A q \in Philosopher \ {i} : Unmoved(q)
        /\ \/ /\ value[s] > 0 /\ pc'[i] = loc /\ then'[i] = then[i]
              /\ value'[i] = IF s = i THEN value[i] - 1 ELSE value[i]
           \/ /\ value[s] = 0 /\ value'[i] = value[i]
              /\ pc'[i] = "down_sched" /\ then'[i] = loc /\ waits_on'[i] = s
              /\ wakeup_flags'[i] = "WT_INTERRUPTED"
    BY <1>down, DownOf
  <2>2. PhilosopherInv(i)'
    BY <1>0, <1>down, <2>1
       DEF At, PhilosopherInv, WaitsRight, DeclaresRight, UnitForEating, Trying, HasForks,
           Down
  <2> QED BY <1>down, <2>1, <2>2, Local
<1>take. CASE Take(i) BY <1>take, <1>down DEF Take
<1>wait. CASE WaitForks(i) BY <1>wait, <1>down DEF WaitForks
<1>put. CASE Put(i) BY <1>put, <1>down DEF Put
<1>declare. ASSUME NEW old, NEW loc, NEW what, At(i, old), Declare(i, what), Goto(i, loc),
                   UNCHANGED <<schedVars, semVars, then>>,
                   \/ old = "hungry" /\ what = "HUNGRY" /\ loc = "test_self"
                   \/ old = "put_down" /\ what = "THINKING" /\ loc = "test_left"
            PROVE  SyncInv'
  <2>1. state_sema' = [state_sema EXCEPT ![i] = what] /\ state_sema'[i] = what
    BY <1>0, <1>declare DEF Declare
  <2>2. SemInv' /\ MovedTo(i, loc) /\ \A q \in Philosopher \ {i} : Unmoved(q)
    BY <1>declare, <2>1, GoesTo
  <2>3. PhilosopherInv(i)'
    BY <1>0, <1>declare, <2>1, <2>2
       DEF At, MovedTo, PhilosopherInv, WaitsRight, DeclaresRight, UnitForEating, Trying,
           HasForks, Down
  <2> QED BY <1>declare, <2>1, <2>2, <2>3, Local
<1>hungry. CASE Hungry(i) BY <1>hungry, <1>declare DEF Hungry
<1>putdown. CASE PutDown(i) BY <1>putdown, <1>declare DEF PutDown
<1>up. ASSUME NEW old, NEW loc, At(i, old), CallUp(mutex, loc), UNCHANGED state_sema,
              \/ old = "taken" /\ loc = "wait_forks"
              \/ old = "put_done" /\ loc = "loop"
       PROVE  SyncInv'
  <2>1. SemInv' /\ MovedTo(i, loc) /\ \A q \in Philosopher \ {i} : Unmoved(q)
    BY <1>up, MutexUp
  <2>2. PhilosopherInv(i)'
    BY <1>0, <1>up, <2>1
       DEF At, MovedTo, PhilosopherInv, WaitsRight, DeclaresRight, UnitForEating, Trying,
           HasForks, Down
  <2> QED BY <1>up, <2>1, <2>2, Local
<1>taken. CASE Taken(i) BY <1>taken, <1>up DEF Taken
<1>putdone. CASE PutDone(i) BY <1>putdone, <1>up DEF PutDone
<1>eat. CASE Eat(i)
  <2>1. At(i, "eat") /\ UNCHANGED state_sema /\ CallSleep("put") BY <1>eat DEF Eat
  <2>2. /\ SemInv' /\ \A q \in Philosopher \ {i} : Unmoved(q)
        /\ pc'[i] = "sleep_sched" /\ then'[i] = "put" /\ value'[i] = value[i]
    BY <2>1, FallsAsleep
  <2>3. PhilosopherInv(i)'
    BY <1>0, <2>1, <2>2
       DEF At, PhilosopherInv, WaitsRight, DeclaresRight, UnitForEating, Trying, HasForks,
           Down
  <2> QED BY <2>1, <2>2, <2>3, Local
<1>test. ASSUME NEW old, NEW loc, NEW j \in Philosopher, At(i, old), Test(j, loc),
                \/ old = "test_self" /\ loc = "taken"
                \/ old = "test_left" /\ loc = "test_right" /\ j # i
                \/ old = "test_right" /\ loc = "put_done" /\ j # i
         PROVE  SyncInv'
  <2>1. /\ SemInv'
        /\ state_sema' \in [Philosopher -> {"THINKING", "HUNGRY", "EATING"}]
        /\ \A q \in Philosopher : ~(state_sema'[q] = "EATING" /\ state_sema'[RIGHT(q)] = "EATING")
        /\ \A q \in Philosopher \ {i, j} : Unmoved(q)
        /\ i # j => MovedTo(i, loc) /\ state_sema'[i] = state_sema[i]
        /\ i # j => PhilosopherInv(j)'
        /\ i = j => /\ pc'[i] = loc
                    /\ \/ state_sema'[i] = state_sema[i] /\ value'[i] = value[i]
                       \/ state_sema[i] = "HUNGRY" /\ state_sema'[i] = "EATING" /\ value'[i] = 1
    BY <1>test, TestKeeps
  <2>2. PhilosopherInv(i)'
    <3>1. CASE i # j
      BY <1>0, <1>test, <2>1, <3>1
         DEF At, MovedTo, PhilosopherInv, WaitsRight, DeclaresRight, UnitForEating, Trying,
             HasForks, Down
    <3>2. CASE i = j
      BY <1>0, <1>test, <2>1, <3>2
         DEF At, PhilosopherInv, WaitsRight, DeclaresRight, UnitForEating, Trying, HasForks,
             Down
    <3> QED BY <3>1, <3>2
  <2>3. ASSUME NEW q \in Philosopher PROVE PhilosopherInv(q)'
    <3>1. CASE q \in {i, j} BY <2>1, <2>2, <3>1
    <3>2. CASE q \notin {i, j}
      <4>1. PhilosopherInv(q) /\ Unmoved(q) BY <2>1, <3>2 DEF SyncInv
      <4> QED BY <4>1, UnmovedKeeps
    <3> QED BY <3>1, <3>2
  <2> QED BY <2>1, <2>3 DEF SyncInv
<1>self. CASE TestSelf(i) BY <1>self, <1>test DEF TestSelf
<1>left. CASE TestLeft(i)
  <2>1. LEFT(i) \in Philosopher /\ LEFT(i) # i BY Ring
  <2> QED BY <1>left, <1>test, <2>1 DEF TestLeft
<1>right. CASE TestRight(i)
  <2>1. RIGHT(i) \in Philosopher /\ RIGHT(i) # i BY Ring
  <2> QED BY <1>right, <1>test, <2>1 DEF TestRight
<1>quit. CASE Quit(i)
  <2>1. /\ At(i, "quit") /\ Goto(i, "gone") /\ state' = [state EXCEPT ![i] = "ZOMBIE"]
        /\ UNCHANGED <<current, wait_state, queued, need_resched, semVars, then, state_sema>>
    BY <1>quit DEF Quit
  <2>2. /\ current = i /\ pc[i] = "quit" /\ i \in Proc /\ DOMAIN pc = Proc /\ SemInv
        /\ Philosopher \subseteq Proc
    BY <2>1, Acting, Threads
  <2>3. SemInv' BY <2>1, <2>2, ExitKeeps
  <2>4. pc' = [pc EXCEPT ![i] = "gone"] BY <2>1 DEF Goto
  <2>5. \A q \in Philosopher \ {i} : Unmoved(q) BY <2>1, <2>2, <2>4 DEF Unmoved, semVars
  <2>6. PhilosopherInv(i)'
    BY <1>0, <2>1, <2>2, <2>4
       DEF semVars, PhilosopherInv, WaitsRight, DeclaresRight, UnitForEating, Trying,
           HasForks, Down
  <2> QED BY <2>1, <2>3, <2>5, <2>6, Local
<1> QED
  BY <1>loop, <1>take, <1>hungry, <1>self, <1>taken, <1>wait, <1>eat, <1>put, <1>putdown,
     <1>left, <1>right, <1>putdone, <1>quit DEF Act

LEMMA SyncStep == SyncInv /\ [Next]_vars => SyncInv'
<1> SUFFICES ASSUME SyncInv, [Next]_vars PROVE SyncInv' OBVIOUS
<1>0. SemInv /\ SemTypeOK /\ Philosopher \subseteq Proc /\ Proc \ {Idle} \subseteq Philosopher
  BY Threads DEF SyncInv, SemInv
<1>1. CASE \E i \in Philosopher : Act(i) BY <1>1, ActKeeps
<1>2. CASE Returning /\ UNCHANGED <<state_sema, iter>>
  <2>1. SemInv' BY <1>0, <1>2, ReturnKeeps
  <2>2. PICK i \in Philosopher :
          /\ pc' = [pc EXCEPT ![i] = then[i]]
          /\ UNCHANGED <<semVars, then, state_sema>>
          /\ \/ pc[i] = "down_ret" /\ wakeup_flags[i] = "WT_KSEM"
             \/ pc[i] = "sleep_ret"
    BY <1>0, <1>2, BackInDown, BackInSleep DEF Returning
  <2>3. \A q \in Philosopher \ {i} : Unmoved(q)
    BY <1>0, <2>2 DEF Unmoved, semVars, SemTypeOK
  <2>4. PhilosopherInv(i)'
    <3>1. PhilosopherInv(i) /\ pc'[i] = then[i]
      BY <1>0, <2>2 DEF SyncInv, SemTypeOK
    <3> QED BY <2>2, <3>1, Threads
        DEF semVars, PhilosopherInv, WaitsRight, DeclaresRight, UnitForEating, Trying,
            HasForks, Down
  <2> QED BY <2>1, <2>2, <2>3, <2>4, Local
<1>3. ASSUME SemInv', UNCHANGED <<semVars, then, state_sema>>,
             \A q \in Philosopher : \/ pc'[q] = pc[q]
                                    \/ pc[q] = "down_sched" /\ pc'[q] = "down_ret"
                                    \/ pc[q] = "sleep_sched" /\ pc'[q] = "sleep_ret"
      PROVE  SyncInv'
  <2>1. ASSUME NEW q \in Philosopher PROVE PhilosopherInv(q)'
    BY <1>3, Threads
    DEF SyncInv, semVars, PhilosopherInv, WaitsRight, DeclaresRight, UnitForEating, Trying,
        HasForks, Down
  <2> QED BY <1>3, <2>1 DEF SyncInv
<1>4. CASE Interrupt /\ UNCHANGED <<state_sema, iter>>
  BY <1>0, <1>3, <1>4, InterruptKeeps
<1>5. ASSUME NEW next \in Proc, Switch(next) PROVE SyncInv'
  <2>1. Switching(next) \/ CallSchedule("gone", "gone", next)
    BY <1>5 DEF Switch, GoneSchedule
  <2>2. /\ SemInv' /\ UNCHANGED <<semVars, then>>
        /\ \A p \in Proc : pc'[p] = IF pc[p] = "down_sched" THEN "down_ret"
                                    ELSE IF pc[p] = "sleep_sched" THEN "sleep_ret" ELSE pc[p]
    BY <1>0, <2>1, ScheduleKeeps, IdleAssumption
  <2> QED BY <1>0, <1>3, <1>5, <2>2 DEF Switch
<1>6. CASE UNCHANGED vars
  <2>1. SemInv'
    BY <1>0, <1>6, StillKeeps DEF vars, semAll, schedVars, SemTypeOK, SchedTypeOK
  <2> QED BY <1>3, <1>6, <2>1 DEF vars, semAll
<1> QED BY <1>1, <1>2, <1>4, <1>5, <1>6 DEF Next

LEMMA SyncInvariant == Spec => []SyncInv
BY SyncInit, SyncStep, PTL DEF Spec

\* Two neighbours never eat at the same time, however the threads are scheduled
\* (phi_test_sema, phi_take_forks_sema, phi_put_forks_sema).
THEOREM NeighboursNeverEat == Spec => []NeighboursExclude
<1>1. SyncInv => NeighboursExclude
  <2> SUFFICES ASSUME SyncInv, NEW i \in Philosopher PROVE ~(HasForks(i) /\ HasForks(RIGHT(i)))
    BY DEF NeighboursExclude
  <2>1. \A q \in Philosopher : HasForks(q) => state_sema[q] = "EATING"
    <3> SUFFICES ASSUME NEW q \in Philosopher, HasForks(q) PROVE state_sema[q] = "EATING" OBVIOUS
    <3>1. ~Trying(q) BY DEF HasForks, Trying, Down
    <3> QED BY <3>1 DEF SyncInv, PhilosopherInv, DeclaresRight
  <2> QED BY <2>1, Ring DEF SyncInv
<1> QED BY <1>1, SyncInvariant, PTL

\* The assertion of down holds for the philosophers too, and their wait queues and
\* the run queue are in order.
THEOREM SemaphoresServe == Spec => []SemInv
BY SyncInvariant, PTL DEF SyncInv

=============================================================================
