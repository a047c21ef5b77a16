-------------------------- MODULE CheckMonitorProof --------------------------
(***************************************************************************)
(* Proofs about the monitor of CheckMonitor and its dining philosophers,   *)
(* for any number of philosophers and meals: the monitor is one thread's   *)
(* at a time, its counters are exact, and two neighbours never have their  *)
(* forks at the same time. The right to be inside is a token: it is at one *)
(* thread or in one semaphore, and each up and down moves it.              *)
(***************************************************************************)
EXTENDS CheckMonitor, SemProof

Down(i) == pc[i] \in {"down_sched", "down_ret"}
IsActive(i) ==
  pc[i] \in Inside \/ (Down(i) /\ then[i] \in Inside /\ wakeup_flags[i] = "WT_KSEM")
IsSignaller(i) ==
  pc[i] \in {"signal_up", "signal_down", "signal_end"} \/ (Down(i) /\ then[i] = "signal_end")
IsWaiter(i) ==
  pc[i] \in {"wait_release", "wait_down", "wait_end"} \/ (Down(i) /\ then[i] = "wait_end")

\* Where the token is
Token ==
  \/ /\ \A s \in Semaphore : value[s] = 0
     /\ \E i \in Philosopher : \A q \in Philosopher : IsActive(q) <=> q = i
  \/ /\ \A q \in Philosopher : ~IsActive(q)
     /\ \E s \in Semaphore : \A r \in Semaphore : value[r] = IF r = s THEN 1 ELSE 0

\* Every wait is for the right to be inside, a signaller goes on inside, the count of
\* the condition variable is that of its only user, and who has the forks, or is about
\* to leave phi_take_forks_condvar with them, has been declared to be EATING.
PhilosopherInv(i) ==
  /\ Down(i) => then[i] \in {"hungry", "put_down", "wait_end", "signal_end"}
  /\ pc[i] \in {"sleep_sched", "sleep_ret"} => then[i] \in {"take", "put"}
  /\ IsSignaller(i) => after[i] \in {"check", "test_right", "leave_put"}
  /\ count[i] = IF IsWaiter(i) THEN 1 ELSE 0
  /\ HasForks(i) \/ pc[i] = "leave_take" => state_condvar[i] = "EATING"

MonitorTypeOK ==
  /\ state_condvar \in [Philosopher -> {"THINKING", "HUNGRY", "EATING"}]
  /\ count \in [Philosopher -> Nat] /\ next_count \in Nat
  /\ signals \in [Philosopher -> Philosopher] /\ DOMAIN after = Proc

\* When the mutex is free no signaller is left behind.
NextCountInv ==
  /\ next_count = Cardinality(Signallers)
  /\ value[mutex] > 0 => next_count = 0

EatersApart ==
  \A i \in Philosopher : ~(state_condvar[i] = "EATING" /\ state_condvar[RIGHT(i)] = "EATING")

\* The inductive invariant
MonitorInv ==
  /\ SemInv /\ MonitorTypeOK
  /\ Token /\ NextCountInv /\ EatersApart
  /\ \A i \in Philosopher : PhilosopherInv(i)

----------------------------------------------------------------------------
LEMMA Ring ==
  ASSUME NEW i \in Philosopher
  PROVE  /\ LEFT(i) \in Philosopher /\ RIGHT(i) \in Philosopher /\ RIGHT(i) # i
         /\ LEFT(RIGHT(i)) = i /\ RIGHT(LEFT(i)) = i
BY PhilosopherAssumption, SMT DEF LEFT, RIGHT, Philosopher

LEMMA Threads ==
  /\ mutex \in Semaphore /\ mutex \notin Philosopher
  /\ next_sem \in Semaphore /\ next_sem \notin Philosopher /\ next_sem # mutex
  /\ Semaphore = Philosopher \cup {mutex, next_sem}
  /\ Philosopher \subseteq Proc /\ Proc \ {Idle} \subseteq Philosopher
BY PhilosopherAssumption, ThreadAssumption, SMT DEF Philosopher, mutex, next_sem

LEMMA MonitorInit == Init => MonitorInv
<1> SUFFICES ASSUME Init PROVE MonitorInv OBVIOUS
<1> USE DEF Init, SchedInit, SemInit
<1>1. SemInv
  <2>1. "loop" \notin Reserved BY DEF Reserved
  <2>2. SchedInit(Proc \ {Idle})
    <3>1. /\ Philosopher \cup {Idle} = (Proc \ {Idle}) \cup {Idle}
          /\ Philosopher \ {Idle} = (Proc \ {Idle}) \ {Idle}
      BY ThreadAssumption
    <3> QED BY <3>1
  <2>3. [x \in Semaphore |-> IF x = mutex THEN 1 ELSE 0] \in [Semaphore -> Nat] OBVIOUS
  <2>4. SemInit([x \in Semaphore |-> IF x = mutex THEN 1 ELSE 0]) OBVIOUS
  <2>5. Semaphore # {} BY Threads
  <2>6. DOMAIN then = Proc /\ \A p \in Proc : then[p] \notin Reserved BY <2>1
  <2>7. pc = [p \in Proc |-> IF p = Idle THEN "idle" ELSE "loop"] OBVIOUS
  <2> HIDE DEF Init, SchedInit, SemInit
  <2> QED BY <2>1, <2>2, <2>3, <2>4, <2>5, <2>6, <2>7, IdleAssumption, SemInitEstablishes
<1>2. \A i \in Philosopher : pc[i] \in {"idle", "loop"} BY Threads
<1>3. Token BY <1>2, Threads DEF Token, IsActive, Down, Inside
<1>4. NextCountInv
  <2>1. Signallers = {} BY <1>2 DEF Signallers
  <2> QED BY <2>1, FS_EmptySet DEF NextCountInv
<1>5. \A i \in Philosopher : PhilosopherInv(i)
  BY <1>2 DEF PhilosopherInv, IsSignaller, IsWaiter, HasForks, Down
<1>6. MonitorTypeOK BY DEF MonitorTypeOK
<1>7. EatersApart BY Ring DEF EatersApart
<1> QED BY <1>1, <1>3, <1>4, <1>5, <1>6, <1>7 DEF MonitorInv

----------------------------------------------------------------------------
(* What a step of philosopher i does to the threads, the semaphores and    *)
(* the token                                                               *)

OthersStay(i) == \A q \in Philosopher \ {i} : pc'[q] = pc[q] /\ then'[q] = then[q]

\* A philosopher at a point of its own has the CPU, and is in no call.
LEMMA Acting ==
  ASSUME MonitorInv, NEW i \in Philosopher, NEW old, At(i, old), old \notin Reserved
  PROVE  /\ current = i /\ pc[i] = old /\ pc[current] \notin Reserved /\ i \in Proc
         /\ DOMAIN pc = Proc /\ DOMAIN then = Proc /\ SemTypeOK /\ SemInv
         /\ Philosopher \subseteq Proc
BY Threads DEF At, MonitorInv, SemInv, SemTypeOK

\* A step that only moves the philosopher on, inside or outside
LEMMA GoesTo ==
  ASSUME MonitorInv, NEW i \in Philosopher, NEW old, At(i, old), old \notin Reserved,
         NEW loc, loc \notin Reserved, Goto(i, loc), Quiet
  PROVE  /\ SemInv' /\ OthersStay(i) /\ pc'[i] = loc /\ then'[i] = then[i] /\ value' = value
         /\ (old \in Inside <=> loc \in Inside) => Token'
<1>1. /\ current = i /\ pc[i] = old /\ pc[current] \notin Reserved /\ i \in Proc
      /\ DOMAIN pc = Proc /\ SemInv /\ Philosopher \subseteq Proc
  BY Acting
<1>2. /\ pc' = [pc EXCEPT ![i] = loc] /\ then' = then /\ value' = value
      /\ wakeup_flags' = wakeup_flags
  BY DEF Goto, Quiet, semVars
<1>3. SemInv' BY <1>1, GotoKeeps DEF Quiet
<1>4. ASSUME old \in Inside <=> loc \in Inside PROVE Token'
  <2>1. \A q \in Philosopher : IsActive(q)' <=> IsActive(q)
    BY <1>1, <1>2, <1>4 DEF IsActive, Down, Reserved
  <2> QED BY <1>2, <2>1 DEF Token, MonitorInv
<1> QED BY <1>1, <1>2, <1>3, <1>4 DEF OthersStay

\* do_sleep, outside
LEMMA FallsAsleep ==
  ASSUME MonitorInv, NEW i \in Philosopher, NEW old, At(i, old), old \notin Reserved,
         old \notin Inside, NEW loc, loc \notin Reserved, loc \notin Inside, CallSleep(loc)
  PROVE  /\ SemInv' /\ OthersStay(i) /\ pc'[i] = "sleep_sched" /\ then'[i] = loc
         /\ value' = value /\ Token'
<1>1. /\ current = i /\ pc[i] = old /\ pc[current] \notin Reserved /\ i \in Proc
      /\ DOMAIN pc = Proc /\ DOMAIN then = Proc /\ SemInv /\ Philosopher \subseteq Proc
  BY Acting
<1>2. /\ pc' = [pc EXCEPT ![i] = "sleep_sched"] /\ then' = [then EXCEPT ![i] = loc]
      /\ value' = value /\ wakeup_flags' = wakeup_flags
  BY <1>1 DEF CallSleep, Goto, semVars
<1>3. SemInv' BY <1>1, SleepKeeps, IdleAssumption
<1>4. \A q \in Philosopher : IsActive(q)' <=> IsActive(q)
  BY <1>1, <1>2 DEF IsActive, Down, Reserved, Inside
<1>5. Token' BY <1>2, <1>4 DEF Token, MonitorInv
<1> QED BY <1>1, <1>2, <1>3, <1>5 DEF OthersStay

\* A thread leaves by an up: the token goes to the first who waits for that semaphore,
\* or stays in it.
LEMMA Leaves ==
  ASSUME MonitorInv, NEW i \in Philosopher, NEW old, At(i, old), old \in Inside,
         old \notin Reserved,
         NEW loc, loc \notin Reserved, loc \notin Inside, NEW s \in Semaphore, CallUp(s, loc)
  PROVE  /\ SemInv' /\ OthersStay(i) /\ pc'[i] = loc /\ then'[i] = then[i] /\ Token'
         /\ value'[mutex] > 0 => s = mutex
<1>1. /\ current = i /\ pc[i] = old /\ pc[current] \notin Reserved /\ i \in Proc
      /\ DOMAIN pc = Proc /\ SemInv /\ SemTypeOK /\ Philosopher \subseteq Proc
  BY Acting
<1>2. /\ pc' = [pc EXCEPT ![i] = loc] /\ then' = then /\ Up(s)
  BY <1>1 DEF CallUp, Goto
<1>3. SemInv' BY <1>1, UpKeeps
<1>4. /\ \A r \in Semaphore : value[r] = 0
      /\ \A q \in Philosopher : IsActive(q) <=> q = i
  <2>1. IsActive(i) BY <1>1 DEF IsActive
  <2> QED BY <2>1 DEF MonitorInv, Token
<1>5. CASE wait_queue[s] = <<>>
  <2>1. value' = [value EXCEPT ![s] = @ + 1] /\ wakeup_flags' = wakeup_flags
    BY <1>2, <1>5 DEF Up
  <2>2. \A r \in Semaphore : value'[r] = IF r = s THEN 1 ELSE 0
    BY <1>1, <1>4, <2>1 DEF SemTypeOK
  <2>3. \A q \in Philosopher : ~IsActive(q)'
    BY <1>1, <1>2, <1>4, <2>1 DEF IsActive, Down, Reserved
  <2> QED BY <1>1, <1>2, <1>3, <2>2, <2>3, Threads DEF Token, OthersStay
<1>6. CASE wait_queue[s] # <<>>
  <2>0. PICK p : p = Head(wait_queue[s]) OBVIOUS
  <2>1. p \in Proc /\ Down(p) BY <2>0, <1>1, <1>6, HandOver DEF Down
  <2>2. value' = value /\ wakeup_flags' = [wakeup_flags EXCEPT ![p] = "WT_KSEM"]
    BY <1>2, <1>6, <2>0 DEF Up
  <2>3. p # Idle /\ p # i
    <3>1. pc[Idle] = "idle" BY IdleAssumption DEF MonitorInv, SemInv, PointsMatchWaits
    <3> QED BY <1>1, <2>1, <3>1 DEF Down, Reserved
  <2>4. p \in Philosopher BY <2>1, <2>3, Threads
  <2>5. then[p] \in Inside BY <2>1, <2>4 DEF MonitorInv, PhilosopherInv, Inside
  <2>6. IsActive(p)'
    BY <1>1, <1>2, <2>1, <2>2, <2>3, <2>5 DEF IsActive, Down, SemTypeOK
  <2>7. \A q \in Philosopher \ {p} : ~IsActive(q)'
    BY <1>1, <1>2, <1>4, <2>2, <2>3 DEF IsActive, Down, Reserved, SemTypeOK
  <2>8. Token' BY <1>4, <2>2, <2>4, <2>6, <2>7 DEF Token
  <2> QED BY <1>1, <1>2, <1>3, <1>4, <2>2, <2>8, Threads DEF OthersStay
<1> QED BY <1>5, <1>6

\* A thread enters, or goes on inside, by a down: it takes the token from the semaphore,
\* or waits there until it is handed over.
LEMMA Enters ==
  ASSUME MonitorInv, NEW i \in Philosopher, NEW old, At(i, old), old \notin Inside,
         old \notin Reserved,
         NEW loc, loc \in Inside, loc \notin Reserved, NEW s \in Semaphore, CallDown(s, loc)
  PROVE  /\ SemInv' /\ OthersStay(i) /\ Token'
         /\ value'[mutex] > 0 => value[mutex] > 0
         /\ \/ pc'[i] = loc /\ then'[i] = then[i]
            \/ pc'[i] = "down_sched" /\ then'[i] = loc
<1>1. /\ current = i /\ pc[i] = old /\ pc[current] \notin Reserved /\ i \in Proc
      /\ DOMAIN pc = Proc /\ DOMAIN then = Proc /\ SemInv /\ SemTypeOK /\ Philosopher \subseteq Proc
  BY Acting
<1>2. SemInv' BY <1>1, DownKeeps, IdleAssumption
<1>3. ~IsActive(i) BY <1>1 DEF IsActive, Down, Reserved
<1>4. CASE TakeUnit(s) /\ Goto(current, loc) /\ UNCHANGED then
  <2>1. /\ pc' = [pc EXCEPT ![i] = loc] /\ then' = then /\ wakeup_flags' = wakeup_flags
        /\ value[s] > 0 /\ value' = [value EXCEPT ![s] = @ - 1]
    BY <1>1, <1>4 DEF TakeUnit, Goto
  <2>2. /\ \A q \in Philosopher : ~IsActive(q)
        /\ \A r \in Semaphore : value[r] = IF r = s THEN 1 ELSE 0
    BY <2>1 DEF MonitorInv, Token
  <2>3. \A r \in Semaphore : value'[r] = 0 BY <1>1, <2>1, <2>2 DEF SemTypeOK
  <2>4. \A q \in Philosopher : IsActive(q)' <=> q = i
    BY <1>1, <2>1, <2>2 DEF IsActive, Down
  <2> QED BY <1>1, <1>2, <2>1, <2>3, <2>4, Threads DEF Token, OthersStay
<1>5. CASE Enqueue(s) /\ Goto(current, "down_sched") /\ then' = [then EXCEPT ![current] = loc]
  <2>1. /\ pc' = [pc EXCEPT ![i] = "down_sched"] /\ then' = [then EXCEPT ![i] = loc]
        /\ wakeup_flags' = [wakeup_flags EXCEPT ![i] = "WT_INTERRUPTED"] /\ value' = value
    BY <1>1, <1>5 DEF Enqueue, Goto
  <2>2. \A q \in Philosopher : IsActive(q)' <=> IsActive(q)
    BY <1>1, <1>3, <2>1 DEF IsActive, Down, SemTypeOK, Inside
  <2>3. Token' BY <2>1, <2>2 DEF Token, MonitorInv
  <2> QED BY <1>1, <1>2, <2>1, <2>3 DEF OthersStay
<1> QED BY <1>4, <1>5 DEF CallDown

----------------------------------------------------------------------------
(* Counting the signallers                                                 *)

LEMMA SignallersFinite ==
  /\ IsFiniteSet(Signallers) /\ Signallers = {q \in Philosopher : IsSignaller(q)}
  /\ Signallers' = {q \in Philosopher : IsSignaller(q)'}
<1>1. IsFiniteSet(Philosopher) BY PhilosopherAssumption, FS_Interval DEF Philosopher
<1>2. /\ Signallers = {q \in Philosopher : IsSignaller(q)}
      /\ Signallers' = {q \in Philosopher : IsSignaller(q)'}
  BY DEF Signallers, IsSignaller, Down
<1> QED BY <1>1, <1>2, FS_Subset

\* Nobody begins or ends to signal.
LEMMA SameSignallers ==
  ASSUME MonitorInv, next_count' = next_count,
         value'[mutex] > 0 => value[mutex] > 0 \/ next_count = 0,
         \A q \in Philosopher : IsSignaller(q)' <=> IsSignaller(q)
  PROVE  NextCountInv'
<1>1. Signallers' = Signallers BY SignallersFinite
<1> QED BY <1>1 DEF NextCountInv, MonitorInv

\* One begins.
LEMMA OneMoreSignaller ==
  ASSUME MonitorInv, NEW i \in Philosopher, value'[mutex] = 0, next_count' = next_count + 1,
         ~IsSignaller(i), \A q \in Philosopher : IsSignaller(q)' <=> IsSignaller(q) \/ q = i
  PROVE  NextCountInv'
<1>1. Signallers' = Signallers \cup {i} /\ i \notin Signallers BY SignallersFinite
<1>2. Cardinality(Signallers \cup {i}) = Cardinality(Signallers) + 1
  BY <1>1, SignallersFinite, FS_AddElement
<1> QED BY <1>1, <1>2 DEF NextCountInv, MonitorInv

\* One is done.
LEMMA OneSignallerLess ==
  ASSUME MonitorInv, NEW i \in Philosopher, value'[mutex] = 0, next_count' = next_count - 1,
         IsSignaller(i), \A q \in Philosopher : IsSignaller(q)' <=> IsSignaller(q) /\ q # i
  PROVE  NextCountInv' /\ next_count' \in Nat
<1>1. Signallers' = Signallers \ {i} /\ i \in Signallers BY SignallersFinite
<1>2. /\ Cardinality(Signallers \ {i}) = Cardinality(Signallers) - 1
      /\ Cardinality(Signallers \ {i}) \in Nat
  BY <1>1, SignallersFinite, FS_RemoveElement, FS_CardinalityType
<1> QED BY <1>1, <1>2 DEF NextCountInv, MonitorInv

----------------------------------------------------------------------------
(* The steps of a philosopher                                              *)

\* The other threads stay where they are, and at most one of them is declared EATING.
LEMMA Local ==
  ASSUME MonitorInv, SemInv', MonitorTypeOK', Token', NextCountInv', EatersApart',
         NEW i \in Philosopher, OthersStay(i), PhilosopherInv(i)',
         \A q \in Philosopher \ {i} :
           /\ count'[q] = count[q] /\ after'[q] = after[q]
           /\ state_condvar'[q] \in {state_condvar[q], "EATING"}
  PROVE  MonitorInv'
<1>1. ASSUME NEW q \in Philosopher \ {i} PROVE PhilosopherInv(q)'
  <2>1. PhilosopherInv(q) BY DEF MonitorInv
  <2> QED BY <2>1 DEF PhilosopherInv, OthersStay, IsSignaller, IsWaiter, HasForks, Down
<1> QED BY <1>1 DEF MonitorInv

\* A step that leaves the monitor's own variables alone
LEMMA Plain ==
  ASSUME MonitorInv, SemInv', Token', NEW i \in Philosopher, OthersStay(i),
         UNCHANGED <<state_condvar, count, next_count, signals, after>>,
         value'[mutex] > 0 => value[mutex] > 0 \/ next_count = 0,
         IsSignaller(i)' <=> IsSignaller(i), PhilosopherInv(i)'
  PROVE  MonitorInv'
<1>1. MonitorTypeOK' /\ EatersApart' BY DEF MonitorInv, MonitorTypeOK, EatersApart
<1>2. \A q \in Philosopher : IsSignaller(q)' <=> IsSignaller(q)
  BY DEF IsSignaller, Down, OthersStay
<1>3. NextCountInv' BY <1>2, SameSignallers
<1> QED BY <1>1, <1>3, Local

\* The points of the semaphore calls
LEMMA CallsKeep ==
  ASSUME MonitorInv, NEW i \in Philosopher,
         UNCHANGED <<state_condvar, count, next_count, signals, after>>,
         \/ Loop(i) \/ Take(i) \/ LeaveTake(i) \/ Eat(i) \/ SignalUp(i) \/ SignalDown(i)
         \/ WaitRelease(i) \/ WaitDown(i) \/ Put(i) \/ LeavePut(i)
  PROVE  MonitorInv'
<1> USE DEF Reserved, Inside
<1>0. PhilosopherInv(i) /\ MonitorTypeOK /\ i \in Semaphore BY Threads DEF MonitorInv
<1>sleep. ASSUME NEW old, NEW loc, At(i, old), CallSleep(loc),
                 \/ old = "loop" /\ loc = "take"
                 \/ old = "eat" /\ loc = "put"
          PROVE  MonitorInv'
  <2>1. /\ SemInv' /\ OthersStay(i) /\ pc'[i] = "sleep_sched" /\ then'[i] = loc
        /\ value' = value /\ Token'
    BY <1>sleep, FallsAsleep
  <2>2. PhilosopherInv(i)' /\ (IsSignaller(i)' <=> IsSignaller(i))
    BY <1>0, <1>sleep, <2>1 DEF At, PhilosopherInv, IsSignaller, IsWaiter, HasForks, Down
  <2> QED BY <2>1, <2>2, Plain
<1>up. ASSUME NEW s \in Semaphore, NEW old, NEW loc, At(i, old), CallUp(s, loc),
              s = mutex => next_count = 0,
              \/ old = "leave_take" /\ loc = "eat"
              \/ old = "signal_up" /\ loc = "signal_down"
              \/ old = "wait_release" /\ loc = "wait_down"
              \/ old = "leave_put" /\ loc = "loop"
       PROVE  MonitorInv'
  <2>1. /\ SemInv' /\ OthersStay(i) /\ pc'[i] = loc /\ then'[i] = then[i] /\ Token'
        /\ value'[mutex] > 0 => s = mutex
    BY <1>up, Leaves
  <2>2. PhilosopherInv(i)' /\ (IsSignaller(i)' <=> IsSignaller(i))
    BY <1>0, <1>up, <2>1 DEF At, PhilosopherInv, IsSignaller, IsWaiter, HasForks, Down
  <2> QED BY <1>up, <2>1, <2>2, Plain
<1>down. ASSUME NEW s \in Semaphore, NEW old, NEW loc, At(i, old), CallDown(s, loc),
                \/ old = "take" /\ loc = "hungry"
                \/ old = "signal_down" /\ loc = "signal_end"
                \/ old = "wait_down" /\ loc = "wait_end"
                \/ old = "put" /\ loc = "put_down"
         PROVE  MonitorInv'
  <2>1. /\ SemInv' /\ OthersStay(i) /\ Token'
        /\ value'[mutex] > 0 => value[mutex] > 0
        /\ \/ pc'[i] = loc /\ then'[i] = then[i]
           \/ pc'[i] = "down_sched" /\ then'[i] = loc
    BY <1>down, Enters
  <2>2. PhilosopherInv(i)' /\ (IsSignaller(i)' <=> IsSignaller(i))
    BY <1>0, <1>down, <2>1 DEF At, PhilosopherInv, IsSignaller, IsWaiter, HasForks, Down
  <2> QED BY <2>1, <2>2, Plain
<1>1. CASE Loop(i)
  <2>1. CASE CallSleep("take") BY <1>1, <2>1, <1>sleep DEF Loop
  <2>2. CASE Goto(i, "quit") /\ Quiet
    <3>1. At(i, "loop") BY <1>1 DEF Loop
    <3>2. SemInv' /\ OthersStay(i) /\ pc'[i] = "quit" /\ then'[i] = then[i] /\ value' = value /\ Token'
      BY <2>2, <3>1, GoesTo
    <3>3. PhilosopherInv(i)' /\ (IsSignaller(i)' <=> IsSignaller(i))
      BY <1>0, <3>1, <3>2 DEF At, PhilosopherInv, IsSignaller, IsWaiter, HasForks, Down
    <3> QED BY <3>2, <3>3, Plain
  <2> QED BY <1>1, <2>1, <2>2 DEF Loop
<1>2. CASE Take(i) BY <1>2, <1>down, Threads DEF Take
<1>3. CASE Eat(i) BY <1>3, <1>sleep DEF Eat
<1>4. CASE LeaveTake(i) BY <1>0, <1>4, <1>up, Threads DEF LeaveTake, LetIn, MonitorTypeOK
<1>5. CASE SignalUp(i)
  <2>1. signals[i] \in Semaphore /\ signals[i] # mutex BY <1>0, Threads DEF MonitorTypeOK
  <2> QED BY <1>5, <2>1, <1>up DEF SignalUp
<1>6. CASE SignalDown(i) BY <1>6, <1>down, Threads DEF SignalDown
<1>7. CASE WaitRelease(i)
  BY <1>0, <1>7, <1>up, Threads DEF WaitRelease, LetIn, MonitorTypeOK
<1>8. CASE WaitDown(i) BY <1>0, <1>8, <1>down DEF WaitDown
<1>9. CASE Put(i) BY <1>9, <1>down, Threads DEF Put
<1>10. CASE LeavePut(i) BY <1>0, <1>10, <1>up, Threads DEF LeavePut, LetIn, MonitorTypeOK
<1> QED BY <1>1, <1>2, <1>3, <1>4, <1>5, <1>6, <1>7, <1>8, <1>9, <1>10

\* The thread that is inside finds all semaphores at 0.
LEMMA InsideAlone ==
  ASSUME MonitorInv, NEW i \in Philosopher, NEW old, At(i, old), old \in Inside
  PROVE  value[mutex] = 0
<1>1. IsActive(i) BY DEF At, IsActive
<1> QED BY <1>1, Threads DEF MonitorInv, Token

\* What the procedures of the monitor do with its variables
LEMMA ProcedureKeeps ==
  ASSUME MonitorInv, NEW i \in Philosopher,
         Hungry(i) \/ PutDown(i) \/ Check(i) \/ WaitEnd(i) \/ SignalEnd(i)
  PROVE  MonitorInv'
<1> USE DEF Reserved, Inside
<1>0. PhilosopherInv(i) /\ MonitorTypeOK /\ NextCountInv /\ EatersApart BY DEF MonitorInv
<1>goes. ASSUME NEW old, NEW loc, At(i, old), Goto(i, loc), Quiet,
                old \in Inside, loc \in Inside, loc \notin Reserved, old \notin Reserved
         PROVE  /\ SemInv' /\ OthersStay(i) /\ pc'[i] = loc /\ then'[i] = then[i]
                /\ value' = value /\ Token'
  BY <1>goes, GoesTo
<1>same. ASSUME IsSignaller(i)' <=> IsSignaller(i), OthersStay(i), next_count' = next_count,
                value' = value
         PROVE  NextCountInv'
  <2>1. \A q \in Philosopher : IsSignaller(q)' <=> IsSignaller(q)
    BY <1>same DEF IsSignaller, Down, OthersStay
  <2> QED BY <1>same, <2>1, SameSignallers
<1>declare. ASSUME NEW old, NEW loc, NEW what, At(i, old), Declare(i, what, loc),
                   \/ old = "hungry" /\ what = "HUNGRY" /\ loc = "test_self"
                   \/ old = "put_down" /\ what = "THINKING" /\ loc = "test_left"
            PROVE  MonitorInv'
  <2>1. /\ SemInv' /\ OthersStay(i) /\ pc'[i] = loc /\ then'[i] = then[i]
        /\ value' = value /\ Token'
    BY <1>declare, <1>goes DEF Declare
  <2>2. /\ state_condvar' = [state_condvar EXCEPT ![i] = what]
        /\ UNCHANGED <<count, next_count, signals, after>>
    BY <1>declare DEF Declare
  <2>3. PhilosopherInv(i)' /\ (IsSignaller(i)' <=> IsSignaller(i))
    BY <1>0, <1>declare, <2>1, <2>2
       DEF At, PhilosopherInv, IsSignaller, IsWaiter, HasForks, Down
  <2>4. MonitorTypeOK' BY <1>0, <1>declare, <2>2 DEF MonitorTypeOK
  <2>5. EatersApart' BY <1>0, <1>declare, <2>2, Ring DEF EatersApart, MonitorTypeOK
  <2>6. NextCountInv' BY <1>same, <2>1, <2>2, <2>3
  <2>7. \A q \in Philosopher \ {i} : state_condvar'[q] = state_condvar[q]
    BY <1>0, <2>2 DEF MonitorTypeOK
  <2> QED BY <2>1, <2>2, <2>3, <2>4, <2>5, <2>6, <2>7, Local
<1>1. CASE Hungry(i) BY <1>1, <1>declare DEF Hungry
<1>2. CASE PutDown(i) BY <1>2, <1>declare DEF PutDown
<1>3. CASE Check(i) /\ state_condvar[i] = "EATING"
  <2>1. At(i, "check") /\ Goto(i, "leave_take") /\ Quiet /\ UNCHANGED monVars
    BY <1>3 DEF Check
  <2>2. /\ SemInv' /\ OthersStay(i) /\ pc'[i] = "leave_take" /\ then'[i] = then[i]
        /\ value' = value /\ Token'
    BY <2>1, <1>goes
  <2>3. UNCHANGED <<state_condvar, count, next_count, signals, after>> BY <2>1 DEF monVars
  <2>4. PhilosopherInv(i)' /\ (IsSignaller(i)' <=> IsSignaller(i))
    BY <1>0, <1>3, <2>1, <2>2, <2>3
       DEF At, PhilosopherInv, IsSignaller, IsWaiter, HasForks, Down
  <2> QED BY <2>2, <2>3, <2>4, Plain
<1>count. ASSUME NEW old, NEW loc, NEW c \in Nat, At(i, old), Goto(i, loc), Quiet,
                 count' = [count EXCEPT ![i] = c],
                 UNCHANGED <<state_condvar, next_count, signals, after>>,
                 \/ old = "check" /\ loc = "wait_release" /\ c = 1
                 \/ old = "wait_end" /\ loc = "check" /\ c = 0
          PROVE  MonitorInv'
  <2>1. /\ SemInv' /\ OthersStay(i) /\ pc'[i] = loc /\ then'[i] = then[i]
        /\ value' = value /\ Token'
    BY <1>count, <1>goes
  <2>2. PhilosopherInv(i)' /\ (IsSignaller(i)' <=> IsSignaller(i))
    BY <1>0, <1>count, <2>1
    DEF At, PhilosopherInv, IsSignaller, IsWaiter, HasForks, Down, MonitorTypeOK
  <2>3. MonitorTypeOK' /\ EatersApart' BY <1>0, <1>count DEF MonitorTypeOK, EatersApart
  <2>4. NextCountInv' BY <1>same, <1>count, <2>1, <2>2
  <2>5. \A q \in Philosopher \ {i} : count'[q] = count[q]
    BY <1>0, <1>count DEF MonitorTypeOK
  <2> QED BY <1>count, <2>1, <2>2, <2>3, <2>4, <2>5, Local
<1>4. CASE Check(i) /\ state_condvar[i] # "EATING"
  <2>1. At(i, "check") /\ Wait(i) BY <1>4 DEF Check
  <2>2. count[i] = 0 BY <1>0, <2>1 DEF At, PhilosopherInv, IsWaiter, Down
  <2>3. count' = [count EXCEPT ![i] = 1] BY <2>1, <2>2 DEF Wait
  <2> QED BY <2>1, <2>3, <1>count DEF Wait
<1>5. CASE WaitEnd(i)
  <2>1. count[i] = 1 BY <1>0, <1>5 DEF WaitEnd, At, PhilosopherInv, IsWaiter
  <2>2. count' = [count EXCEPT ![i] = 0] BY <1>5, <2>1 DEF WaitEnd
  <2> QED BY <1>5, <2>2, <1>count DEF WaitEnd
<1>6. CASE SignalEnd(i)
  <2>1. /\ At(i, "signal_end") /\ next_count' = next_count - 1 /\ Goto(i, after[i]) /\ Quiet
        /\ UNCHANGED <<state_condvar, iter, count, signals, after>>
    BY <1>6 DEF SignalEnd
  <2>2. after[i] \in {"check", "test_right", "leave_put"} /\ IsSignaller(i)
    BY <1>0, <2>1 DEF At, PhilosopherInv, IsSignaller
  <2>3. PICK loc : loc = after[i] OBVIOUS
  <2>4. /\ SemInv' /\ OthersStay(i) /\ pc'[i] = loc /\ then'[i] = then[i]
        /\ value' = value /\ Token'
    BY <2>1, <2>2, <2>3, <1>goes
  <2>5. PhilosopherInv(i)' /\ ~IsSignaller(i)'
    BY <1>0, <2>1, <2>2, <2>3, <2>4
       DEF At, PhilosopherInv, IsSignaller, IsWaiter, HasForks, Down
  <2>6. NextCountInv' /\ next_count' \in Nat
    <3>1. value'[mutex] = 0 BY <2>1, <2>4, InsideAlone
    <3>2. \A q \in Philosopher : IsSignaller(q)' <=> IsSignaller(q) /\ q # i
      BY <2>4, <2>5 DEF IsSignaller, Down, OthersStay
    <3> QED BY <2>1, <2>2, <3>1, <3>2, OneSignallerLess
  <2>7. MonitorTypeOK' /\ EatersApart' BY <1>0, <2>1, <2>6 DEF MonitorTypeOK, EatersApart
  <2> QED BY <2>1, <2>4, <2>5, <2>6, <2>7, Local
<1> QED BY <1>1, <1>2, <1>3, <1>4, <1>5, <1>6

\* phi_test_condvar and the beginning of cond_signal
LEMMA TestKeeps ==
  ASSUME MonitorInv, NEW i \in Philosopher, TestSelf(i) \/ TestLeft(i) \/ TestRight(i)
  PROVE  MonitorInv'
<1> USE DEF Reserved, Inside
<1>0. PhilosopherInv(i) /\ MonitorTypeOK /\ NextCountInv /\ EatersApart BY DEF MonitorInv
<1>1. PICK old, loc, j :
        /\ j \in Philosopher /\ At(i, old) /\ Test(i, j, loc)
        /\ \/ old = "test_self" /\ loc = "check"
           \/ old = "test_left" /\ loc = "test_right"
           \/ old = "test_right" /\ loc = "leave_put"
  BY Ring DEF TestSelf, TestLeft, TestRight
<1>2. PICK to : /\ Goto(i, to) /\ Quiet
                /\ \/ to = loc /\ UNCHANGED <<next_count, signals, after>>
                   \/ /\ to = "signal_up" /\ next_count' = next_count + 1
                      /\ signals' = [signals EXCEPT ![i] = j]
                      /\ after' = [after EXCEPT ![i] = loc]
  BY <1>1 DEF Test, Signal
<1>3. /\ UNCHANGED count
      /\ \/ state_condvar' = state_condvar
         \/ MayEat(j) /\ state_condvar' = [state_condvar EXCEPT ![j] = "EATING"]
  BY <1>1 DEF Test
<1>4. /\ SemInv' /\ OthersStay(i) /\ pc'[i] = to /\ then'[i] = then[i]
      /\ value' = value /\ Token'
  BY <1>1, <1>2, GoesTo
<1>5. MonitorTypeOK' BY <1>0, <1>1, <1>2, <1>3 DEF MonitorTypeOK
<1>6. EatersApart'
  <2> SUFFICES ASSUME NEW q \in Philosopher
               PROVE  ~(state_condvar'[q] = "EATING" /\ state_condvar'[RIGHT(q)] = "EATING")
    BY DEF EatersApart
  <2>1. RIGHT(q) \in Philosopher /\ RIGHT(q) # q /\ LEFT(RIGHT(q)) = q BY Ring
  <2> QED BY <1>0, <1>3, <2>1 DEF MayEat, EatersApart, MonitorTypeOK
<1>7. i \in Proc /\ ~IsSignaller(i) BY <1>1, Threads DEF At, IsSignaller, Down
<1>8. PhilosopherInv(i)'
  <2>1. count'[i] = 0 BY <1>0, <1>1, <1>3 DEF At, PhilosopherInv, IsWaiter, Down
  <2>2. to = "signal_up" => after'[i] = loc BY <1>0, <1>1, <1>2, <1>7 DEF MonitorTypeOK
  <2> QED BY <1>1, <1>2, <1>4, <2>1, <2>2
      DEF PhilosopherInv, IsSignaller, IsWaiter, HasForks, Down
<1>9. NextCountInv'
  <2>1. CASE next_count' = next_count /\ to = loc
    <3>1. \A q \in Philosopher : IsSignaller(q)' <=> IsSignaller(q)
      BY <1>1, <1>4, <1>7, <2>1 DEF IsSignaller, Down, OthersStay
    <3> QED BY <1>4, <2>1, <3>1, SameSignallers
  <2>2. CASE next_count' = next_count + 1 /\ to = "signal_up"
    <3>1. \A q \in Philosopher : IsSignaller(q)' <=> IsSignaller(q) \/ q = i
      BY <1>4, <2>2 DEF IsSignaller, Down, OthersStay
    <3>2. value'[mutex] = 0 BY <1>1, <1>4, InsideAlone
    <3> QED BY <1>7, <2>2, <3>1, <3>2, OneMoreSignaller
  <2> QED BY <1>2, <2>1, <2>2
<1>10. \A q \in Philosopher \ {i} :
         /\ after'[q] = after[q] /\ state_condvar'[q] \in {state_condvar[q], "EATING"}
  BY <1>0, <1>2, <1>3, Threads DEF MonitorTypeOK
<1> QED BY <1>3, <1>4, <1>5, <1>6, <1>8, <1>9, <1>10, Local

LEMMA QuitKeeps ==
  ASSUME MonitorInv, NEW i \in Philosopher, Quit(i)
  PROVE  MonitorInv'
<1> USE DEF Reserved, Inside
<1>1. /\ At(i, "quit") /\ Goto(i, "gone") /\ state' = [state EXCEPT ![i] = "ZOMBIE"]
      /\ UNCHANGED <<current, wait_state, queued, need_resched, semVars, then, monVars>>
  BY DEF Quit
<1>2. /\ current = i /\ pc[i] = "quit" /\ i \in Proc /\ DOMAIN pc = Proc /\ SemInv
      /\ Philosopher \subseteq Proc
  BY <1>1, Acting
<1>3. SemInv' BY <1>1, <1>2, ExitKeeps
<1>4. pc' = [pc EXCEPT ![i] = "gone"] /\ OthersStay(i) BY <1>1, <1>2 DEF Goto, OthersStay
<1>5. \A q \in Philosopher : IsActive(q)' <=> IsActive(q)
  BY <1>1, <1>2, <1>4 DEF IsActive, Down, semVars
<1>6. Token' BY <1>1, <1>5 DEF MonitorInv, Token, semVars
<1>7. UNCHANGED <<state_condvar, count, next_count, signals, after, value, then>>
  BY <1>1 DEF monVars, semVars
<1>8. PhilosopherInv(i) BY DEF MonitorInv
<1>9. PhilosopherInv(i)' /\ (IsSignaller(i)' <=> IsSignaller(i))
  BY <1>2, <1>4, <1>7, <1>8 DEF PhilosopherInv, IsSignaller, IsWaiter, HasForks, Down
<1> QED BY <1>3, <1>4, <1>6, <1>7, <1>9, Plain

LEMMA ActKeeps ==
  ASSUME MonitorInv, NEW i \in Philosopher, Act(i)
  PROVE  MonitorInv'
<1>1. CASE \/ Loop(i) \/ Take(i) \/ LeaveTake(i) \/ Eat(i) \/ SignalUp(i) \/ SignalDown(i)
           \/ WaitRelease(i) \/ WaitDown(i) \/ Put(i) \/ LeavePut(i)
  <2>1. UNCHANGED <<state_condvar, count, next_count, signals, after>>
    BY <1>1
       DEF Loop, Take, LeaveTake, Eat, SignalUp, SignalDown, WaitRelease, WaitDown, Put,
       LeavePut, monVars
  <2> QED BY <1>1, <2>1, CallsKeep
<1> QED BY <1>1, ProcedureKeeps, TestKeeps, QuitKeeps DEF Act

----------------------------------------------------------------------------
\* Threads that come back into a call, or are switched: the token stays where it is.
LEMMA StaysPut ==
  ASSUME MonitorInv, SemInv', UNCHANGED <<semVars, then, monVars>>,
         \A q \in Philosopher : \/ pc'[q] = pc[q]
                                \/ pc[q] = "down_sched" /\ pc'[q] = "down_ret"
                                \/ pc[q] = "sleep_sched" /\ pc'[q] = "sleep_ret"
                                \/ /\ pc[q] = "down_ret" /\ wakeup_flags[q] = "WT_KSEM"
                                   /\ pc'[q] = then[q]
                                \/ pc[q] = "sleep_ret" /\ pc'[q] = then[q]
  PROVE  MonitorInv'
<1> USE DEF Inside
<1>1. UNCHANGED <<value, wakeup_flags, then, state_condvar, count, next_count, signals, after>>
  BY DEF semVars, monVars
<1>2. ASSUME NEW q \in Philosopher
      PROVE  /\ PhilosopherInv(q)'
             /\ IsActive(q)' <=> IsActive(q)
             /\ IsSignaller(q)' <=> IsSignaller(q)
  <2>1. PhilosopherInv(q) BY DEF MonitorInv
  <2> QED BY <1>1, <2>1
      DEF PhilosopherInv, IsActive, IsSignaller, IsWaiter, HasForks, Down
<1>3. Token' BY <1>1, <1>2 DEF MonitorInv, Token
<1>4. NextCountInv' BY <1>1, <1>2, SameSignallers
<1>5. MonitorTypeOK' /\ EatersApart' BY <1>1 DEF MonitorInv, MonitorTypeOK, EatersApart
<1> QED BY <1>2, <1>3, <1>4, <1>5 DEF MonitorInv

LEMMA MonitorStep == MonitorInv /\ [Next]_vars => MonitorInv'
<1> SUFFICES ASSUME MonitorInv, [Next]_vars PROVE MonitorInv' OBVIOUS
<1>0. /\ SemInv /\ SemTypeOK /\ Philosopher \subseteq Proc /\ Proc \ {Idle} \subseteq Philosopher
      /\ DOMAIN pc = Proc
  BY Threads DEF MonitorInv, SemInv, SemTypeOK
<1>1. CASE \E i \in Philosopher : Act(i) BY <1>1, ActKeeps
<1>2. CASE Returning /\ UNCHANGED monVars
  <2>1. SemInv' BY <1>0, <1>2, ReturnKeeps
  <2>2. PICK i \in Philosopher :
          /\ pc' = [pc EXCEPT ![i] = then[i]]
          /\ UNCHANGED <<semVars, then>>
          /\ \/ pc[i] = "down_ret" /\ wakeup_flags[i] = "WT_KSEM"
             \/ pc[i] = "sleep_ret"
    BY <1>0, <1>2, BackInDown, BackInSleep DEF Returning
  <2> QED BY <1>0, <1>2, <2>1, <2>2, StaysPut
<1>3. CASE Interrupt /\ UNCHANGED monVars BY <1>0, <1>3, InterruptKeeps, StaysPut
<1>4. ASSUME NEW next \in Proc, Switch(next) PROVE MonitorInv'
  <2>1. (Switching(next) \/ CallSchedule("gone", "gone", next)) /\ UNCHANGED monVars
    BY <1>4 DEF Switch, GoneSchedule
  <2>2. /\ SemInv' /\ UNCHANGED <<semVars, then>>
        /\ \A p \in Proc : pc'[p] = IF pc[p] = "down_sched" THEN "down_ret"
                                    ELSE IF pc[p] = "sleep_sched" THEN "sleep_ret" ELSE pc[p]
    BY <1>0, <2>1, ScheduleKeeps, IdleAssumption
  <2> QED BY <1>0, <2>1, <2>2, StaysPut
<1>5. CASE UNCHANGED vars
  <2>1. SemInv'
    BY <1>0, <1>5, StillKeeps DEF vars, semAll, schedVars, SemTypeOK, SchedTypeOK
  <2> QED BY <1>5, <2>1, StaysPut DEF vars, semAll
<1> QED BY <1>1, <1>2, <1>3, <1>4, <1>5 DEF Next

LEMMA MonitorInvariant == Spec => []MonitorInv
BY MonitorInit, MonitorStep, PTL DEF Spec

\* The monitor is one thread's at a time, and a thread's that waits for it can get it
\* when it is nobody's (monitor.c: the mutex, next and the condition variables).
THEOREM MonitorExcludes == Spec => []OneInside
<1>1. MonitorInv => OneInside
  <2> SUFFICES ASSUME MonitorInv PROVE OneInside OBVIOUS
  <2> DEFINE Open == {i \in Philosopher : value[i] > 0}
  <2>1. Active = {q \in Philosopher : IsActive(q)} BY DEF Active, IsActive, Down
  <2>2. CASE /\ \A s \in Semaphore : value[s] = 0
             /\ \E i \in Philosopher : \A q \in Philosopher : IsActive(q) <=> q = i
    <3>1. PICK i \in Philosopher : Active = {i} BY <2>1, <2>2
    <3>2. Cardinality(Active) = 1 BY <3>1, FS_Singleton
    <3>3. Open = {} /\ value[mutex] = 0 /\ value[next_sem] = 0 BY <2>2, Threads
    <3> QED BY <3>2, <3>3, FS_EmptySet DEF OneInside
  <2>3. CASE /\ \A q \in Philosopher : ~IsActive(q)
             /\ \E s \in Semaphore : \A r \in Semaphore : value[r] = IF r = s THEN 1 ELSE 0
    <3>1. Cardinality(Active) = 0
      <4>1. Active = {} BY <2>1, <2>3
      <4> QED BY <4>1, FS_EmptySet
    <3>2. PICK s \in Semaphore : \A r \in Semaphore : value[r] = IF r = s THEN 1 ELSE 0
      BY <2>3
    <3>3. CASE s \in Philosopher
      <4>1. Open = {s} /\ value[mutex] = 0 /\ value[next_sem] = 0 BY <3>2, <3>3, Threads
      <4>2. Cardinality(Open) = 1 BY <4>1, FS_Singleton
      <4> QED BY <3>1, <4>1, <4>2 DEF OneInside
    <3>4. CASE s \notin Philosopher
      <4>1. Open = {} /\ value[mutex] + value[next_sem] = 1 BY <3>2, <3>4, Threads
      <4>2. value[mutex] \in Nat /\ value[next_sem] \in Nat BY <3>2, Threads
      <4> QED BY <3>1, <4>1, <4>2, FS_EmptySet DEF OneInside
    <3> QED BY <3>3, <3>4
  <2> QED BY <2>2, <2>3 DEF MonitorInv, Token
<1> QED BY <1>1, MonitorInvariant, PTL

\* next_count and the counts of the condition variables are exact, and no signaller is
\* left behind when the mutex is free (cond_signal, cond_wait).
THEOREM CountersExact == Spec => []CountsExact
<1>1. MonitorInv => CountsExact
  BY DEF MonitorInv, CountsExact, NextCountInv, PhilosopherInv, IsWaiter, Down
<1> QED BY <1>1, MonitorInvariant, PTL

\* Two neighbours never eat at the same time (phi_test_condvar,
\* phi_take_forks_condvar, phi_put_forks_condvar).
THEOREM NeighboursNeverEat == Spec => []NeighboursExclude
<1>1. MonitorInv => NeighboursExclude
  BY Ring DEF MonitorInv, NeighboursExclude, PhilosopherInv, EatersApart
<1> QED BY <1>1, MonitorInvariant, PTL

=============================================================================
