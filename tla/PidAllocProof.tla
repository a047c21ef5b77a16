--------------------------- MODULE PidAllocProof ---------------------------
(***************************************************************************)
(* Proofs about PidAlloc, for any number of processes and of pids: what    *)
(* get_pid remembers between calls is true, so that the pid it returns is  *)
(* in use by nobody, and is the next free one.                             *)
(***************************************************************************)
EXTENDS PidAlloc, TLAPS

USE PidAssumption

\* Passing a pid that is in use leaves only pids in use behind, be it by one
\* step up or around the end of the range.
LEMMA StepPastUsed ==
  ASSUME NEW a \in 1..MAX_PID, NEW b \in Pid
  PROVE  Between(a, IF b + 1 >= MAX_PID THEN 1 ELSE b + 1) \subseteq Between(a, b) \cup {b}
BY DEF Between, Pid

\* Before the first process is forked nothing is in use.
LEMMA InitEstablishes == Init => IInv
BY DEF Init, IInv, TypeOK, WindowFree, Unique, NextFree, Pid

\* A call starts with nothing passed over, and with its window closed or free.
LEMMA EnterKeeps == IInv /\ Enter => IInv'
<1> SUFFICES ASSUME IInv, Enter PROVE IInv'
  OBVIOUS
<1> USE DEF IInv, Enter
<1>1. TypeOK'
  BY DEF TypeOK, Pid
<1>2. Between(from, last_pid)' = {}
  BY DEF TypeOK, Between, Pid
<1>3. WindowFree' /\ Unique'
  BY DEF TypeOK, WindowFree, Unique, Pid
<1> QED BY <1>1, <1>2, <1>3 DEF NextFree

\* A step of the walk: the part of the list that has been passed leaves the
\* window free, and last_pid only moves past pids in use.
LEMMA WalkKeeps == IInv /\ Walk => IInv'
<1> SUFFICES ASSUME IInv, Walk PROVE IInv'
  OBVIOUS
<1> USE DEF IInv
<1>1. PICK q \in unseen : Collide(q) \/ Pass(q)
  BY DEF Walk
<1>2. /\ pc = "walk" /\ q \in pids /\ pids' = pids /\ from' = from
      /\ unseen \subseteq pids /\ pids \subseteq Pid
      /\ last_pid \in 1..MAX_PID /\ next_safe \in 1..MAX_PID /\ last_pid < next_safe
      /\ from \in 1..MAX_PID
  BY <1>1 DEF Walk, TypeOK, WindowFree
<1>3. CASE Pass(q)
  <2>1. TypeOK' /\ NextFree'
    BY <1>2, <1>3 DEF Pass, TypeOK, NextFree, Between, Pid
  <2>2. WindowFree' /\ Unique'
    BY <1>2, <1>3 DEF Pass, WindowFree, Unique, Pid
  <2> QED BY <2>1, <2>2
<1>4. CASE Collide(q) /\ last_pid + 1 < next_safe
  <2>1. last_pid' = last_pid + 1 /\ next_safe' = next_safe /\ pc' = "walk" /\ unseen' = unseen \ {q}
    BY <1>2, <1>4 DEF Collide
  <2>2. TypeOK'
    BY <1>2, <2>1 DEF TypeOK
  <2>3. WindowFree' /\ Unique'
    <3>1. q = last_pid
      BY <1>4 DEF Collide
    <3>2. \A r \in pids \ unseen : r < last_pid \/ r >= next_safe
      BY <1>2 DEF WindowFree
    <3>3. ASSUME NEW r \in pids' \ unseen'
          PROVE  r < last_pid' \/ r >= next_safe'
      <4>1. r \in Pid /\ (r = last_pid \/ r \in pids \ unseen)
        BY <1>2, <2>1, <3>1
      <4>2. last_pid \in Nat /\ next_safe \in Nat /\ r \in Nat
        BY <1>2, <4>1 DEF Pid
      <4> QED BY <2>1, <3>2, <4>1, <4>2
    <3> QED BY <1>2, <1>4, <2>1, <3>3 DEF WindowFree, Unique
  <2>4. NextFree'
    BY <1>2, <1>4, <2>1, StepPastUsed DEF Collide, NextFree, Between, Pid
  <2> QED BY <2>2, <2>3, <2>4
<1>5. CASE Collide(q) /\ ~(last_pid + 1 < next_safe)
  <2>1. /\ last_pid' = IF last_pid + 1 >= MAX_PID THEN 1 ELSE last_pid + 1
        /\ next_safe' = MAX_PID /\ pc' = "repeat" /\ unseen' = {} /\ q = last_pid
    BY <1>2, <1>5 DEF Collide, Restart
  <2>2. TypeOK' /\ WindowFree' /\ Unique'
    BY <1>2, <2>1 DEF TypeOK, WindowFree, Unique, Pid
  <2>3. Between(from, last_pid)' \subseteq Between(from, last_pid) \cup {last_pid}
    BY <1>2, <2>1, StepPastUsed DEF Between, Pid
  <2>4. NextFree'
    BY <1>2, <2>1, <2>3 DEF NextFree
  <2> QED BY <2>2, <2>4
<1> QED BY <1>1, <1>3, <1>4, <1>5

\* Every step of the allocator and of its users keeps the invariant.
LEMMA StepKeeps == IInv /\ [Next]_vars => IInv'
<1> SUFFICES ASSUME IInv, [Next]_vars PROVE IInv'
  OBVIOUS
<1> USE DEF IInv, TypeOK, WindowFree, Unique, NextFree, Pid
<1>1. CASE Enter
  BY <1>1, EnterKeeps
<1>2. CASE Repeat
  BY <1>2 DEF Repeat, Between
<1>3. CASE Walk
  BY <1>3, WalkKeeps
<1>4. CASE WalkEnds
  BY <1>4 DEF WalkEnds, Between
<1>5. CASE Link
  BY <1>5 DEF Link, Between
<1>6. CASE \E q \in pids : Unlink(q)
  BY <1>6 DEF Unlink, Between
<1>7. CASE UNCHANGED vars
  BY <1>7 DEF vars, Between
<1> QED BY <1>1, <1>2, <1>3, <1>4, <1>5, <1>6, <1>7 DEF Next

\* The invariant of get_pid and its statics.
THEOREM Invariant == Spec => []IInv
BY InitEstablishes, StepKeeps, PTL DEF Spec

\* Pids are unique.
THEOREM PidsUnique == Spec => []Unique
<1>1. IInv => Unique
  BY DEF IInv
<1> QED BY Invariant, <1>1, PTL

\* Pids are given out in turn.
THEOREM PidsInTurn == Spec => []NextFree
<1>1. IInv => NextFree
  BY DEF IInv
<1> QED BY Invariant, <1>1, PTL

=============================================================================
