------------------------------ MODULE PidAlloc ------------------------------
(***************************************************************************)
(* The allocation of process ids: get_pid in kern/process/proc.c, called   *)
(* by do_fork, and the release of a pid when do_wait unlinks a process.    *)
(*                                                                         *)
(* get_pid remembers the last pid it gave out and next_safe, below which   *)
(* it knows of no other pid in use, so that most calls need no search. When *)
(* the window is used up it walks proc_list, moving last_pid up past the   *)
(* pids it meets and next_safe down to the nearest one above. The walk     *)
(* starts again when the window closes on it. Processes come and go        *)
(* between calls, never during one: do_fork holds interrupts off.          *)
(* The order of proc_list does not matter to any of this and is left open. *)
(***************************************************************************)
EXTENDS Integers, FiniteSets

CONSTANTS
  MAX_PROCESS,  \* bound on the processes, idleproc included
  MAX_PID       \* bound on the pids

\* static_assert in get_pid
ASSUME PidAssumption ==
  /\ MAX_PROCESS \in Nat \ {0, 1}
  /\ MAX_PID \in Nat
  /\ MAX_PID > MAX_PROCESS

VARIABLES
  pids,       \* the pids of the processes in proc_list
  last_pid,   \* the pid given out last, or being tried
  next_safe,  \* no pid between last_pid and next_safe is in use
  pc,         \* "out" of get_pid, at "repeat", in the "walk", or at "return"
  unseen,     \* what the walk along proc_list has still to pass
  from        \* history: the pid given out before this call

vars == <<pids, last_pid, next_safe, pc, unseen, from>>

Pid == 1 .. MAX_PID - 1

TypeOK ==
  /\ pids \subseteq Pid
  /\ last_pid \in 1..MAX_PID
  /\ next_safe \in 1..MAX_PID
  /\ pc \in {"out", "repeat", "walk", "return"}
  /\ unseen \subseteq pids
  /\ from \in 1..MAX_PID

Init ==
  /\ pids = {}
  /\ last_pid = MAX_PID
  /\ next_safe = MAX_PID
  /\ pc = "out"
  /\ unseen = {}
  /\ from = MAX_PID

----------------------------------------------------------------------------
\* do_fork counts the processes, idleproc with them, before it asks for a pid.
Mut_Enter ==
  /\ pc = "out"
  /\ Cardinality(pids) + 1 < MAX_PROCESS
  /\ IF last_pid + 1 < next_safe
     THEN last_pid' = last_pid + 1 /\ UNCHANGED next_safe /\ pc' = "return"
     ELSE last_pid' = 1 /\ next_safe' = MAX_PID /\ pc' = "repeat"
  /\ from' = last_pid
  /\ UNCHANGED <<pids, unseen>>
Enter ==
  /\ pc = "out"
  /\ Cardinality(pids) + 1 < MAX_PROCESS
  /\ last_pid' = IF last_pid + 1 >= MAX_PID THEN 1 ELSE last_pid + 1
  /\ IF last_pid + 1 < MAX_PID /\ last_pid + 1 < next_safe
     THEN UNCHANGED next_safe /\ pc' = "return"
     ELSE next_safe' = MAX_PID /\ pc' = "repeat"
  /\ from' = last_pid
  /\ UNCHANGED <<pids, unseen>>

Repeat ==
  /\ pc = "repeat"
  /\ unseen' = pids
  /\ pc' = "walk"
  /\ UNCHANGED <<pids, last_pid, next_safe, from>>

\* The pid being tried is in use: try the next one, from the start of the list
\* (and from pid 1 after the last pid) when that leaves the window.
Mut_Restart == last_pid' = 1 /\ next_safe' = MAX_PID
Restart ==
  /\ last_pid' = IF last_pid + 1 >= MAX_PID THEN 1 ELSE last_pid + 1
  /\ next_safe' = MAX_PID

Mut_Collide(q) ==
  /\ q = last_pid
  /\ last_pid' = IF last_pid + 1 >= MAX_PID THEN 1 ELSE last_pid + 1
  /\ UNCHANGED next_safe /\ pc' = "walk" /\ unseen' = unseen \ {q}
Collide(q) ==
  /\ q = last_pid
  /\ IF last_pid + 1 >= next_safe
     THEN Restart /\ pc' = "repeat" /\ unseen' = {}
     ELSE last_pid' = last_pid + 1 /\ UNCHANGED <<next_safe, pc>> /\ unseen' = unseen \ {q}

Pass(q) ==
  /\ q # last_pid
  /\ next_safe' = IF q > last_pid /\ next_safe > q THEN q ELSE next_safe
  /\ unseen' = unseen \ {q}
  /\ UNCHANGED <<last_pid, pc>>

Walk ==
  /\ pc = "walk"
  /\ \E q \in unseen : Collide(q) \/ Pass(q)
  /\ UNCHANGED <<pids, from>>

WalkEnds ==
  /\ pc = "walk" /\ unseen = {}
  /\ pc' = "return"
  /\ UNCHANGED <<pids, last_pid, next_safe, unseen, from>>

\* hash_proc and set_links in do_fork
Link ==
  /\ pc = "return"
  /\ pids' = pids \cup {last_pid}
  /\ pc' = "out"
  /\ UNCHANGED <<last_pid, next_safe, unseen, from>>

\* unhash_proc and remove_links in do_wait; initproc, pid 1, is never reaped.
Unlink(q) ==
  /\ pc = "out"
  /\ q # 1
  /\ pids' = pids \ {q}
  /\ UNCHANGED <<last_pid, next_safe, pc, unseen, from>>

Next == Enter \/ Repeat \/ Walk \/ WalkEnds \/ Link \/ \E q \in pids : Unlink(q)

Spec == Init /\ [][Next]_vars

\* get_pid runs with interrupts off, to its end.
FairSpec == Spec /\ WF_vars(Repeat \/ Walk \/ WalkEnds)

----------------------------------------------------------------------------
\* No two processes share a pid: the one get_pid returns is in use by nobody,
\* whatever processes have gone since the window was computed.
Unique == pc = "return" => last_pid \in Pid \ pids

\* The window is free of pids while no call is in progress, and the part of
\* the list the walk has passed leaves it free.
WindowFree ==
  /\ pc \in {"out", "return"} =>
       \A q \in pids : ~(last_pid < q /\ q < next_safe)
  /\ pc = "walk" =>
       /\ last_pid < next_safe
       /\ \A q \in pids \ unseen : q < last_pid \/ q >= next_safe
  /\ pc = "repeat" => last_pid < next_safe /\ next_safe = MAX_PID
  /\ pc # "walk" => unseen = {}

\* The pids passed over on the way from a to b, upwards and around.
Between(a, b) == {x \in Pid : IF a < b THEN a < x /\ x < b ELSE x > a \/ x < b}

\* Pids are given out in turn: get_pid answers the first free pid after the one
\* it answered before, so a pid that has been released comes back only when
\* the others have had their turn (the static last_pid and its wrap to 1).
NextFree == pc # "out" => Between(from, last_pid) \subseteq pids

IInv == TypeOK /\ WindowFree /\ Unique /\ NextFree

\* get_pid returns: the search restarts at most until it reaches a free pid,
\* and there is one, for there are more pids than processes.
Returns == pc # "out" ~> pc = "return"

============================================================================
