------------------------------- MODULE Timers -------------------------------
(***************************************************************************)
(* The timer list of kern/schedule/sched.c. Timers are kept in the order   *)
(* they will expire, and each holds the ticks that separate it from the    *)
(* one before it, so that run_timer_list only touches the first. The three *)
(* operations are interrupt-free sections, hence one step each; they are   *)
(* called by do_sleep on its way in and out, and by the timer interrupt at *)
(* any moment in between. Module Schedule composes them with the rest of   *)
(* the scheduler.                                                          *)
(***************************************************************************)
EXTENDS Integers, Sequences, SequencesExt

CONSTANTS
  Proc,       \* the processes, each with one timer_t in the frame of do_sleep
  MaxExpires  \* bound on the ticks asked for

VARIABLES
  timer_list,  \* the linked timers, in list order: records [proc, expires]
  asleep,      \* processes between add_timer and del_timer in do_sleep
  woken        \* the processes that wakeup_proc was called on in the last step

vars == <<timer_list, asleep, woken>>

Linked == {timer_list[i].proc : i \in DOMAIN timer_list}

Init == timer_list = <<>> /\ asleep = {} /\ woken = {}

----------------------------------------------------------------------------
\* add_timer walks past the timers that expire no later, counting their ticks
\* off its own, and takes its own off the one it comes to stand before.
RECURSIVE Inserted(_, _, _)
Inserted(list, p, t) ==
  IF list = <<>> THEN <<[proc |-> p, expires |-> t]>>
  ELSE LET next == Head(list) IN
       IF t < next.expires
       THEN <<[proc |-> p, expires |-> t], [next EXCEPT !.expires = @ - t]>> \o Tail(list)
       ELSE <<next>> \o Inserted(Tail(list), p, t - next.expires)

AddTimer(p) ==
  /\ p \notin asleep
  /\ \E t \in 1..MaxExpires : timer_list' = Inserted(timer_list, p, t)
  /\ asleep' = asleep \cup {p}
  /\ woken' = {}

\* del_timer hands the ticks of the timer it unlinks to the one behind it.
Mut_Unlinked(list, i) == RemoveAt(list, i)
Unlinked(list, i) ==
  LET handed == IF i < Len(list)
                THEN [list EXCEPT ![i + 1].expires = @ + list[i].expires] ELSE list
  IN RemoveAt(handed, i)

\* An unlinked timer is left alone: the interrupt has taken it out already.
DelTimer(p) ==
  /\ p \in asleep
  /\ asleep' = asleep \ {p}
  /\ timer_list' = IF p \in Linked
                   THEN Unlinked(timer_list,
                                 CHOOSE i \in DOMAIN timer_list : timer_list[i].proc = p)
                   ELSE timer_list
  /\ woken' = {}

----------------------------------------------------------------------------
\* run_timer_list counts down the first timer, then wakes and unlinks timers
\* from the front for as long as they have no ticks left.
Mut_Expired(list) == IF list # <<>> /\ Head(list).expires = 0 THEN 1 ELSE 0
Expired(list) ==
  LET done == {n \in 0..Len(list) : \A i \in 1..n : list[i].expires = 0}
  IN CHOOSE n \in done : \A m \in done : m <= n

RunTimerList ==
  /\ LET counted == IF timer_list = <<>> THEN <<>>
                    ELSE [timer_list EXCEPT ![1].expires = @ - 1]
         n == Expired(counted)
     IN /\ timer_list' = SubSeq(counted, n + 1, Len(counted))
        /\ woken' = {counted[i].proc : i \in 1..n}
  /\ UNCHANGED asleep

----------------------------------------------------------------------------
\* The ticks left on a timer are the sum of the list up to it.
RECURSIVE TicksUpTo(_)
TicksUpTo(i) == IF i = 0 THEN 0 ELSE timer_list[i].expires + TicksUpTo(i - 1)
Left == [p \in Proc |->
          IF p \in Linked
          THEN TicksUpTo(CHOOSE i \in DOMAIN timer_list : timer_list[i].proc = p) ELSE 0]

\* The list implements independent countdowns: adding and removing timers
\* around it never changes when a timer expires, and each process is woken in
\* the very call in which its count ends.
Contract == INSTANCE TimerSpec WITH left <- Left
Countdowns == Contract!TimerSpec
============================================================================
