----------------------------- MODULE TimerSpec -----------------------------
(***************************************************************************)
(* What the kernel's timers promise their users (do_sleep): independent    *)
(* countdowns. Every timer that is running loses one tick at each call of  *)
(* run_timer_list, and its process is woken in the call that uses up the   *)
(* last tick. Module Proc is written against this contract; module Timers, *)
(* the delta list of kern/schedule/sched.c, implements it.                 *)
(***************************************************************************)
EXTENDS Integers

CONSTANTS
  Proc,       \* the processes, each with one timer_t in the frame of do_sleep
  MaxExpires  \* bound on the ticks asked for

VARIABLES
  left,  \* ticks left on each timer, 0: not running
  woken  \* the processes woken in the last step

SpecInit == left = [p \in Proc |-> 0] /\ woken = {}

Start(p) ==
  /\ left[p] = 0
  /\ \E t \in 1..MaxExpires : left' = [left EXCEPT ![p] = t]
  /\ woken' = {}

Stop(p) == left' = [left EXCEPT ![p] = 0] /\ woken' = {}

Elapse ==
  /\ left' = [p \in Proc |-> IF left[p] > 0 THEN left[p] - 1 ELSE 0]
  /\ woken' = {p \in Proc : left[p] = 1}

SpecNext == Elapse \/ \E p \in Proc : Start(p) \/ Stop(p)

TimerSpec == SpecInit /\ [][SpecNext]_<<left, woken>>
============================================================================
