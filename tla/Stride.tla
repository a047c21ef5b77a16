------------------------------- MODULE Stride -------------------------------
(***************************************************************************)
(* The arithmetic of the stride scheduler, kern/schedule/default_sched.c:  *)
(* how strides, which wrap around, are advanced and compared.              *)
(***************************************************************************)
EXTENDS Integers

CONSTANT BIG_STRIDE  \* the largest int32: strides are kept modulo twice one more

ASSUME StrideAssumption == BIG_STRIDE \in Nat \ {0}

Wrap == 2 * (BIG_STRIDE + 1)
Stride == 0 .. Wrap - 1

\* stride_pick_next; a priority of 0 has not been set.
Advanced(stride, priority) ==
  (stride + (IF priority = 0 THEN BIG_STRIDE ELSE BIG_STRIDE \div priority)) % Wrap

\* Mutant: strides are compared as they are.
Mut_Before(a, b) == a < b

\* proc_stride_comp_f is -1: the difference, as an int32, is negative.
Before(a, b) == (a - b) % Wrap > BIG_STRIDE

----------------------------------------------------------------------------
\* The strides s of S are within BIG_STRIDE of the one of m, the least.
Ahead(a, m) == (a - m) % Wrap
Reach(s, m, S) == \A q \in S : Ahead(s[q], s[m]) <= BIG_STRIDE
Together(s, S) == \E m \in S : Reach(s, m, S)
=============================================================================
