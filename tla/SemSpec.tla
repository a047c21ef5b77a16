------------------------------ MODULE SemSpec ------------------------------
(***************************************************************************)
(* What a semaphore is to those who use it: a number of units. up adds     *)
(* one, a down that completes has taken one, and there are never more      *)
(* downs completed than units provided.                                    *)
(***************************************************************************)
EXTENDS Integers

CONSTANTS Semaphore, Initial
VARIABLE units

SpecInit == units = Initial

Provide(s) == units' = [units EXCEPT ![s] = @ + 1]
Take(s) == units[s] > 0 /\ units' = [units EXCEPT ![s] = @ - 1]

SemSpec == SpecInit /\ [][\E s \in Semaphore : Provide(s) \/ Take(s)]_units
============================================================================
