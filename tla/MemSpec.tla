------------------------------ MODULE MemSpec ------------------------------
(***************************************************************************)
(* What address spaces are to processes: memories of their own. A fork     *)
(* makes a copy, an execve a memory that depends on the program alone, and *)
(* a page that has never been touched is filled when it first is.          *)
(***************************************************************************)
CONSTANTS Proc, Page, Program, Gone, Untouched, Junk

VARIABLE memory  \* the pages of each process, or Gone

Set(p, new) == memory' = [memory EXCEPT ![p] = new]
Has(p) == memory[p] # Gone

Begin == memory = [p \in Proc |-> Gone]

\* A program, as what it has on every page when it starts
Exec(p) == \E program \in Program : Set(p, program)
Fork(p, c) == Has(p) /\ ~Has(c) /\ Set(c, memory[p])
Exit(p) == Has(p) /\ Set(p, Gone)
Touch(p, v) == Has(p) /\ memory[p][v] = Untouched /\ Set(p, [memory[p] EXCEPT ![v] = Junk])
Write(p, v) == Has(p) /\ Set(p, [memory[p] EXCEPT ![v] = p])

Halt == memory' = [p \in Proc |-> Gone]

Step ==
  \/ Halt
  \/ \E p \in Proc :
    \/ Exec(p) \/ Exit(p)
    \/ \E c \in Proc : Fork(p, c)
    \/ \E v \in Page : Touch(p, v) \/ Write(p, v)

MemSpec == Begin /\ [][Step]_memory
============================================================================
