------------------------------ MODULE PageSpec ------------------------------
(***************************************************************************)
(* What a physical memory manager is to its callers: a set of free pages.  *)
(* A request for n pages is answered with the lowest n free pages that     *)
(* follow each other, and refused only when there are no such pages.       *)
(***************************************************************************)
EXTENDS Integers

CONSTANTS Page, Usable, NULL
VARIABLES
  free,   \* the free pages
  asked,  \* how many pages the last call asked for; 0 if it gave pages back
  answer  \* what it was answered

SpecInit == free = Usable /\ asked = 0 /\ answer = NULL

Run(base, n) == base .. base + n - 1

\* Where n free pages follow each other.
Fits(n) == {base \in Page : Run(base, n) \subseteq free}

Grant(n) ==
  /\ asked' = n
  /\ \E base \in Fits(n) :
       /\ \A other \in Fits(n) : base <= other
       /\ free' = free \ Run(base, n)
       /\ answer' = base

Refuse(n) == Fits(n) = {} /\ asked' = n /\ answer' = NULL /\ UNCHANGED free

Return(base, n) ==
  /\ Run(base, n) \cap free = {}
  /\ free' = free \cup Run(base, n)
  /\ asked' = 0 /\ answer' = NULL

SpecNext ==
  \/ \E n \in {asked'} : n \in Nat \ {0} /\ (Grant(n) \/ Refuse(n))
  \/ \E base, last \in Page : base <= last /\ Return(base, last - base + 1)

PageSpec == SpecInit /\ [][SpecNext]_<<free, asked, answer>>
============================================================================
