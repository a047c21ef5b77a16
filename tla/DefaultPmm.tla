----------------------------- MODULE DefaultPmm -----------------------------
(***************************************************************************)
(* The first-fit page allocator, kern/mm/default_pmm.c. Every free page is *)
(* linked in free_list, in the order of addresses; the first page of a     *)
(* block of free pages has the length of the block in "property", the      *)
(* others have 0 there. Nothing clears the property of a page that is      *)
(* given out, so that what it holds meanwhile is stale.                    *)
(*                                                                         *)
(* alloc_pages and free_pages of kern/mm/pmm.c hold interrupts off around  *)
(* the allocator, which makes each call one step.                          *)
(***************************************************************************)
EXTENDS Integers, Sequences, SequencesExt, FiniteSets, FiniteSetsExt

CONSTANTS
  NPAGE,  \* npage
  Usable, \* the pages page_init hands to init_memmap; each gap starts a new block
  NULL    \* alloc_pages' answer when it has no block

ASSUME PageAssumption == NPAGE \in Nat /\ Usable \subseteq 0 .. NPAGE - 1 /\ NULL \notin Nat

VARIABLES
  free_list,  \* the pages linked in free_area.free_list, in list order
  property,   \* page->property
  nr_free,    \* free_area.nr_free
  held,       \* what the callers have: runs of pages as records [base, n]
  asked,      \* the pages the last call asked alloc_pages for; 0 if it was free_pages
  answer      \* what it returned

callVars == <<asked, answer>>
pageVars == <<free_list, property, nr_free, held, callVars>>

Page == 0 .. NPAGE - 1
Run(base, n) == base .. base + n - 1

\* The blocks of a set of pages: its maximal runs, by their first pages.
Heads(S) == {p \in S : p - 1 \notin S}
RunLength(S, p) == CHOOSE n \in 1..NPAGE : Run(p, n) \subseteq S /\ p + n \notin S

\* page_init calls init_memmap for each usable area, in the order of addresses.
Ascending(S) ==
  CHOOSE s \in [1 .. Cardinality(S) -> S] : \A i, j \in DOMAIN s : i < j => s[i] < s[j]

Init ==
  /\ free_list = Ascending(Usable)
  /\ property = [p \in Page |-> IF p \in Heads(Usable) THEN RunLength(Usable, p) ELSE 0]
  /\ nr_free = Cardinality(Usable)
  /\ held = {}
  /\ asked = 0 /\ answer = NULL

\* assert(n > 0), of a size_t
Asserted(n) == n \in Nat \ {0}

----------------------------------------------------------------------------
(* default_alloc_pages                                                     *)

Fitting(n) == {i \in DOMAIN free_list : property[free_list[i]] >= n}

\* The first n pages of the block go; the page then at the front of the rest
\* becomes its first.
Mut_RestProperty(i, n) == property
RestProperty(i, n) ==
  LET p == free_list[i] IN
  IF property[p] > n THEN [property EXCEPT ![free_list[i + n]] = property[p] - n]
  ELSE property

Alloc(n) ==
  /\ Asserted(n) /\ n <= nr_free /\ Fitting(n) # {}
  /\ LET i == Min(Fitting(n)) IN
     /\ free_list' = SubSeq(free_list, 1, i - 1)
                       \o SubSeq(free_list, i + n, Len(free_list))
     /\ property' = RestProperty(i, n)
     /\ held' = held \cup {[base |-> free_list[i], n |-> n]}
     /\ answer' = free_list[i]
  /\ nr_free' = nr_free - n
  /\ asked' = n

AllocFails(n) ==
  /\ Asserted(n)
  /\ n > nr_free \/ Fitting(n) = {}
  /\ asked' = n /\ answer' = NULL
  /\ UNCHANGED <<free_list, property, nr_free, held>>

----------------------------------------------------------------------------
(* default_free_pages                                                      *)

\* The pages are linked before the first one with a higher address, or at the end.
Place(base) == Min({i \in DOMAIN free_list : free_list[i] > base} \cup {Len(free_list) + 1})
Below(base) == SubSeq(free_list, 1, Place(base) - 1)
Above(base) == SubSeq(free_list, Place(base), Len(free_list))

\* The block takes over the one behind it, then goes to the one before it, whose
\* first page is found by walking back to a page with a property.
JoinNext(prop, base, n) ==
  LET above == Above(base) IN
  IF above # <<>> /\ Head(above) = base + n
  THEN [prop EXCEPT ![base] = @ + prop[base + n], ![base + n] = 0]
  ELSE prop

Mut_JoinPrevious(prop, base) ==
  IF Below(base) # <<>> /\ Last(Below(base)) = base - 1 /\ prop[base - 1] # 0
  THEN [prop EXCEPT ![base - 1] = @ + prop[base], ![base] = 0]
  ELSE prop
JoinPrevious(prop, base) ==
  LET heads == {p \in ToSet(Below(base)) : prop[p] # 0} IN
  IF Below(base) # <<>> /\ Last(Below(base)) = base - 1 /\ heads # {}
  THEN [prop EXCEPT ![Max(heads)] = @ + prop[base], ![base] = 0]
  ELSE prop

\* A caller may give back part of what it was given (default_check does).
Parts(run) ==
  {part \in Page \X (1..NPAGE) : Run(part[1], part[2]) \subseteq Run(run.base, run.n)}
Without(run, base, n) ==
  {r \in {[base |-> run.base, n |-> base - run.base],
          [base |-> base + n, n |-> run.base + run.n - base - n]} : r.n > 0}

Free(run, base, n) ==
  /\ Asserted(n)
  /\ free_list' = Below(base) \o [i \in 1..n |-> base + i - 1] \o Above(base)
  /\ property' = JoinPrevious(JoinNext([property EXCEPT ![base] = n], base, n), base)
  /\ nr_free' = nr_free + n
  /\ held' = (held \ {run}) \cup Without(run, base, n)
  /\ asked' = 0 /\ answer' = NULL

\* The calls of those who ask for pages themselves; mine are the runs they have.
PageCall(mine) ==
  \/ \E n \in 1..NPAGE + 1 : Alloc(n) \/ AllocFails(n)
  \/ \E run \in mine : \E part \in Parts(run) : Free(run, part[1], part[2])

----------------------------------------------------------------------------
\* The list describes the free pages as blocks that cannot be joined any more:
\* pages in the order of addresses, each first page of a maximal run with the
\* length of the run, 0 on the others, whatever stale property a page came back
\* with; and nr_free counts them.
BlocksMaximal ==
  LET S == ToSet(free_list) IN
  /\ \A i \in 1 .. Len(free_list) - 1 : free_list[i] < free_list[i + 1]
  /\ \A p \in S : property[p] = IF p \in Heads(S) THEN RunLength(S, p) ELSE 0
  /\ nr_free = Cardinality(S)

\* A caller's request is met whenever enough free pages follow each other, with
\* the lowest of them, and no page is given to two callers.
Contract == INSTANCE PageSpec WITH free <- ToSet(free_list)
FirstFit == Contract!PageSpec
============================================================================
