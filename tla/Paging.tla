------------------------------- MODULE Paging -------------------------------
(***************************************************************************)
(* Page frames, page tables and swapping: kern/mm/pmm.c above the page     *)
(* allocator, kern/mm/swap.c with the FIFO manager kern/mm/swap_fifo.c,    *)
(* and kern/fs/swap/swapfs.c. None of this is left in the middle by a      *)
(* switch or looked at by an interrupt, so that an operation is a function *)
(* of the memory before it. Memory is a record of                          *)
(*   free       the free frames                                            *)
(*   ref        page->ref                                                  *)
(*   data       what is in a frame                                         *)
(*   pgdir      the frame of the page directory of every mm_struct         *)
(*   pde        its entries, the frames of the page tables                 *)
(*   pte        the entries of these                                       *)
(*   pra        the list of the swap manager, latest arrival first         *)
(*   pra_vaddr  page->pra_vaddr                                            *)
(*   disk       the swap entries; entry v + 1 is only ever used for page v *)
(*   check      check_mm_struct is set (to CHECK)                          *)
(*   panic      "no", or why the kernel has stopped                        *)
(* Swapping is on (swap_init_ok) wherever this is used.                    *)
(***************************************************************************)
EXTENDS Integers, Sequences, SequencesExt, FiniteSetsExt

CONSTANTS
  Frame,   \* page frames, numbered from 1
  Page,    \* pages of the user address space, numbered
  PTSIZE,  \* pages that a page table maps
  Space,   \* the mm_structs
  CHECK,   \* the one that check_swap makes
  Junk     \* what is in a frame that somebody else had before

ASSUME PagingAssumption ==
  /\ Frame \subseteq Nat \ {0} /\ Page \subseteq Nat
  /\ PTSIZE \in Nat \ {0} /\ CHECK \in Space

NULL == 0
PDX(v) == v \div PTSIZE
Table == {PDX(v) : v \in Page}

\* A page table entry: 0, or a frame with PTE_P and perhaps PTE_W, or a swap entry
None == [at |-> "nowhere", frame |-> NULL, writable |-> FALSE]
SwapEntry == [at |-> "disk", frame |-> NULL, writable |-> FALSE]
InFrame(f, w) == [at |-> "memory", frame |-> f, writable |-> w]

Panic(m, why) == [m EXCEPT !.panic = why]
Runs(m) == m.panic = "no"

FreePage(m, f) == [m EXCEPT !.free = @ \cup {f}, !.ref[f] = 0, !.data[f] = Junk]

----------------------------------------------------------------------------
\* _fifo_map_swappable
MapSwappable(m, f) == [m EXCEPT !.pra = <<f>> \o @]

\* swap_out of one page: _fifo_swap_out_victim takes the earliest arrival, and
\* pra_vaddr says where it is mapped.
SwapOut(m) ==
  LET f == Last(m.pra)
      v == m.pra_vaddr[f]
  IN IF m.pra = <<>> THEN Panic(m, "head != le")
     ELSE IF m.pte[CHECK][v].at # "memory" THEN Panic(m, "*ptep & PTE_P")
     ELSE FreePage([m EXCEPT !.pra = Front(@), !.disk[v] = m.data[f],
                             !.pte[CHECK][v] = SwapEntry], f)

\* alloc_pages(1) until a frame is free: if there is none it swaps out a page of
\* check_mm_struct, and without one it follows a null pointer.
Replenish(m) ==
  IF m.free # {} THEN m
  ELSE IF m.check THEN SwapOut(m)
  ELSE Panic(m, "no memory")

\* What follows a step is only done when that does not panic.
Then(m, GoOn(_)) == IF Runs(m) THEN GoOn(m) ELSE m

\* The caller of alloc_pages(1) goes on with the frame it gets, the least.
WithPage(m, GoOn(_, _)) ==
  Then(Replenish(m), LAMBDA n : GoOn([n EXCEPT !.free = @ \ {Min(@)}], Min(n.free)))

\* get_pte with create: there is a page table after it.
GetPte(m, s, v) ==
  IF m.pde[s][PDX(v)] # NULL THEN m
  ELSE WithPage(m, LAMBDA n, f : [n EXCEPT !.ref[f] = 1, !.pde[s][PDX(v)] = f])

\* page_remove_pte leaves a swap entry as it is.
Mut_PageRemovePte(m, s, v) ==
  IF m.pte[s][v].at # "memory" THEN m
  ELSE [m EXCEPT !.pte[s][v] = None, !.ref[m.pte[s][v].frame] = @ - 1]
PageRemovePte(m, s, v) ==
  LET f == m.pte[s][v].frame
  IN IF m.pte[s][v].at # "memory" THEN m
     ELSE LET n == [m EXCEPT !.pte[s][v] = None, !.ref[f] = @ - 1]
          IN IF n.ref[f] = 0 THEN FreePage(n, f) ELSE n

\* page_insert
PageInsert(m, s, v, f, w) ==
  Then(GetPte(m, s, v), LAMBDA n :
    LET old == n.pte[s][v]
        held == [n EXCEPT !.ref[f] = @ + 1]
        put == IF old.at # "memory" THEN held
               ELSE IF old.frame = f THEN n
               ELSE PageRemovePte(held, s, v)
    IN [put EXCEPT !.pte[s][v] = InFrame(f, w)])

\* pgdir_alloc_page, for a page that will hold what
PgdirAllocPage(m, s, v, w, what) ==
  WithPage(m, LAMBDA n, f :
    LET i == PageInsert([n EXCEPT !.data[f] = what], s, v, f, w)
    IN IF Runs(i) /\ i.check THEN [MapSwappable(i, f) EXCEPT !.pra_vaddr[f] = v] ELSE i)

----------------------------------------------------------------------------
\* unmap_range, of the pages from first to before end
UnmapRange(m, s, first, end) ==
  FoldSet(LAMBDA v, n : IF m.pde[s][PDX(v)] = NULL THEN n ELSE PageRemovePte(n, s, v),
          m, first .. end - 1)

\* exit_range: whatever a table that is freed still says is gone with it.
Mut_ExitRange(m, s, first, end) == m
ExitRange(m, s, first, end) ==
  FoldSet(LAMBDA t, n :
            IF n.pde[s][t] = NULL THEN n
            ELSE [FreePage(n, n.pde[s][t]) EXCEPT
                    !.pde[s][t] = NULL,
                    !.pte[s] = [v \in Page |-> IF PDX(v) = t THEN None ELSE @[v]]],
          m, PDX(first) .. PDX(end - 1))

\* copy_range copies what is in memory; it never shares a frame.
Mut_CopyRange(m, to, from, first, end) ==
  FoldLeft(LAMBDA n, v :
             LET e == n.pte[from][v]
             IN IF ~Runs(n) \/ e.at # "memory" THEN n
                ELSE PageInsert(n, to, v, e.frame, e.writable),
           m, [i \in 1 .. end - first |-> first + i - 1])
CopyRange(m, to, from, first, end) ==
  FoldLeft(LAMBDA n, v :
             LET e == n.pte[from][v]
             IN IF ~Runs(n) \/ e.at # "memory" THEN n
                ELSE Then(GetPte(n, to, v), LAMBDA k :
                       WithPage(k, LAMBDA l, f :
                         PageInsert([l EXCEPT !.data[f] = l.data[e.frame]], to, v, f, e.writable))),
           m, [i \in 1 .. end - first |-> first + i - 1])
============================================================================
