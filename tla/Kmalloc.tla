------------------------------ MODULE Kmalloc ------------------------------
(***************************************************************************)
(* The kernel heap, kern/mm/kmalloc.c, on the page allocator. Free blocks  *)
(* are linked in a ring in the order of addresses, which also links the    *)
(* static block arena; blocks of a page and more are pages, found through  *)
(* a bigblock_t that itself is a block of the heap. Others ask the same    *)
(* allocator for pages.                                                    *)
(*                                                                         *)
(* The heap is shared by code that is not preempted, and no interrupt      *)
(* handler uses it: a call is one step, but for a big block, where the     *)
(* pages are asked for after the bigblock_t has been allocated.            *)
(*                                                                         *)
(* Addresses count units of SLOB_UNIT bytes; page p starts at PageUnits*p. *)
(***************************************************************************)
EXTENDS DefaultPmm

CONSTANTS
  SLOB_UNIT, PAGE_SIZE,  \* in bytes
  BIGBLOCK,              \* sizeof(bigblock_t)
  Sizes,                 \* what is asked for in one call, in bytes
  MaxSlobPages           \* bound on the pages the heap asks for one by one

ASSUME HeapAssumption ==
  /\ {SLOB_UNIT, PAGE_SIZE, BIGBLOCK} \subseteq Nat \ {0}
  /\ Sizes \subseteq Nat \ {0}
  /\ PAGE_SIZE % SLOB_UNIT = 0
  /\ BIGBLOCK > SLOB_UNIT /\ BIGBLOCK + SLOB_UNIT < PAGE_SIZE

VARIABLES
  ring,      \* the free blocks: address -> [units, next]
  slobfree,  \* where the next search starts
  slob_pages, \* the pages the heap asked for one by one, and keeps
  used,      \* the blocks given out, bigblock_t included: records [at, units]
  bigblocks, \* the list of big blocks: records [bb, pages, order]
  pending    \* the big block that waits for its pages, [bb, order], or NULL

heapVars == <<ring, slobfree, slob_pages, used, bigblocks, pending>>
vars == <<pageVars, heapVars>>

PageUnits == PAGE_SIZE \div SLOB_UNIT
Units(size) == (size + SLOB_UNIT - 1) \div SLOB_UNIT

\* The block arena lies below all pages and touches none.
Arena == -2

HeapInit ==
  /\ Init
  /\ ring = [b \in {Arena} |-> [units |-> 1, next |-> Arena]]
  /\ slobfree = Arena
  /\ slob_pages = {} /\ used = {} /\ bigblocks = <<>> /\ pending = NULL

----------------------------------------------------------------------------
(* slob_alloc and slob_free, on a heap h = [ring, slobfree].               *)

Heap == [ring |-> ring, slobfree |-> slobfree]
SetHeap(h) == ring' = h.ring /\ slobfree' = h.slobfree

\* The ring with one block more, with one less, and with a block linked to another
With(r, b, block) == [x \in DOMAIN r \cup {b} |-> IF x = b THEN block ELSE r[x]]
Drop(r, b) == [x \in DOMAIN r \ {b} |-> r[x]]
Link(r, b, next) == [r EXCEPT ![b].next = next]

\* The blocks in the order of the ring, from slobfree on
Around(h) ==
  LET at[i \in 0 .. Cardinality(DOMAIN h.ring)] ==
        IF i = 0 THEN h.slobfree ELSE h.ring[at[i - 1]].next
  IN at

\* The search starts behind slobfree and ends with it.
Candidates(h, n) == {i \in 1 .. Cardinality(DOMAIN h.ring) : h.ring[Around(h)[i]].units >= n}
CanTake(h, n) == Candidates(h, n) # {}
Found(h, n) == Around(h)[Min(Candidates(h, n))]

\* Mutant: the rest of a block keeps its length.
Mut_Rest(block, n) == block

Rest(block, n) == [block EXCEPT !.units = @ - n]

\* The block goes, or its rest takes its place.
Taken(h, n) ==
  LET i == Min(Candidates(h, n))
      prev == Around(h)[i - 1]
      cur == Around(h)[i]
      exact == h.ring[cur].units = n
      rest == IF exact THEN h.ring[cur].next ELSE cur + n
      others == Drop(h.ring, cur)
      left == IF exact THEN others ELSE With(others, rest, Rest(h.ring[cur], n))
  IN [ring |-> Link(left, prev, rest), slobfree |-> prev]

\* b belongs between cur and the block behind it, perhaps where the ring starts
\* again from the lowest address.
Precedes(h, cur, b) ==
  LET next == h.ring[cur].next
  IN (cur < b /\ b < next) \/ (cur >= next /\ (b > cur \/ b < next))

\* The block is joined to the one behind it and to the one before it if they
\* touch.
Given(h, b, n) ==
  LET i == Min({i \in 0 .. Cardinality(DOMAIN h.ring) - 1 : Precedes(h, Around(h)[i], b)})
      cur == Around(h)[i]
      next == h.ring[cur].next
      joinsNext == b + n = next
      joinsCur == cur + h.ring[cur].units = b
      block == IF joinsNext
               THEN [units |-> n + h.ring[next].units, next |-> h.ring[next].next]
               ELSE [units |-> n, next |-> next]
      others == IF joinsNext THEN Drop(h.ring, next) ELSE h.ring
  IN [ring |-> IF joinsCur
               THEN [others EXCEPT ![cur] = [units |-> @.units + block.units, next |-> block.next]]
               ELSE Link(With(others, b, block), cur, b),
      slobfree |-> cur]

----------------------------------------------------------------------------
\* slob_alloc: a block of the ring, or of the ring with one more page in it
Use(h, n) == SetHeap(Taken(h, n)) /\ used' = used \cup {[at |-> Found(h, n), units |-> n]}

SlobAlloc(n) ==
  \/ /\ CanTake(Heap, n)
     /\ Use(Heap, n)
     /\ UNCHANGED <<pageVars, slob_pages>>
  \/ /\ ~CanTake(Heap, n) /\ Cardinality(slob_pages) < MaxSlobPages
     /\ Alloc(1)
     /\ slob_pages' = slob_pages \cup {answer'}
     /\ Use(Given(Heap, answer' * PageUnits, PageUnits), n)

SlobAllocFails(n) == ~CanTake(Heap, n) /\ AllocFails(1) /\ UNCHANGED heapVars

\* slob_free
SlobFree(block) ==
  /\ SetHeap(Given(Heap, block.at, block.units))
  /\ used' = used \ {block}

BigBlock(bb) == [at |-> bb, units |-> Units(BIGBLOCK)]

\* find_order, which drops the bits that it shifts out
Order(size) ==
  LET order[n \in Nat] == IF n > PAGE_SIZE THEN 1 + order[n \div 2] ELSE 0 IN order[size]

\* __kmalloc of a small block, with a unit for its length in front. Of the sizes
\* that are small, the last ones fail the assertion of slob_alloc, which stops
\* the kernel: these are not asked for.
KmallocSmall(size) ==
  /\ size < PAGE_SIZE - SLOB_UNIT
  /\ size + SLOB_UNIT + SLOB_UNIT < PAGE_SIZE
  /\ SlobAlloc(Units(size + SLOB_UNIT)) \/ SlobAllocFails(Units(size + SLOB_UNIT))
  /\ UNCHANGED <<bigblocks, pending>>

\* __kmalloc of a big block, up to its pages
KmallocBig(size) ==
  /\ size >= PAGE_SIZE - SLOB_UNIT
  /\ \/ /\ SlobAlloc(Units(BIGBLOCK))
        /\ \E block \in used' \ used : pending' = [bb |-> block.at, order |-> Order(size)]
     \/ SlobAllocFails(Units(BIGBLOCK)) /\ UNCHANGED pending
  /\ UNCHANGED bigblocks

\* The pages, or the bigblock_t goes back.
GetPages ==
  /\ pending # NULL
  /\ \/ /\ Alloc(2 ^ pending.order)
        /\ bigblocks' = <<[bb |-> pending.bb, pages |-> answer', order |-> pending.order]>>
                          \o bigblocks
        /\ UNCHANGED <<ring, slobfree, used>>
     \/ /\ AllocFails(2 ^ pending.order)
        /\ SlobFree(BigBlock(pending.bb))
        /\ UNCHANGED bigblocks
  /\ pending' = NULL
  /\ UNCHANGED slob_pages

\* kfree takes a block for a big one if one with its pages is listed.
Listed(address) == {i \in DOMAIN bigblocks : bigblocks[i].pages * PageUnits = address}
PagesOf(i) == [base |-> bigblocks[i].pages, n |-> 2 ^ bigblocks[i].order]

KfreeBig(address) ==
  /\ Listed(address) # {}
  /\ LET i == Min(Listed(address)) IN
     /\ bigblocks' = RemoveAt(bigblocks, i)
     /\ Free(PagesOf(i), PagesOf(i).base, PagesOf(i).n)
     /\ SlobFree(BigBlock(bigblocks[i].bb))
  /\ UNCHANGED <<slob_pages, pending>>

KfreeSmall(address) ==
  /\ Listed(address) = {}
  /\ \E block \in used : block.at = address - 1 /\ SlobFree(block)
  /\ UNCHANGED <<pageVars, slob_pages, bigblocks, pending>>

\* The addresses kmalloc returned, and the pages that others have
Allocated ==
  {bigblocks[i].pages * PageUnits : i \in DOMAIN bigblocks} \cup
  {block.at + 1 : block \in used \ {BigBlock(bigblocks[i].bb) : i \in DOMAIN bigblocks}}
Others == held \ ({PagesOf(i) : i \in DOMAIN bigblocks} \cup
                  {[base |-> p, n |-> 1] : p \in slob_pages})

Next ==
  \/ GetPages
  \/ /\ pending = NULL
     /\ \/ \E size \in Sizes : KmallocSmall(size) \/ KmallocBig(size)
        \/ \E address \in Allocated : KfreeSmall(address) \/ KfreeBig(address)
        \/ PageCall(Others) /\ UNCHANGED heapVars

Spec == HeapInit /\ [][Next]_vars

----------------------------------------------------------------------------
Reach(at, units) == at .. at + units - 1

\* The ring links the free blocks in the order of addresses, none of which
\* touches another, and every unit of the heap's pages is in one free block or
\* in one block given out, over splits, joins and failed big blocks (slob_alloc,
\* slob_free): nothing is given out twice, lost, or broken up for ever.
HeapExact ==
  LET free == {[at |-> b, units |-> ring[b].units] : b \in DOMAIN ring \ {Arena}}
      pages == UNION {Reach(p * PageUnits, PageUnits) : p \in slob_pages}
      After(b) == {c \in DOMAIN ring : c > b}
  IN /\ slobfree \in DOMAIN ring /\ Arena \in DOMAIN ring
     /\ \A b \in DOMAIN ring : ring[b].next = IF After(b) = {} THEN Arena ELSE Min(After(b))
     /\ \A b \in DOMAIN ring : b + ring[b].units \notin DOMAIN ring
     /\ UNION {Reach(x.at, x.units) : x \in free \cup used} = pages
     /\ free \cap used = {}
     /\ \A x, y \in free \cup used :
          x # y => Reach(x.at, x.units) \cap Reach(y.at, y.units) = {}
=============================================================================
