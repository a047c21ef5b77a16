-------------------------------- MODULE Vmm --------------------------------
(***************************************************************************)
(* Address spaces: kern/mm/vmm.c on the frames and tables of Paging, with  *)
(* the page fault handler, and what do_fork, do_execve (load_icode) and    *)
(* do_exit of kern/process/proc.c do to them. While the kernel starts,     *)
(* check_swap has a space of its own, whose pages are swapped; it may use  *)
(* them in any order here. After that processes have theirs, and nothing   *)
(* is swapped any more. A system call or a fault runs to its end without   *)
(* another process in between (the lock mm_sem is never contended, for no  *)
(* two processes share an mm_struct), and is one action.                   *)
(*                                                                         *)
(* mmap_cache is left out: no vma of a living mm_struct changes or goes    *)
(* away, so that find_vma answers the same with it. Kernel stacks and what *)
(* kmalloc gives out are not taken from these frames.                      *)
(***************************************************************************)
EXTENDS Paging

CONSTANTS
  Proc,        \* process slots, each with the mm_struct it may have
  Image,       \* the program files: whether they are ELF, their segments, and how many
               \* of these can be read. A segment has pages [start, start + mem), the
               \* first of which, as many as it says, come from the file.
  StackStart,  \* USTACKTOP - USTACKSIZE, as a page
  UpFront,     \* pages of the stack that load_icode allocates
  CheckFrame,  \* the frames check_swap works with; the least is its page table's
  CheckPage,   \* the pages it uses
  FirstProc,   \* the kernel thread that becomes the first user process
  \* What is on a page, beside Junk, the writing of a process, and the numbers that
  \* check_swap writes:
  FromFile, Zeroes, Arguments, Untouched, Gone

StackEnd == Max(Page) + 1

ASSUME VmmAssumption ==
  /\ Space = Proc \cup {CHECK} /\ CHECK \notin Proc /\ FirstProc \in Proc
  /\ CheckFrame \subseteq Frame /\ CheckPage \subseteq Page
  /\ \A v \in CheckPage : PDX(v) = PDX(Min(CheckPage))

VARIABLES
  mem,      \* the memory, see Paging
  vmas,     \* the list of every mm_struct
  kind,     \* what every slot has: "free", a "kernel" thread without an mm, a "user" process
  written,  \* what check_swap last wrote to each of its pages
  stale     \* a page has been swapped out by a pra_vaddr that is not its own

vars == <<mem, vmas, kind, written, stale>>

\* The vma of the user stack
Stack == [start |-> StackStart, end |-> StackEnd, flags |-> {"READ", "WRITE", "STACK"}]

\* Memory with nothing in use
Blank ==
  [free |-> {}, ref |-> [f \in Frame |-> 0], data |-> [f \in Frame |-> Junk],
   pgdir |-> [s \in Space |-> NULL], pde |-> [s \in Space |-> [t \in Table |-> NULL]],
   pte |-> [s \in Space |-> [v \in Page |-> None]],
   pra |-> <<>>, pra_vaddr |-> [f \in Frame |-> 0], disk |-> [v \in CheckPage |-> Junk],
   check |-> FALSE, panic |-> "no"]
NoVmas == [s \in Space |-> <<>>]
Nobody == [p \in Proc |-> "free"]

\* check_swap has made its mm_struct with one vma, a page table, and the frames it
\* is going to use.
Init ==
  LET table == Min(CheckFrame)
  IN /\ mem = [Blank EXCEPT !.free = CheckFrame \ {table}, !.ref[table] = 1,
                            !.pde[CHECK][PDX(Min(CheckPage))] = table, !.check = TRUE]
     /\ vmas = [NoVmas EXCEPT ![CHECK] = <<[start |-> Min(CheckPage), end |-> Max(CheckPage) + 1,
                                            flags |-> {"READ", "WRITE"}]>>]
     /\ kind = [Nobody EXCEPT ![FirstProc] = "kernel"]
     /\ written = [v \in CheckPage |-> Junk]
     /\ stale = FALSE

\* A step that leaves memory as m, unless the kernel panics on the way: then it
\* stops, and nothing is left.
Becomes(m, list, has) ==
  IF Runs(m) THEN mem' = m /\ vmas' = list /\ kind' = has
  ELSE mem' = Panic(Blank, m.panic) /\ vmas' = NoVmas /\ kind' = Nobody

----------------------------------------------------------------------------
(* The vma list, in the order of addresses.                                *)

Within(vma, v) == vma.start <= v /\ v < vma.end

\* find_vma, as the set of none or one
FindVma(list, v) == {vma \in ToSet(list) : Within(vma, v)}

Overlaps(a, b) == a.start < b.end /\ b.start < a.end

\* insert_vma_struct, where check_vma_overlap holds
InsertVma(list, vma) ==
  LET before == SelectSeq(list, LAMBDA x : x.start <= vma.start)
      after == SelectSeq(list, LAMBDA x : x.start > vma.start)
  IN before \o <<vma>> \o after

\* mm_map only asks what is at the first page; the rest is an assertion.
Mut_MmMap(list, vma) ==
  IF FindVma(list, vma.start) # {} THEN "-E_INVAL" ELSE "ok"
MmMap(list, vma) ==
  IF ~(vma.start .. vma.end - 1 \subseteq Page) \/ FindVma(list, vma.start) # {} THEN "-E_INVAL"
  ELSE IF \E x \in ToSet(list) : Overlaps(x, vma) THEN "check_vma_overlap"
  ELSE "ok"

\* user_mem_check, of the pages from first to before end; the lowest page of a
\* stack is not written by the kernel.
Mut_UserMemCheck(list, first, end, write) ==
  \A v \in first .. end - 1 : \E vma \in FindVma(list, v) : "READ" \in vma.flags
UserMemCheck(list, first, end, write) ==
  \A v \in first .. end - 1 :
    \E vma \in FindVma(list, v) :
      /\ (IF write THEN "WRITE" ELSE "READ") \in vma.flags
      /\ write /\ "STACK" \in vma.flags => v # vma.start

----------------------------------------------------------------------------
(* The page fault handler.                                                 *)

\* Whether an access to a page goes through without a fault
Allowed(m, s, v, write) ==
  m.pte[s][v].at = "memory" /\ (write => m.pte[s][v].writable)

\* What do_pgfault asks of the vma. A read of a page that is present can not fault here,
\* for every entry has PTE_U.
Permits(vma, write) ==
  IF write THEN "WRITE" \in vma.flags ELSE vma.flags \cap {"READ", "EXEC"} # {}

\* swap_in, page_insert and swap_map_swappable. The page goes on with the
\* pra_vaddr that its frame had before.
SwapIn(m, s, v, w) ==
  WithPage(m, LAMBDA n, f :
    MapSwappable(PageInsert([n EXCEPT !.data[f] = n.disk[v]], s, v, f, w), f))

Mut_DoPgfault(m, s, v, write) ==
  IF \E vma \in FindVma(vmas[s], v) : Permits(vma, write)
  THEN Then(GetPte(m, s, v), LAMBDA n : PgdirAllocPage(n, s, v, TRUE, Junk))
  ELSE Panic(m, "bad access")
DoPgfault(m, s, v, write) ==
  IF ~\E vma \in FindVma(vmas[s], v) : Permits(vma, write) THEN Panic(m, "bad access")
  ELSE LET w == \E vma \in FindVma(vmas[s], v) : "WRITE" \in vma.flags
       IN Then(GetPte(m, s, v), LAMBDA n :
            CASE n.pte[s][v].at = "nowhere" -> PgdirAllocPage(n, s, v, w, Junk)
              [] n.pte[s][v].at = "disk"    -> SwapIn(n, s, v, w)
              [] n.pte[s][v].at = "memory"  -> Panic(n, "non-writable pte"))

\* The memory after an access, a fault on the way included
Accessed(m, s, v, write, what) ==
  LET n == IF Allowed(m, s, v, write) THEN m ELSE DoPgfault(m, s, v, write)
  IN IF Runs(n) /\ write THEN [n EXCEPT !.data[n.pte[s][v].frame] = what] ELSE n

----------------------------------------------------------------------------
(* check_swap. Its test writes the same to a page whenever it does.        *)

\* The victim of the next swap_out is not mapped where its pra_vaddr says.
NextIsStale ==
  /\ mem.free = {} /\ mem.pra # <<>>
  /\ LET f == Last(mem.pra) IN mem.pte[CHECK][mem.pra_vaddr[f]].frame # f

CheckAccess(v, write) ==
  /\ mem.check
  /\ Becomes(Accessed(mem, CHECK, v, write, v), vmas, kind)
  /\ written' = IF write THEN [written EXCEPT ![v] = v] ELSE written
  /\ stale' = (stale \/ (~Allowed(mem, CHECK, v, write) /\ NextIsStale))

\* The end of check_swap, with all its frames in use. They do not come back to the
\* free list, which is set to what it was without them.
EndCheck ==
  /\ mem.check /\ mem.free = {} /\ ~stale
  /\ mem' = [Blank EXCEPT !.free = Frame \ CheckFrame]
  /\ vmas' = NoVmas
  /\ written' = [v \in CheckPage |-> Junk]
  /\ UNCHANGED <<kind, stale>>

----------------------------------------------------------------------------
(* Making and unmaking an address space.                                   *)

\* setup_pgdir, after mm_create
SetupPgdir(m, s) == WithPage(m, LAMBDA n, f : [n EXCEPT !.pgdir[s] = f])

\* exit_mmap, put_pgdir
Mut_ExitMmap(m, s, list) ==
  FoldLeft(LAMBDA n, vma : ExitRange(UnmapRange(n, s, vma.start, vma.end), s, vma.start, vma.end),
           m, list)
ExitMmap(m, s, list) ==
  LET unmapped == FoldLeft(LAMBDA n, vma : UnmapRange(n, s, vma.start, vma.end), m, list)
  IN FoldLeft(LAMBDA n, vma : ExitRange(n, s, vma.start, vma.end), unmapped, list)
Release(m, s, list) ==
  LET n == ExitMmap(m, s, list)
  IN [FreePage(n, n.pgdir[s]) EXCEPT !.pgdir[s] = NULL]

\* What load_icode has built so far, and whether it goes on
Loading(m, list, ret) == [m |-> m, list |-> list, ret |-> ret]

\* The pages of one segment, in memory already mapped by mm_map
LoadPages(m, s, segment, pages) ==
  FoldLeft(LAMBDA n, v :
             IF ~Runs(n) THEN n
             ELSE PgdirAllocPage(n, s, v, "WRITE" \in segment.flags,
                                 IF v < segment.start + segment.file THEN FromFile ELSE Zeroes),
           m, [i \in 1 .. pages |-> segment.start + i - 1])

\* One program header: a segment with nothing from the file is passed over. When
\* the file can not be read, that shows after the first page.
LoadSegment(l, s, segment, readable) ==
  LET vma == [start |-> segment.start, end |-> segment.start + segment.mem,
              flags |-> segment.flags]
      ret == MmMap(l.list, vma)
  IN IF ~Runs(l.m) \/ l.ret # "ok" \/ segment.file = 0 THEN l
     ELSE IF segment.file > segment.mem THEN [l EXCEPT !.ret = "-E_INVAL_ELF"]
     ELSE IF ret = "-E_INVAL" THEN [l EXCEPT !.ret = ret]
     ELSE IF ret = "check_vma_overlap" THEN [l EXCEPT !.m = Panic(@, ret)]
     ELSE Loading(LoadPages(l.m, s, segment, IF readable THEN segment.mem ELSE 1),
                  InsertVma(l.list, vma), IF readable THEN "ok" ELSE "-E_INVAL")

LoadSegments(m, s, image) ==
  FoldLeft(LAMBDA l, i : LoadSegment(l, s, image.segments[i], i <= image.readable),
           Loading(m, <<>>, "ok"), [i \in 1 .. Len(image.segments) |-> i])

\* The user stack, with the arguments of the program on its top page
LoadStack(l, s) ==
  IF ~Runs(l.m) \/ l.ret # "ok" THEN l
  ELSE IF MmMap(l.list, Stack) = "-E_INVAL" THEN [l EXCEPT !.ret = "-E_INVAL"]
  ELSE IF MmMap(l.list, Stack) = "check_vma_overlap" THEN [l EXCEPT !.m = Panic(@, "check_vma_overlap")]
  ELSE Loading(FoldLeft(LAMBDA n, v :
                          IF ~Runs(n) THEN n
                          ELSE PgdirAllocPage(n, s, v, TRUE, IF v = StackEnd - 1 THEN Arguments ELSE Junk),
                        l.m, [i \in 1 .. UpFront |-> StackEnd - i]),
               InsertVma(l.list, Stack), "ok")

\* load_icode, which cleans up behind itself when it fails
LoadIcode(m, s, image) ==
  LET l == IF ~image.elf THEN Loading(m, <<>>, "-E_INVAL_ELF")
           ELSE LoadStack(LoadSegments(m, s, image), s)
  IN IF ~Runs(l.m) \/ l.ret = "ok" THEN l
     ELSE Loading(Release(l.m, s, l.list), <<>>, l.ret)

\* Processes run
Normal == ~mem.check /\ Runs(mem) /\ UNCHANGED <<written, stale>>

\* do_execve: the old memory goes before the new one is built, and a process whose
\* program can not be loaded exits.
Exec(p, image) ==
  LET old == IF kind[p] = "user" THEN Release(mem, p, vmas[p]) ELSE mem
      dir == SetupPgdir(old, p)
      new == IF Runs(dir) THEN LoadIcode(dir, p, image) ELSE Loading(dir, <<>>, "ok")
  IN /\ Normal /\ kind[p] # "free"
     /\ Becomes(new.m, [vmas EXCEPT ![p] = new.list],
                [kind EXCEPT ![p] = IF new.ret = "ok" THEN "user" ELSE "free"])

\* do_fork: copy_mm, with dup_mmap from the last vma to the first
Fork(p, c) ==
  /\ Normal /\ kind[p] = "user" /\ kind[c] = "free"
  /\ Becomes(Then(SetupPgdir(mem, c), LAMBDA m :
                FoldLeft(LAMBDA n, vma : CopyRange(n, c, p, vma.start, vma.end),
                         m, Reverse(vmas[p]))),
             [vmas EXCEPT ![c] = vmas[p]], [kind EXCEPT ![c] = "user"])

\* do_exit
Exit(p) ==
  /\ Normal /\ kind[p] = "user"
  /\ Becomes(Release(mem, p, vmas[p]), [vmas EXCEPT ![p] = <<>>], [kind EXCEPT ![p] = "free"])

\* A process uses a page; what it writes is its own.
Access(p, v, write) ==
  /\ Normal /\ kind[p] = "user"
  /\ Becomes(Accessed(mem, p, v, write, p), vmas, kind)

Next ==
  \/ \E v \in CheckPage, write \in BOOLEAN : Runs(mem) /\ CheckAccess(v, write)
  \/ EndCheck
  \/ \E p \in Proc :
       \/ Exit(p)
       \/ \E image \in Image : Exec(p, image)
       \/ \E c \in Proc : Fork(p, c)
       \/ \E v \in Page, write \in BOOLEAN : Access(p, v, write)

Spec == Init /\ [][Next]_vars

----------------------------------------------------------------------------
\* Every frame is free or has one use, as a directory, a table or a page of a living
\* address space, and its reference count says which: page_insert, page_remove_pte,
\* exit_range and put_pgdir give back all that was taken, on every path through
\* load_icode, and never what is still in use.
Living == {s \in Space : mem.pgdir[s] # NULL \/ (s = CHECK /\ mem.check)}
Directories(f) == {s \in Living : mem.pgdir[s] = f}
Uses(f) ==
  {<<s, "directory">> : s \in Directories(f)}
    \cup {<<x[1], "table", x[2]>> : x \in {x \in Living \X Table : mem.pde[x[1]][x[2]] = f}}
    \cup {<<x[1], "page", x[2]>> : x \in {x \in Living \X Page : mem.pte[x[1]][x[2]].frame = f}}
FramesAccounted ==
  Runs(mem) /\ ~stale =>
    \A f \in IF mem.check THEN CheckFrame ELSE Frame \ CheckFrame :
      /\ f \in mem.free <=> Uses(f) = {}
      /\ Cardinality(Uses(f)) <= 1
      /\ mem.ref[f] = Cardinality(Uses(f)) - Cardinality(Directories(f))

\* A page is mapped only inside of a vma, and is writable just where that is. So
\* do_pgfault never meets a present page that it would have to make writable, and
\* the pages that user_mem_check lets through can be used by the kernel, whose
\* own faults stop it.
FaultsResolved ==
  /\ mem.panic \in {"no", "bad access", "no memory", "check_vma_overlap"}
  /\ ~stale =>
       \A s \in Space, v \in Page :
         mem.pte[s][v].at = "memory" =>
           \E vma \in FindVma(vmas[s], v) : mem.pte[s][v].writable = ("WRITE" \in vma.flags)
  /\ \A p \in Proc, first \in Page, write \in BOOLEAN :
       kind[p] = "user" /\ UserMemCheck(vmas[p], first, first + 1, write) =>
         Accessed(mem, p, first, write, p).panic \in {"no", "no memory"}

\* What check_swap finds on a page is what it wrote there, in memory or on the disk,
\* as long as swap_out has only met pages with their own pra_vaddr.
Found(v) ==
  CASE mem.pte[CHECK][v].at = "memory" -> mem.data[mem.pte[CHECK][v].frame]
    [] mem.pte[CHECK][v].at = "disk" -> mem.disk[v]
    [] OTHER -> Junk
SwapKeepsPages == mem.check /\ ~stale => \A v \in CheckPage : Found(v) = written[v]

\* The pages of a program as load_icode leaves them
Loaded(image) ==
  [v \in Page |->
     LET in == {i \in DOMAIN image.segments :
                  /\ image.segments[i].file > 0
                  /\ v \in image.segments[i].start .. image.segments[i].start + image.segments[i].mem - 1}
     IN IF v = StackEnd - 1 THEN Arguments
        ELSE IF v >= StackEnd - UpFront THEN Junk
        ELSE IF in = {} THEN Untouched
        ELSE IF \E i \in in : v < image.segments[i].start + image.segments[i].file THEN FromFile
        ELSE Zeroes]

\* What is on the pages of every process, whether it has been touched or not
Memory ==
  [p \in Proc |->
     IF kind[p] # "user" THEN Gone
     ELSE [v \in Page |-> IF mem.pte[p][v].at = "memory" THEN mem.data[mem.pte[p][v].frame]
                          ELSE Untouched]]

\* Processes have memories of their own, which a fork copies and a program fills.
Private == INSTANCE MemSpec WITH memory <- Memory, Program <- {Loaded(i) : i \in Image}
MemoryIsPrivate == Private!MemSpec
============================================================================
