------------------------------- MODULE MCVmm -------------------------------
(* An instance of Vmm for TLC: tables of four pages, a stack of two, and     *)
(* check_swap with three pages and two frames for them.                      *)
EXTENDS Vmm

Segment(start, n, file, flags) == [start |-> start, mem |-> n, file |-> file, flags |-> flags]
Text == Segment(1, 1, 1, {"READ", "EXEC"})
Data == Segment(2, 2, 1, {"READ", "WRITE"})
Zeroed == Segment(4, 1, 0, {"READ", "WRITE"})
File(segments, readable) == [elf |-> TRUE, segments |-> segments, readable |-> readable]

\* A program with a segment that is passed over; one that is cut off; one with more in
\* the file than in memory; two whose segments overlap; and no program.
MCImages ==
  { File(<<Text, Data, Zeroed>>, 3), File(<<Text, Data>>, 1),
    File(<<Text, Segment(2, 1, 2, {"READ"})>>, 2),
    File(<<Data, Segment(2, 1, 1, {"READ"})>>, 2), File(<<Data, Segment(1, 2, 1, {"READ"})>>, 2),
    [elf |-> FALSE, segments |-> <<>>, readable |-> 0] }

CONSTANTS p1, p2
MCProc == {p1, p2}
MCFrame == 1 .. 18
MCPage == 1 .. 7
MCSpace == MCProc \cup {CHECK}

\* Bounds of the instance: swapping until a victim has a pra_vaddr that is not its own
\* (the pages that check_swap uses end before), and two pages that processes have
\* written to.
NotStale == ~stale
FewWritten ==
  ~mem.check =>
    Cardinality({x \in MCProc \X MCPage :
                   /\ mem.pte[x[1]][x[2]].at = "memory"
                   /\ mem.data[mem.pte[x[1]][x[2]].frame] \in MCProc}) <= 2
============================================================================
