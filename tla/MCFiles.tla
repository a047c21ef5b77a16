------------------------------ MODULE MCFiles ------------------------------
(* An instance of Files for TLC. *)
EXTENDS Files, TLC

CONSTANTS p1, p2, fa, fb

MCProcs == {p1, p2}
MCFiles == {fa, fb}
MCBlocks == 1 .. 3
MCFds == {2, 3}

Flags(mode, set) ==
  [mode |-> mode, creat |-> "creat" \in set, excl |-> "excl" \in set,
   trunc |-> "trunc" \in set, append |-> "append" \in set]
MCOpenFlags ==
  {Flags("O_RDONLY", {}), Flags("O_RDONLY", {"trunc"}), Flags("O_RDWR", {"trunc"}),
   Flags("O_WRONLY", {"append"}), Flags("O_RDWR", {"creat", "excl"})}
MCBuffers == {<<1, 2, 3>>}
MCLengths == {3}
MCPositions == {-1, 0, 4}

\* Bounds of the instance: at most MaxOpen references to inodes, by descriptors
\* of all tables or leaked; when there are two processes, each has one.
CONSTANT MaxOpen
FewOpen ==
  /\ sfs.sin[fa].ref_count + sfs.sin[fb].ref_count <= MaxOpen
  /\ Running = MCProcs => \A p \in Running : fd_array[p][3] = Closed

MCFileSymmetry == Permutations(MCProcs) \cup Permutations(MCFiles)
============================================================================
