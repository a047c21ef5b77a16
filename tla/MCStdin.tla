------------------------------ MODULE MCStdin ------------------------------
(* An instance of Stdin for TLC. *)
EXTENDS Stdin, TLC

CONSTANTS p1, p2, p3

MCReaders3 == {Idle, p1, p2, p3}
MCReaderSymmetry == Permutations({p1, p2, p3})
============================================================================
