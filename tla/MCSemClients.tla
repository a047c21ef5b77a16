---------------------------- MODULE MCSemClients ----------------------------
(* Instances of SemClients for TLC. *)
EXTENDS SemClients, TLC

CONSTANTS p1, p2, p3, sa, sb

MCClients3 == {Idle, p1, p2, p3}
MCSems == {sa, sb}
MCInitial == [s \in MCSems |-> IF s = sa THEN 1 ELSE 0]
MCClientSymmetry == Permutations({p1, p2, p3})
============================================================================
