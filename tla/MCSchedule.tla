----------------------------- MODULE MCSchedule -----------------------------
(* An instance of Schedule for TLC. *)
EXTENDS Schedule

CONSTANTS idle, p1, p2, p3

MCProcs == {p1, p2, p3}
MCSleepers == {p1, p2}
MCSetters == {p2}
MCPriorities == {2}

\* Bound of the instance: once strides are out of reach of each other, at most
\* one process is asleep. The liveness property asks nothing there, and steady
\* never becomes true again.
FewAsleepWhenUnsteady == steady \/ Cardinality(asleep) <= 1
=============================================================================
