----------------------------- MODULE MCKmalloc -----------------------------
(* An instance of Kmalloc for TLC: two usable areas around a reserved page. *)
EXTENDS Kmalloc

MCUsable == Page \ {2}
MCSizes == {1, 3, 16}

\* Bound of the instance: when the heap has pages, the others have none.
FewOthers == slob_pages # {} => Others = {}
============================================================================
