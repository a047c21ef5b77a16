------------------------------ MODULE SkewHeap ------------------------------
(***************************************************************************)
(* The skew heap of libs/skew_heap.h, as the run queue of the stride       *)
(* scheduler: <<>> or <<p, left, right>>, p a process. The order is read   *)
(* from the strides when heaps are merged; no process in the heap changes  *)
(* its stride, for only the one that is picked moves on.                   *)
(***************************************************************************)
EXTENDS Stride, Sequences

\* Mutant: the left heap of the root is overwritten before it is moved.
Mut_Merge(a, b, stride) ==
  IF a = <<>> THEN b
  ELSE IF b = <<>> THEN a
  ELSE IF Before(stride[a[1]], stride[b[1]]) THEN <<a[1], b, a[3]>> ELSE <<b[1], a, b[3]>>

\* skew_heap_merge
RECURSIVE Merge(_, _, _)
Merge(a, b, stride) ==
  IF a = <<>> THEN b
  ELSE IF b = <<>> THEN a
  ELSE IF Before(stride[a[1]], stride[b[1]])
       THEN <<a[1], Merge(a[3], b, stride), a[2]>>
       ELSE <<b[1], Merge(a, b[3], stride), b[2]>>

\* skew_heap_insert, and skew_heap_remove of the root
Insert(heap, p, stride) == Merge(heap, <<p, <<>>, <<>>>>, stride)
RemoveRoot(heap, stride) == Merge(heap[2], heap[3], stride)

\* The processes in a heap, one that is linked twice coming twice
RECURSIVE Linking(_)
Linking(heap) == IF heap = <<>> THEN <<>> ELSE <<heap[1]>> \o Linking(heap[2]) \o Linking(heap[3])
=============================================================================
