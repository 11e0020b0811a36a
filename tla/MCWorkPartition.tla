--------------------------- MODULE MCWorkPartition ---------------------------
(* Instances of WorkPartition for TLC. *)
EXTENDS WorkPartition

SmallEngines == 1 .. 5

(* What clEnqueueNDRangeKernel lets through: the local size divides the    *)
(* global size in every dimension.                                         *)
DividedRequests ==
  {[gsz |-> <<b * l>>, lsz |-> <<l>>] : b \in 0 .. 12, l \in 1 .. 3}
  \cup
  {[gsz |-> <<b1 * l1, b2 * l2>>, lsz |-> <<l1, l2>>] :
     b1 \in 0 .. 6, b2 \in 1 .. 2, l1 \in 1 .. 3, l2 \in 1 .. 2}
  \cup
  {[gsz |-> <<b1 * l1, b2 * l2, 2>>, lsz |-> <<l1, l2, l3>>] :
     b1 \in 1 .. 3, b2 \in 1 .. 2, l1 \in 1 .. 2, l2 \in 1 .. 3, l3 \in 1 .. 2}

(* What coprthr_dexec and coprthr_devexec ask for: nthr threads in groups  *)
(* of 16.                                                                  *)
ThreadRequests == {[gsz |-> <<nthr>>, lsz |-> <<16>>] : nthr \in 1 .. 40}

AllRequests == DividedRequests \cup ThreadRequests
=============================================================================
