---------------------------- MODULE MCMessageHeap ----------------------------
(****************************************************************************)
(* Drives BlockingQueue with every sequence of pushes and pops up to a      *)
(* bound and keeps, beside the heap, the one that libstdc++'s loops produce. *)
(* Each message carries the number of its arrival, which no comparison      *)
(* looks at.                                                                *)
(****************************************************************************)
EXTENDS BlockingQueue

VARIABLE loopHeap   \* the priority queue, by the library's loops

------------------------------------------------------------------------------
(* The loops of bits/stl_heap.h, positions counted from 1.                  *)

\* while (hole > top && comp(parent, value)) { *hole = *parent; hole = parent }
RECURSIVE PushLoop(_, _, _)
PushLoop(h, hole, m) ==
  IF hole > 1 /\ Differs(h[hole \div 2], m)
  THEN PushLoop([h EXCEPT ![hole] = h[hole \div 2]], hole \div 2, m)
  ELSE [h EXCEPT ![hole] = m]

\* The sinking loop of __adjust_heap: <<heap, hole>> when it has ended.
RECURSIVE SinkLoop(_, _)
SinkLoop(h, hole) ==
  LET right == 2*hole + 1
      child == IF right <= Len(h) /\ ~Differs(h[right], h[right - 1])
               THEN right ELSE right - 1
  IN  IF child > Len(h) THEN <<h, hole>>
      ELSE SinkLoop([h EXCEPT ![hole] = h[child]], child)

PopLoop(h) ==
  LET end == SinkLoop(SubSeq(h, 1, Len(h) - 1), 1)
  IN  IF Len(h) = 1 THEN <<>> ELSE PushLoop(end[1], end[2], h[Len(h)])

------------------------------------------------------------------------------
MCInit == Init /\ loopHeap = <<>>

\* The loops run where the program pushes and pops.
MCNext ==
  /\ Next
  /\ loopHeap' =
       IF pushes' > pushes
         THEN LET m == CHOOSE m \in Arriving : \E i \in DOMAIN heap' : heap'[i] = m
              IN  PushLoop(Append(loopHeap, m), Len(loopHeap) + 1, m)
       ELSE IF Len(heap') < Len(heap) THEN PopLoop(loopHeap)
       ELSE loopHeap

MCFairSpec == MCInit /\ [][MCNext]_<<vars, loopHeap>> /\ \A t \in Threads : WF_vars(Step(t))

------------------------------------------------------------------------------
\* PushHeap and PopHeap compute what the library's loops compute, so whatever is
\* shown with PushHeap and PopHeap is shown of BlockingPQueue::push and pop.
LoopsAgree == heap = loopHeap
=============================================================================
