----------------------------- MODULE MessageHeap -----------------------------
(****************************************************************************)
(* The order in which the leader's BlockingPQueue hands out its messages.   *)
(*                                                                          *)
(* BlockingPQueue wraps std::priority_queue<Message>, a binary heap kept by *)
(* std::push_heap and std::pop_heap and compared with Message::operator<.   *)
(* That operator returns type - m.type converted to bool, so "a < b" is     *)
(* "a and b have different types".  It is not an order, and the heap below  *)
(* is therefore not sorted by anything: what it hands out is whatever the   *)
(* two library loops do with that comparison.                               *)
(*                                                                          *)
(* A heap is a sequence h, the root at 1 and the children of p at 2p and    *)
(* 2p+1.  The loops are written as what they do to the path they walk, so   *)
(* that no operator here is recursive; MCMessageHeap compares them with the *)
(* loops themselves.                                                        *)
(****************************************************************************)
EXTENDS Naturals, Sequences

\* An operator that no other refers to is a slip the comparison or the loops
\* might contain, kept to show which property would catch it.
Precedes(a, b) == a.type < b.type

\* Message::operator<, as the heap uses it.
Differs(a, b) == a.type # b.type

\* The positions from i up to the root.
Climb[i \in Nat] == IF i = 0 THEN {} ELSE {i} \cup Climb[i \div 2]

SiftNowhere(h, hole, m) == [h EXCEPT ![1] = m]

\* __push_heap: m enters at the hole and moves up past every ancestor whose
\* type differs from its own; those ancestors move down one place each.  It
\* comes to rest below the first ancestor of its own type.
SiftUp(h, hole, m) ==
  LET path    == Climb[hole]
      Stays(j) == \E i \in path \ {hole} : i >= j /\ ~Differs(h[i], m)
  IN  [j \in DOMAIN h |-> IF j \notin path \/ Stays(j) THEN h[j]
                          ELSE IF j > 1 /\ ~Stays(j \div 2) THEN h[j \div 2]
                          ELSE m]

PushHeap(h, m) == SiftUp(Append(h, m), Len(h) + 1, m)

ChosenLeft(h, n, p) == 2*p

\* __adjust_heap, in a heap cut to n elements: the child the hole at p moves
\* to.  The right one unless the two children's types differ.
Chosen(h, n, p) ==
  IF 2*p + 1 > n \/ Differs(h[2*p + 1], h[2*p]) THEN 2*p ELSE 2*p + 1

\* The positions the hole visits on its way from the root to a leaf.
Descent(h, n) ==
  {i \in 1..n : \A j \in Climb[i] \ {1} : j = Chosen(h, n, j \div 2)}

\* The root leaves, the hole sinks to a leaf, and the last element of the
\* heap climbs from that leaf.
PopHeap(h) ==
  LET n    == Len(h) - 1
      path == Descent(h, n)
      leaf == CHOOSE j \in path : 2*j > n
      sunk == [j \in 1..n |-> IF j \in path /\ 2*j <= n THEN h[Chosen(h, n, j)]
                              ELSE h[j]]
  IN  IF n = 0 THEN <<>> ELSE SiftUp(sunk, leaf, h[n + 1])
=============================================================================
