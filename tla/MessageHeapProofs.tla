-------------------------- MODULE MessageHeapProofs --------------------------
(****************************************************************************)
(* What MessageHeap's operators do to the contents of a heap, whatever the  *)
(* heap's shape and the messages' types.  Nothing enters a heap but what    *)
(* was pushed: for any set S the messages are taken from, a property of all *)
(* messages pushed is a property of all messages popped.  And nothing is    *)
(* lost or repeated: push shuffles the heap with the new message, pop       *)
(* shuffles what is left without the root (PushShuffles, PopShuffles).      *)
(* Both loops move messages along one path of the heap, by one place each,  *)
(* and a path has at most one position per level (ClimbLeads, DescentLeads).*)
(****************************************************************************)
EXTENDS MessageHeap, SequenceTheorems, FunctionTheorems, FiniteSetTheorems,
        WellFoundedInduction, TLAPS

\* A message climbing in a heap leaves a heap of the same length, made of the
\* heap's messages and of the one that climbs (std::push_heap).
LEMMA SiftUpType ==
  ASSUME NEW S, NEW h \in Seq(S), NEW hole, NEW m \in S
  PROVE  SiftUp(h, hole, m) \in Seq(S) /\ Len(SiftUp(h, hole, m)) = Len(h)
<1> DEFINE path     == Climb[hole]
           Stays(j) == \E i \in path \ {hole} : i >= j /\ ~Differs(h[i], m)
           Elem(j)  == IF j \notin path \/ Stays(j) THEN h[j]
                       ELSE IF j > 1 /\ ~Stays(j \div 2) THEN h[j \div 2]
                       ELSE m
<1>1. SiftUp(h, hole, m) = [j \in 1..Len(h) |-> Elem(j)]
  BY DEF SiftUp
<1>2. ASSUME NEW j \in 1..Len(h) PROVE Elem(j) \in S
  <2> HIDE DEF path, Stays
  <2>1. h[j] \in S
    OBVIOUS
  <2>2. j > 1 => j \div 2 \in 1..Len(h)
    OBVIOUS
  <2>3. j > 1 => h[j \div 2] \in S
    BY <2>2
  <2> QED BY <2>1, <2>3
<1> HIDE DEF Elem
<1>3. [j \in 1..Len(h) |-> Elem(j)] \in [1..Len(h) -> S]
  BY <1>2
<1>4. Len(h) \in Nat
  OBVIOUS
<1> QED BY <1>1, <1>3, <1>4

\* BlockingPQueue::push adds the message to the queue's messages.
LEMMA PushHeapType ==
  ASSUME NEW S, NEW h \in Seq(S), NEW m \in S
  PROVE  PushHeap(h, m) \in Seq(S) /\ Len(PushHeap(h, m)) = Len(h) + 1
<1> DEFINE g == Append(h, m)
           i == Len(h) + 1
<1>1. g \in Seq(S) /\ Len(g) = i
  OBVIOUS
<1>2. PushHeap(h, m) = SiftUp(g, i, m)
  BY DEF PushHeap
<1>3. SiftUp(g, i, m) \in Seq(S) /\ Len(SiftUp(g, i, m)) = Len(g)
  <2> HIDE DEF g, i
  <2> QED BY <1>1, SiftUpType
<1> HIDE DEF g
<1> QED BY <1>1, <1>2, <1>3

\* BlockingPQueue::pop leaves a shorter queue of messages that were in it.
LEMMA PopHeapType ==
  ASSUME NEW S, NEW h \in Seq(S), h # <<>>
  PROVE  PopHeap(h) \in Seq(S) /\ Len(PopHeap(h)) = Len(h) - 1
<1> DEFINE n    == Len(h) - 1
           path == Descent(h, n)
           leaf == CHOOSE j \in path : 2*j > n
           Elem(j) == IF j \in path /\ 2*j <= n THEN h[Chosen(h, n, j)] ELSE h[j]
           sunk == [j \in 1..n |-> Elem(j)]
<1>1. n \in Nat /\ Len(h) = n + 1
  OBVIOUS
<1>2. PopHeap(h) = IF n = 0 THEN <<>> ELSE SiftUp(sunk, leaf, h[n + 1])
  BY DEF PopHeap
<1>3. ASSUME NEW j \in 1..n PROVE Elem(j) \in S
  <2> HIDE DEF path
  <2>1. h[j] \in S
    BY <1>1
  <2>2. 2*j <= n => Chosen(h, n, j) \in 1..Len(h)
    BY <1>1 DEF Chosen
  <2>3. 2*j <= n => h[Chosen(h, n, j)] \in S
    BY <2>2
  <2> QED BY <2>1, <2>3
<1>4. sunk \in Seq(S) /\ Len(sunk) = n
  <2> HIDE DEF n, Elem
  <2>1. sunk \in [1..n -> S]
    BY <1>3
  <2> QED BY <2>1, <1>1
<1>5. h[n + 1] \in S
  BY <1>1
<1>6. SiftUp(sunk, leaf, h[n + 1]) \in Seq(S) /\ Len(SiftUp(sunk, leaf, h[n + 1])) = n
  <2> HIDE DEF sunk, leaf, n
  <2> QED BY <1>4, <1>5, SiftUpType
<1>7. CASE n = 0
  <2>1. PopHeap(h) = <<>>
    BY <1>2, <1>7
  <2>2. <<>> \in Seq(S) /\ Len(<<>>) = 0
    OBVIOUS
  <2> HIDE DEF n
  <2>3. Len(h) - 1 = 0
    BY <1>7 DEF n
  <2> QED BY <2>1, <2>2, <2>3
<1>8. CASE n # 0
  <2>1. PopHeap(h) = SiftUp(sunk, leaf, h[n + 1])
    BY <1>2, <1>8
  <2> HIDE DEF sunk, leaf, n
  <2>2. PopHeap(h) \in Seq(S) /\ Len(PopHeap(h)) = n
    BY <2>1, <1>6
  <2> QED BY <2>2 DEF n
<1> QED BY <1>7, <1>8

------------------------------------------------------------------------------
(* The paths in a heap.                                                     *)

\* A nonempty set of numbers has a least one.
LEMMA Smallest ==
  ASSUME NEW T \in SUBSET Nat, T # {}
  PROVE  \E x \in T : \A y \in T : x <= y
<1> DEFINE R == OpToRel(<, Nat)
<1>1. IsWellFoundedOn(R, Nat)
  BY NatLessThanWellFounded
<1>2. \A x, y \in T : y < x => <<y, x>> \in R
  BY DEF OpToRel
<1> HIDE DEF R
<1>3. PICK x \in T : \A y \in T : ~ (<<y, x>> \in R)
  BY <1>1, WFMin
<1>4. \A y \in T : ~(y < x)
  BY <1>2, <1>3, Zenon
<1> QED BY <1>4

\* The recursion of Climb is well founded: the positions that i's halves pass
\* through, whatever set that is closed under halving they are looked for in,
\* are a function that satisfies it.
LEMMA ClimbUnfolds ==
  Climb = [i \in Nat |-> IF i = 0 THEN {} ELSE {i} \cup Climb[i \div 2]]
<1> DEFINE Halves(S) == \A x \in S : x \div 2 \in S
           Way(i) == {j \in 1..i : \A S \in SUBSET Nat : i \in S /\ Halves(S) => j \in S}
           F == [i \in Nat |-> Way(i)]
<1>1. ASSUME NEW i \in Nat \ {0} PROVE Way(i) = {i} \cup Way(i \div 2)
  <2>1. i \div 2 \in Nat /\ i \div 2 < i
    OBVIOUS
  <2>2. i \in Way(i)
    OBVIOUS
  <2>3. ASSUME NEW j \in Way(i \div 2) PROVE j \in Way(i)
    <3>1. ASSUME NEW S \in SUBSET Nat, i \in S, Halves(S) PROVE j \in S
      BY <3>1
    <3> QED BY <2>1, <3>1
  <2>4. ASSUME NEW j \in Way(i), j # i PROVE j \in Way(i \div 2)
    <3>1. ASSUME NEW S \in SUBSET Nat, i \div 2 \in S, Halves(S) PROVE j \in S
      <4>1. S \cup {i} \in SUBSET Nat /\ Halves(S \cup {i})
        BY <3>1
      <4>2. j \in S \cup {i}
        BY <4>1
      <4> QED BY <2>4, <4>2
    <3>2. j \in 0..(i \div 2)
      <4>1. 0..(i \div 2) \in SUBSET Nat /\ i \div 2 \in 0..(i \div 2)
        BY <2>1
      <4>2. Halves(0..(i \div 2))
        BY <2>1
      <4> HIDE DEF Halves
      <4> QED BY <3>1, <4>1, <4>2
    <3>3. j \in 1..(i \div 2)
      BY <3>2
    <3> QED BY <3>1, <3>3
  <2> QED BY <2>2, <2>3, <2>4
<1>2. Way(0) = {}
  OBVIOUS
<1> HIDE DEF Way
<1>3. F = [i \in Nat |-> IF i = 0 THEN {} ELSE {i} \cup F[i \div 2]]
  <2>1. ASSUME NEW i \in Nat PROVE F[i] = IF i = 0 THEN {} ELSE {i} \cup F[i \div 2]
    <3>1. i \div 2 \in Nat
      OBVIOUS
    <3> QED BY <1>1, <1>2, <3>1
  <2> HIDE DEF F
  <2>2. F = [i \in Nat |-> F[i]]
    BY DEF F
  <2> QED BY <2>1, <2>2
<1> HIDE DEF F
<1> QED BY <1>3 DEF Climb

\* P leads from the root down to i, one level at a time.
LeadsTo(P, i) ==
  /\ P \subseteq 1..i /\ i \in P /\ 1 \in P
  /\ \A j \in P : j > 1 => j \div 2 \in P
  /\ \A j, k \in P : j < k => j <= k \div 2

\* The positions a climbing message passes are those above it.
LEMMA ClimbLeads == \A i \in Nat \ {0} : LeadsTo(Climb[i], i)
<1> DEFINE Bad == {i \in Nat \ {0} : ~LeadsTo(Climb[i], i)}
<1>1. SUFFICES ASSUME Bad # {} PROVE FALSE
  OBVIOUS
<1>2. PICK i \in Bad : \A j \in Bad : i <= j
  BY <1>1, Smallest
<1>3. i \in Nat \ {0} /\ ~LeadsTo(Climb[i], i)
  OBVIOUS
<1>4. Climb[i] = {i} \cup Climb[i \div 2]
  BY <1>3, ClimbUnfolds
<1>5. CASE i = 1
  <2>1. Climb[0] = {} /\ 1 \div 2 = 0
    BY ClimbUnfolds
  <2>2. Climb[i] = {1}
    BY <1>4, <1>5, <2>1
  <2> QED BY <1>3, <1>5, <2>2 DEF LeadsTo
<1>6. CASE i > 1
  <2>1. i \div 2 \in Nat \ {0} /\ i \div 2 < i
    BY <1>3, <1>6
  <2>2. i \div 2 \notin Bad
    BY <1>2, <1>3, <2>1
  <2>3. LeadsTo(Climb[i \div 2], i \div 2)
    BY <2>1, <2>2
  <2> DEFINE P == Climb[i \div 2]
             e == i \div 2
  <2>4. LeadsTo(P, e) /\ Climb[i] = {i} \cup P /\ e \in Nat \ {0} /\ e < i /\ e = i \div 2
    BY <1>4, <2>1, <2>3
  <2> HIDE DEF P, e
  <2>5. LeadsTo({i} \cup P, i)
    BY <1>3, <2>4 DEF LeadsTo
  <2> QED BY <1>3, <2>4, <2>5
<1> QED BY <1>3, <1>5, <1>6

------------------------------------------------------------------------------
(* Neither loop loses or repeats a message.                                 *)

\* r holds the messages of g, in whatever order.
Shuffles(r, g) ==
  \E p \in Bijection(DOMAIN r, DOMAIN g) : \A j \in DOMAIN r : r[j] = g[p[j]]

\* An injection of a heap's positions into themselves misses none.
LEMMA InjectionIsBijection ==
  ASSUME NEW n \in Nat, NEW p \in [1..n -> 1..n], \A j, k \in 1..n : p[j] = p[k] => j = k
  PROVE  p \in Bijection(1..n, 1..n)
<1>1. IsFiniteSet(1..n)
  BY FS_Interval
<1>2. p \in Injection(1..n, 1..n)
  BY Fun_IsInj
<1> QED BY <1>1, <1>2, FS_Injection DEF Bijection

\* The climbing message and the ancestors that make room for it change places:
\* the heap holds what it would hold, had the message stayed where it entered.
LEMMA SiftUpShuffles ==
  ASSUME NEW S, NEW h \in Seq(S), NEW hole \in 1..Len(h), NEW m \in S
  PROVE  Shuffles(SiftUp(h, hole, m), [h EXCEPT ![hole] = m])
<1> DEFINE path     == Climb[hole]
           Stays(j) == \E i \in path \ {hole} : i >= j /\ ~Differs(h[i], m)
           n        == Len(h)
           from(j)  == IF j \notin path \/ Stays(j) THEN j
                       ELSE IF j > 1 /\ ~Stays(j \div 2) THEN j \div 2
                       ELSE hole
           p        == [j \in 1..n |-> from(j)]
           g        == [h EXCEPT ![hole] = m]
           r        == SiftUp(h, hole, m)
<1>1. n \in Nat /\ hole \in Nat \ {0} /\ DOMAIN h = 1..n /\ hole \in 1..n
  OBVIOUS
<1>2. LeadsTo(path, hole)
  BY <1>1, ClimbLeads
<1>3. /\ path \in SUBSET (1..n) /\ hole \in path /\ 1 \in path
      /\ \A j \in path : j <= hole /\ (j > 1 => j \div 2 \in path /\ j \div 2 # hole)
      /\ \A j, k \in path : j < k => j <= k \div 2
  <2> HIDE DEF path, n
  <2>1. \A j \in path : j \in 1..hole
    BY <1>2 DEF LeadsTo
  <2> QED BY <1>1, <1>2, <2>1 DEF LeadsTo
<1>4. \A j, k \in path : j <= k /\ Stays(k) => Stays(j)
  <2> HIDE DEF path
  <2>1. path \subseteq Nat
    BY <1>3
  <2> QED BY <2>1
<1>5. ~Stays(hole)
  <2> HIDE DEF path
  <2>1. \A i \in path \ {hole} : i \in Nat /\ i < hole
    BY <1>1, <1>3
  <2> QED BY <1>1, <2>1
<1>6. DOMAIN r = 1..n /\ DOMAIN g = 1..n
      /\ \A j \in 1..n : r[j] = IF j \notin path \/ Stays(j) THEN h[j]
                                ELSE IF j > 1 /\ ~Stays(j \div 2) THEN h[j \div 2]
                                ELSE m
  BY DEF SiftUp
<1>7. g[hole] = m /\ \A j \in 1..n : j # hole => g[j] = h[j]
  OBVIOUS
<1> HIDE DEF path, Stays, r, g, n
<1>8. ASSUME NEW j \in 1..n PROVE from(j) \in 1..n /\ r[j] = g[from(j)]
  <2>1. CASE j \notin path \/ Stays(j)
    <3>1. from(j) = j /\ r[j] = h[j]
      BY <1>6, <2>1
    <3>2. j # hole
      BY <1>3, <1>5, <2>1
    <3> QED BY <1>7, <3>1, <3>2
  <2>2. CASE j \in path /\ ~Stays(j)
    <3>1. CASE j > 1 /\ ~Stays(j \div 2)
      <4>1. j \div 2 \in 1..n /\ j \div 2 # hole
        BY <1>3, <2>2, <3>1
      <4>2. r[j] = h[j \div 2] /\ from(j) = j \div 2
        BY <1>6, <2>2, <3>1
      <4> QED BY <1>7, <4>1, <4>2
    <3>2. CASE ~(j > 1 /\ ~Stays(j \div 2))
      <4>1. r[j] = m /\ from(j) = hole
        BY <1>6, <2>2, <3>2
      <4> QED BY <1>1, <1>7, <4>1
    <3> QED BY <3>1, <3>2
  <2> QED BY <2>1, <2>2
<1>9. ASSUME NEW j \in path, NEW k \in path, ~Stays(j), ~Stays(k), j < k
      PROVE  from(j) # from(k)
  \* k is not where the way up ends, since its parent is no higher than j.
  <2>1. j \in 1..n /\ k \in 1..n /\ j <= k \div 2 /\ k \div 2 \in path /\ k > 1
    BY <1>3, <1>9
  <2>2. ~Stays(k \div 2)
    BY <1>4, <1>9, <2>1
  <2>3. from(k) = k \div 2 /\ k \div 2 # hole
    BY <1>3, <1>9, <2>1, <2>2
  <2>4. CASE j > 1 /\ ~Stays(j \div 2)
    <3>1. from(j) = j \div 2
      BY <1>9, <2>4
    <3>2. j \in Nat /\ j \div 2 < j
      BY <1>1, <2>1, <2>4
    <3> QED BY <1>1, <2>1, <2>3, <3>1, <3>2
  <2>5. CASE ~(j > 1 /\ ~Stays(j \div 2))
    BY <1>9, <2>3, <2>5
  <2> QED BY <2>4, <2>5
<1>10. ASSUME NEW j \in path, ~Stays(j) PROVE from(j) \in path /\ ~Stays(from(j))
  BY <1>3, <1>5, <1>10
<1>11. ASSUME NEW j \in 1..n, NEW k \in 1..n, from(j) = from(k) PROVE j = k
  <2>1. CASE j \in path /\ ~Stays(j) /\ k \in path /\ ~Stays(k)
    <3> HIDE DEF from
    <3>1. ~(j < k) /\ ~(k < j)
      BY <1>9, <1>11, <2>1
    <3> QED BY <1>1, <3>1
  <2>2. CASE (j \in path /\ ~Stays(j)) # (k \in path /\ ~Stays(k))
    <3>1. CASE j \in path /\ ~Stays(j)
      <4>1. from(k) = k
        BY <2>2, <3>1
      <4> QED BY <1>10, <1>11, <2>2, <3>1, <4>1
    <3>2. CASE k \in path /\ ~Stays(k)
      <4>1. from(j) = j
        BY <2>2, <3>2
      <4> QED BY <1>10, <1>11, <2>2, <3>2, <4>1
    <3> QED BY <2>2, <3>1, <3>2
  <2>3. CASE ~(j \in path /\ ~Stays(j)) /\ ~(k \in path /\ ~Stays(k))
    BY <1>11, <2>3
  <2> QED BY <2>1, <2>2, <2>3
<1> HIDE DEF from
<1>12. p \in [1..n -> 1..n] /\ \A j \in 1..n : p[j] = from(j)
  BY <1>8
<1> HIDE DEF p
<1>13. p \in Bijection(1..n, 1..n)
  BY <1>1, <1>11, <1>12, InjectionIsBijection
<1>14. \A j \in 1..n : r[j] = g[p[j]]
  BY <1>8, <1>12
<1>15. Shuffles(r, g)
  BY <1>6, <1>13, <1>14 DEF Shuffles
<1> QED BY <1>15 DEF r, g

\* BlockingPQueue::push loses and repeats nothing.
THEOREM PushShuffles ==
  ASSUME NEW S, NEW h \in Seq(S), NEW m \in S
  PROVE  Shuffles(PushHeap(h, m), Append(h, m))
<1> DEFINE g == Append(h, m)
           n == Len(h) + 1
<1>1. g \in Seq(S) /\ n \in 1..Len(g) /\ g[n] = m
  OBVIOUS
<1>2. PushHeap(h, m) = SiftUp(g, n, m)
  BY DEF PushHeap
<1> HIDE DEF g, n
<1>3. [g EXCEPT ![n] = m] = g
  BY <1>1
<1>4. Shuffles(SiftUp(g, n, m), g)
  BY <1>1, <1>3, SiftUpShuffles
<1> QED BY <1>2, <1>4 DEF g

\* What has been pushed is in the heap.
LEMMA PushedIsThere ==
  ASSUME NEW S, NEW h \in Seq(S), NEW m, PushHeap(h, m) \in Seq(S)
  PROVE  m \in S
<1> DEFINE T == S \cup {m}
           r == PushHeap(h, m)
           g == Append(h, m)
           n == Len(h) + 1
<1>1. h \in Seq(T) /\ m \in T
  BY SeqMonotonic
<1>2. g[n] = m /\ n \in DOMAIN g
  OBVIOUS
<1> HIDE DEF T, r, g, n
<1>3. Shuffles(r, g)
  BY <1>1, PushShuffles DEF r, g
<1>4. PICK p \in Bijection(DOMAIN r, DOMAIN g) : \A j \in DOMAIN r : r[j] = g[p[j]]
  BY <1>3 DEF Shuffles
<1>5. PICK j \in DOMAIN r : p[j] = n
  BY <1>2, Fun_BijectionProperties
<1>6. r \in Seq(S)
  BY DEF r
<1> QED BY <1>2, <1>4, <1>5, <1>6

\* The hole's way down is a path from the root to a leaf, and to one only.
LEMMA DescentLeads ==
  ASSUME NEW h, NEW n \in Nat \ {0}
  PROVE  LET path == Descent(h, n) IN
         /\ path \subseteq 1..n /\ 1 \in path
         /\ \A j \in path : j > 1 => j \div 2 \in path /\ j = Chosen(h, n, j \div 2)
         /\ \A j \in path : 2*j <= n => Chosen(h, n, j) \in path
         /\ \E j \in path : 2*j > n
         /\ \A j, k \in path : 2*j > n /\ 2*k > n => j = k
<1> DEFINE path == Descent(h, n)
           next(j) == Chosen(h, n, j)
<1>1. \A i \in 1..n : i \in path <=> \A j \in Climb[i] \ {1} : j = next(j \div 2)
  BY DEF Descent
<1>2. path \subseteq 1..n
  BY DEF Descent
<1>3. Climb[0] = {} /\ \A i \in Nat \ {0} : Climb[i] = {i} \cup Climb[i \div 2]
  BY ClimbUnfolds
<1>4. \A j \in 1..n : 2*j <= n => next(j) \in {2*j, 2*j + 1} /\ next(j) \in 1..n
  BY DEF Chosen
<1> HIDE DEF path, next
<1>5. 1 \in path
  <2>1. Climb[1] = {1}
    BY <1>3
  <2> QED BY <1>1, <2>1
<1>6. ASSUME NEW j \in path, j > 1 PROVE j \div 2 \in path /\ j = next(j \div 2)
  <2>1. j \in 1..n /\ j \div 2 \in 1..n
    BY <1>2, <1>6
  <2>2. Climb[j] = {j} \cup Climb[j \div 2]
    BY <1>3, <2>1
  <2> QED BY <1>1, <1>6, <2>1, <2>2
<1>7. ASSUME NEW j \in path, 2*j <= n PROVE next(j) \in path
  <2>1. j \in 1..n /\ next(j) \in 1..n /\ next(j) \div 2 = j
    BY <1>2, <1>4, <1>7
  <2>2. Climb[next(j)] = {next(j)} \cup Climb[j]
    BY <1>3, <2>1
  <2> QED BY <1>1, <2>1, <2>2
<1>8. \E j \in path : 2*j > n
  <2> DEFINE T == {n - j : j \in path}
  <2>1. T \in SUBSET Nat /\ T # {}
    BY <1>2, <1>5
  <2>2. PICK x \in T : \A y \in T : x <= y
    BY <2>1, Smallest
  <2>3. PICK j \in path : x = n - j
    BY <2>2
  <2>4. j \in 1..n
    BY <1>2
  <2>5. CASE 2*j <= n
    <3>1. next(j) \in path /\ next(j) \in 1..n /\ next(j) > j
      BY <1>4, <1>7, <2>4, <2>5
    <3>2. n - next(j) \in T
      BY <3>1
    <3>3. x <= n - next(j)
      BY <2>2, <3>2
    <3> QED BY <2>3, <2>4, <3>1, <3>3
  <2> QED BY <2>4, <2>5
\* Of two positions on the way, the lower one is below the upper one: those
\* above them are too, and two children of one parent are not both chosen.
<1>9. \A j, k \in path : j < k => j <= k \div 2
  <2> DEFINE Bad == {j \in path : \E k \in path : j < k /\ ~(j <= k \div 2)}
  <2>1. SUFFICES ASSUME Bad # {} PROVE FALSE
    OBVIOUS
  <2>2. Bad \in SUBSET Nat
    <3>1. path \subseteq Nat
      BY <1>2
    <3> QED BY <3>1
  <2>3. PICK j \in Bad : \A i \in Bad : j <= i
    BY <2>1, <2>2, Smallest
  <2>4. PICK k \in path : j < k /\ ~(j <= k \div 2)
    OBVIOUS
  <2>5. j \in path /\ j \in 1..n /\ k \in 1..n
    BY <1>2
  <2>6. j > 1 /\ k > 1
    BY <2>4, <2>5
  <2> DEFINE a == j \div 2
             b == k \div 2
  <2>7. /\ a \in path /\ b \in path /\ j = next(a) /\ k = next(b)
        /\ a \in 1..n /\ b \in 1..n /\ a < j
    BY <1>2, <1>6, <2>4, <2>5, <2>6
  <2>8. a # b
    BY <2>4, <2>5, <2>7
  <2>9. a < b /\ b < j
    <3>1. a <= b
      BY <2>4, <2>5
    <3> QED BY <2>4, <2>5, <2>7, <2>8, <3>1
  <2>10. a <= b \div 2
    <3>1. a \notin Bad
      BY <2>3, <2>5, <2>7
    <3> HIDE DEF a, b
    <3> QED BY <2>7, <2>9, <3>1
  <2>11. b > 1 /\ b \div 2 = a
    BY <2>5, <2>7, <2>9, <2>10
  <2>12. b = next(a)
    BY <1>6, <2>7, <2>11
  <2> QED BY <2>5, <2>7, <2>9, <2>12
<1>10. ASSUME NEW j \in path, NEW k \in path, 2*j > n, 2*k > n PROVE j = k
  <2>1. j \in 1..n /\ k \in 1..n
    BY <1>2
  <2>2. ~(j < k) /\ ~(k < j)
    BY <1>9, <1>10, <2>1
  <2> QED BY <2>1, <2>2
<1> QED BY <1>2, <1>5, <1>6, <1>7, <1>8, <1>10 DEF path, next

\* A shuffle of a shuffle is one.
LEMMA ShufflesTransitive ==
  ASSUME NEW a, NEW b, NEW c, Shuffles(a, b), Shuffles(b, c)
  PROVE  Shuffles(a, c)
<1>1. PICK p \in Bijection(DOMAIN a, DOMAIN b) : \A j \in DOMAIN a : a[j] = b[p[j]]
  BY DEF Shuffles
<1>2. PICK q \in Bijection(DOMAIN b, DOMAIN c) : \A j \in DOMAIN b : b[j] = c[q[j]]
  BY DEF Shuffles
<1> DEFINE s == [j \in DOMAIN a |-> q[p[j]]]
<1>3. s \in Bijection(DOMAIN a, DOMAIN c)
  BY Fun_BijTransitive
<1>4. \A j \in DOMAIN a : p[j] \in DOMAIN b
  BY Fun_BijectionProperties
<1>5. \A j \in DOMAIN a : a[j] = c[s[j]]
  BY <1>1, <1>2, <1>4
<1> QED BY <1>3, <1>5 DEF Shuffles

\* BlockingPQueue::pop takes the root, and loses and repeats nothing else.
THEOREM PopShuffles ==
  ASSUME NEW S, NEW h \in Seq(S), h # <<>>
  PROVE  Shuffles(PopHeap(h), Tail(h))
<1> DEFINE n    == Len(h) - 1
           path == Descent(h, n)
           next(j) == Chosen(h, n, j)
           leaf == CHOOSE j \in path : 2*j > n
           sunk == [j \in 1..n |-> IF j \in path /\ 2*j <= n THEN h[Chosen(h, n, j)] ELSE h[j]]
           g    == [sunk EXCEPT ![leaf] = h[n + 1]]
           t    == Tail(h)
           from(j) == IF j = leaf THEN n + 1
                      ELSE IF j \in path /\ 2*j <= n THEN next(j) ELSE j
           q    == [j \in 1..n |-> from(j) - 1]
<1>1. n \in Nat /\ DOMAIN h = 1..(n + 1) /\ Len(h) = n + 1 /\ \A j \in 1..(n + 1) : h[j] \in S
  OBVIOUS
<1>2. PopHeap(h) = IF n = 0 THEN <<>> ELSE SiftUp(sunk, leaf, h[n + 1])
  BY DEF PopHeap
<1>3. DOMAIN t = 1..n /\ \A j \in 1..n : t[j] = h[j + 1]
  OBVIOUS
<1>4. \A j \in 1..n : 2*j <= n => next(j) \in {2*j, 2*j + 1} /\ next(j) \in 1..n
  BY <1>1 DEF Chosen
<1>5. \A j \in 1..n : sunk[j] = IF j \in path /\ 2*j <= n THEN h[next(j)] ELSE h[j]
  OBVIOUS
<1>6. sunk \in [1..n -> S]
  <2> HIDE DEF n, path
  <2> QED BY <1>1, <1>4
<1> HIDE DEF n, t
<1>7. CASE n = 0
  <2>1. PopHeap(h) = <<>> /\ DOMAIN PopHeap(h) = 1..0 /\ DOMAIN t = 1..0
    BY <1>2, <1>3, <1>7
  <2> DEFINE e == [j \in 1..0 |-> j]
  <2>2. e \in [1..0 -> 1..0] /\ \A j, k \in 1..0 : e[j] = e[k] => j = k
    OBVIOUS
  <2> HIDE DEF e
  <2>3. e \in Bijection(1..0, 1..0)
    BY <2>2, InjectionIsBijection
  <2>4. \A j \in 1..0 : PopHeap(h)[j] = t[e[j]]
    OBVIOUS
  <2> QED BY <2>1, <2>3, <2>4 DEF Shuffles, t
<1>8. CASE n > 0
  <2>1. /\ path \subseteq 1..n /\ 1 \in path
        /\ \A j \in path : 2*j <= n => next(j) \in path
        /\ \E j \in path : 2*j > n
        /\ \A j, k \in path : 2*j > n /\ 2*k > n => j = k
    BY <1>1, <1>8, DescentLeads
  <2> HIDE DEF path, next
  <2>2. leaf \in path /\ 2*leaf > n
    BY <2>1
  <2> HIDE DEF leaf
  <2>3. leaf \in 1..n
    BY <2>1, <2>2
  <2>4. sunk \in Seq(S) /\ Len(sunk) = n
    <3> HIDE DEF sunk
    <3> QED BY <1>1, <1>6
  <2>5. \A j \in 1..n : from(j) \in 2..(n + 1) /\ g[j] = h[from(j)]
    <3>1. ASSUME NEW j \in 1..n, j = leaf PROVE from(j) = n + 1 /\ g[j] = h[n + 1]
      BY <2>3, <3>1
    <3>2. ASSUME NEW j \in 1..n, j # leaf, j \in path, 2*j <= n
          PROVE  from(j) \in 2..(n + 1) /\ g[j] = h[from(j)]
      <4>1. from(j) = next(j) /\ g[j] = h[next(j)]
        BY <1>5, <3>2
      <4> QED BY <1>1, <1>4, <3>2, <4>1
    <3>3. ASSUME NEW j \in 1..n, j # leaf, ~(j \in path /\ 2*j <= n)
          PROVE  from(j) \in 2..(n + 1) /\ g[j] = h[from(j)]
      <4>1. from(j) = j /\ g[j] = h[j]
        BY <1>5, <3>3
      <4>2. j # 1
        BY <1>1, <2>1, <2>2, <3>3
      <4> QED BY <1>1, <4>1, <4>2
    <3> QED BY <1>1, <1>8, <3>1, <3>2, <3>3
  <2>6. ASSUME NEW j \in 1..n, NEW k \in 1..n, from(j) = from(k), j # leaf, k # leaf
        PROVE  j = k
    <3>1. CASE (j \in path /\ 2*j <= n) /\ (k \in path /\ 2*k <= n)
      BY <1>4, <2>6, <3>1
    <3>2. CASE ~(j \in path /\ 2*j <= n) /\ ~(k \in path /\ 2*k <= n)
      BY <2>6, <3>2
    <3>3. ASSUME NEW a \in 1..n, NEW b \in 1..n, a \in path /\ 2*a <= n, b # leaf,
                 ~(b \in path /\ 2*b <= n)
          PROVE  next(a) # b
      BY <1>1, <2>1, <2>2, <3>3
    <3>4. CASE (j \in path /\ 2*j <= n) /\ ~(k \in path /\ 2*k <= n)
      BY <2>6, <3>3, <3>4
    <3>5. CASE ~(j \in path /\ 2*j <= n) /\ (k \in path /\ 2*k <= n)
      BY <2>6, <3>3, <3>5
    <3> QED BY <3>1, <3>2, <3>4, <3>5
  <2>7. ASSUME NEW j \in 1..n, j # leaf PROVE from(j) # n + 1
    BY <1>1, <1>4, <2>7
  <2>8. \A j, k \in 1..n : from(j) = from(k) => j = k
    <3>1. from(leaf) = n + 1
      OBVIOUS
    <3> HIDE DEF from
    <3> QED BY <2>6, <2>7, <3>1
  <2> HIDE DEF from, g
  <2>9. q \in [1..n -> 1..n] /\ \A j \in 1..n : q[j] = from(j) - 1
    BY <1>1, <2>5
  <2> HIDE DEF q
  <2>10. \A j, k \in 1..n : q[j] = q[k] => j = k
    <3> SUFFICES ASSUME NEW j \in 1..n, NEW k \in 1..n, q[j] = q[k] PROVE j = k
      OBVIOUS
    <3>1. from(j) \in 2..(n + 1) /\ from(k) \in 2..(n + 1)
      BY <2>5
    <3>2. from(j) - 1 = from(k) - 1
      BY <2>9
    <3>3. from(j) = from(k)
      BY <1>1, <3>1, <3>2
    <3> QED BY <2>8, <3>3
  <2>11. q \in Bijection(1..n, 1..n)
    BY <1>1, <2>9, <2>10, InjectionIsBijection
  <2>12. DOMAIN g = 1..n
    BY <1>1 DEF g
  <2>13. \A j \in 1..n : g[j] = t[q[j]]
    BY <1>1, <1>3, <2>5, <2>9
  <2>14. Shuffles(g, t)
    BY <1>3, <2>11, <2>12, <2>13 DEF Shuffles
  <2>15. Shuffles(SiftUp(sunk, leaf, h[n + 1]), g)
    <3>1. h[n + 1] \in S
      BY <1>1
    <3> HIDE DEF sunk
    <3> QED BY <2>3, <2>4, <3>1, SiftUpShuffles DEF g
  <2>16. PopHeap(h) = SiftUp(sunk, leaf, h[n + 1])
    BY <1>2, <1>8
  <2> QED BY <2>14, <2>15, <2>16, ShufflesTransitive DEF t
<1> QED BY <1>1, <1>7, <1>8
=============================================================================
