-------------------------- MODULE BlockingQueueProofs --------------------------
(****************************************************************************)
(* That BlockingPQueue's push and pop are atomic, for any number of threads *)
(* and of messages: the safety half of BlockingQueue!ImplementsAtomicQueue; *)
(* and that the queue loses and repeats nothing, in whatever order it hands *)
(* out what it holds.                                                       *)
(****************************************************************************)
EXTENDS BlockingQueue, MessageHeapProofs

\* A thread inside push or pop has the lock, and what it has tested still holds.
Locked ==
  \A t \in Threads :
    /\ pc[t] \in {"in", "taking"} => mtx = t
    /\ pc[t] = "taking" => heap # <<>>
    /\ t \in Pushers => pc[t] \in {"out", "in", "notifying"}
    /\ t \in Pushers /\ pc[t] = "in" => pushes < MaxPushes

IInv ==
  /\ pushes \in Nat
  /\ pc \in [Threads -> {"out", "in", "taking", "notifying", "waiting", "woken"}]
  /\ Locked

\* At first nobody is inside push or pop.
LEMMA InitIInv == Init => IInv
BY DEF Init, IInv, Locked

\* unique_lock: who gets the lock is the only one inside.
LEMMA LockIInv ==
  ASSUME IInv, NEW t \in Threads, Lock(t) PROVE IInv'
<1>1. CASE pc[t] = "out"
  BY <1>1, BlockingQueueAssumption DEF IInv, Locked, Lock, Goes, BlockingQueueAssumption
<1>2. CASE pc[t] = "woken"
  BY <1>2, BlockingQueueAssumption
  DEF IInv, Locked, Lock, Goes, AfterWait, BlockingQueueAssumption
<1> QED
  BY <1>1, <1>2 DEF Lock

\* push, by the one who has the lock.
LEMMA PushIInv ==
  ASSUME IInv, NEW t \in Threads, NEW m \in Arriving, Push(t, m) PROVE IInv'
<1>1. \A u \in Threads \ {t} : pc[u] \notin {"in", "taking"}
  BY DEF IInv, Locked, Push
<1> QED
  BY <1>1 DEF IInv, Locked, Push, Goes

\* notify_one lets nobody inside: who is woken has yet to lock.
LEMMA NotifyOneIInv ==
  ASSUME IInv, NEW t \in Threads, NotifyOne(t) PROVE IInv'
<1>1. CASE Goes(t, "out")
  BY <1>1 DEF IInv, Locked, NotifyOne, Goes
<1>2. ASSUME NEW w \in Waiting, pc' = [pc EXCEPT ![w] = "woken", ![t] = "out"]
      PROVE  IInv'
  BY <1>2 DEF IInv, Locked, NotifyOne, Waiting
<1> QED
  BY <1>1, <1>2 DEF NotifyOne

\* Whoever goes on to take has seen the heap with the lock in hand.
LEMMA TestEmptyIInv ==
  ASSUME IInv, NEW t \in Threads, TestEmpty(t) PROVE IInv'
BY BlockingQueueAssumption DEF IInv, Locked, TestEmpty, Goes, BlockingQueueAssumption

\* pop, by the one who has the lock.
LEMMA PopIInv ==
  ASSUME IInv, NEW t \in Threads, Pop(t) PROVE IInv'
<1>1. \A u \in Threads \ {t} : pc[u] \notin {"in", "taking"}
  BY DEF IInv, Locked, Pop
<1> QED
  BY <1>1, BlockingQueueAssumption DEF IInv, Locked, Pop, Goes, BlockingQueueAssumption

\* A wakeup for no reason lets nobody inside either.
LEMMA SpuriousWakeupIInv ==
  ASSUME IInv, NEW t \in Threads, SpuriousWakeup(t) PROVE IInv'
BY BlockingQueueAssumption DEF IInv, Locked, SpuriousWakeup, Waiting, Goes, BlockingQueueAssumption

\* Every step keeps it so.
LEMMA NextIInv == IInv /\ [Next]_vars => IInv'
<1> SUFFICES ASSUME IInv, [Next]_vars PROVE IInv'
  OBVIOUS
<1>1. ASSUME NEW t \in Threads, Step(t) PROVE IInv'
  BY <1>1, LockIInv, PushIInv, NotifyOneIInv, TestEmptyIInv, PopIInv DEF Step
<1>2. CASE UNCHANGED vars
  BY <1>2 DEF vars, IInv, Locked
<1> QED
  BY <1>1, <1>2, SpuriousWakeupIInv DEF Next

\* AtomicQueue's heap is MessageHeap's too.
LEMMA SameHeap ==
  ASSUME NEW h, NEW m
  PROVE  Queue!PushHeap(h, m) = PushHeap(h, m) /\ Queue!PopHeap(h) = PopHeap(h)
BY Zenon DEF PushHeap, Queue!PushHeap, PopHeap, Queue!PopHeap, SiftUp, Queue!SiftUp,
     Climb, Queue!Climb, Descent, Queue!Descent, Chosen, Queue!Chosen,
     Differs, Queue!Differs

\* Every step of a thread is a push or a pop of the queue, or none of its
\* business: in particular a pop that has waited never finds the queue empty.
LEMMA StepRefines == IInv /\ [Next]_vars => [Queue!QNext]_<<heap, popped>>
<1> SUFFICES ASSUME IInv, [Next]_vars PROVE [Queue!QNext]_<<heap, popped>>
  OBVIOUS
<1>1. ASSUME NEW t \in Threads, NEW m \in Arriving, Push(t, m)
      PROVE  Queue!QPush
  <2>1. m \in [type : Types, arrival : 1..MaxPushes]
    BY <1>1, BlockingQueueAssumption
    DEF IInv, Locked, Push, Arriving, BlockingQueueAssumption
  <2>2. heap' = PushHeap(heap, m) /\ UNCHANGED popped
    BY <1>1 DEF Push
  <2> QED
    BY <2>1, <2>2, SameHeap DEF Queue!QPush
<1>2. ASSUME NEW t \in Threads, Pop(t) PROVE Queue!QPop
  <2>1. heap # <<>>
    BY <1>2 DEF IInv, Locked, Pop
  <2> QED
    BY <1>2, <2>1, SameHeap DEF Pop, Top, Queue!QPop
<1>3. ASSUME NEW t \in Threads,
             Lock(t) \/ NotifyOne(t) \/ TestEmpty(t) \/ SpuriousWakeup(t)
      PROVE  UNCHANGED <<heap, popped>>
  BY <1>3 DEF Lock, NotifyOne, TestEmpty, SpuriousWakeup
<1>4. CASE UNCHANGED vars
  BY <1>4 DEF vars
<1> QED
  BY <1>1, <1>2, <1>3, <1>4, Zenon DEF Next, Step, Queue!QNext

\* push and pop of any number of threads, with the lock and the waiting, are
\* those of a queue that does either at once (BlockingPQueue).
THEOREM PushAndPopAreAtomic == Spec => Queue!QSafe
<1>1. Init => Queue!QInit
  BY DEF Init, Queue!QInit
<1> QED
  BY <1>1, InitIInv, NextIInv, StepRefines, PTL DEF Spec, Queue!QSafe

------------------------------------------------------------------------------
(* What push and pop do to the messages.                                    *)

\* In which order messages were pushed does not repeat.
Distinct(h) == \A j, k \in DOMAIN h : h[j].arrival = h[k].arrival => j = k

\* A shuffled heap has the same messages, and none twice that was there once.
LEMMA ShufflesKeep ==
  ASSUME NEW r, NEW g, Shuffles(r, g)
  PROVE  /\ \A i \in DOMAIN r : \E j \in DOMAIN g : r[i] = g[j]
         /\ \A j \in DOMAIN g : \E i \in DOMAIN r : r[i] = g[j]
         /\ Distinct(g) => Distinct(r)
<1>1. PICK p \in Bijection(DOMAIN r, DOMAIN g) : \A j \in DOMAIN r : r[j] = g[p[j]]
  BY DEF Shuffles
<1>2. /\ p \in [DOMAIN r -> DOMAIN g]
      /\ \A j, k \in DOMAIN r : p[j] = p[k] => j = k
      /\ \A i \in DOMAIN g : \E j \in DOMAIN r : p[j] = i
  BY Fun_BijectionProperties
<1> QED BY <1>1, <1>2 DEF Distinct

\* A message whose type the heap does not hold climbs to the root.
LEMMA PushNewType ==
  ASSUME NEW S, NEW h \in Seq(S), NEW m \in S, \A j \in DOMAIN h : Differs(h[j], m)
  PROVE  PushHeap(h, m)[1] = m
<1> DEFINE n == Len(h) + 1
           g == Append(h, m)
<1>1. n \in Nat \ {0} /\ DOMAIN g = 1..n /\ \A j \in 1..n : j # n => Differs(g[j], m)
  OBVIOUS
<1> HIDE DEF n, g
<1>2. Climb[n] \subseteq 1..n /\ 1 \in Climb[n]
  BY <1>1, ClimbLeads DEF LeadsTo
<1>3. ~ \E i \in Climb[n] \ {n} : i >= 1 /\ ~Differs(g[i], m)
  BY <1>1, <1>2
<1>4. SiftUp(g, n, m)[1] = m
  BY <1>1, <1>2, <1>3 DEF SiftUp
<1> QED BY <1>4 DEF PushHeap, n, g

\* What has been pushed is in the heap once, or has been popped.
Kept ==
  /\ heap \in Seq([type : Types, arrival : 1..pushes]) /\ Distinct(heap)
  /\ popped \subseteq 1..pushes /\ IsFiniteSet(popped)
  /\ \A i \in DOMAIN heap : heap[i].arrival \notin popped
  /\ NothingLost

\* The messages in the heap.
LEMMA KeptHeap ==
  ASSUME Kept
  PROVE  /\ Len(heap) \in Nat /\ DOMAIN heap = 1..Len(heap)
         /\ \A i \in 1..Len(heap) : /\ heap[i] \in [type : Types, arrival : 1..pushes]
                                   /\ heap[i].arrival \in 1..pushes
                                   /\ heap[i].arrival \notin popped
         /\ \A i, k \in 1..Len(heap) : heap[i].arrival = heap[k].arrival => i = k
<1> DEFINE S == [type : Types, arrival : 1..pushes]
<1>1. heap \in Seq(S)
  BY DEF Kept
<1> HIDE DEF S
<1>2. Len(heap) \in Nat /\ DOMAIN heap = 1..Len(heap) /\ \A i \in 1..Len(heap) : heap[i] \in S
  BY <1>1
<1> QED BY <1>2 DEF S, Kept, Distinct

\* The empty queue.
LEMMA InitKept == Init => Kept
BY FS_EmptySet DEF Init, Kept, Distinct, NothingLost

\* A push adds one message, under a number that nobody has.
LEMMA PushKept ==
  ASSUME IInv, Kept, NEW t \in Threads, NEW m \in Arriving, Push(t, m)
  PROVE  Kept' /\ \A i \in DOMAIN heap' : heap'[i].arrival = pushes' => heap'[i] = m
<1> DEFINE g == Append(heap, m)
           S == [type : Types, arrival : 1..(pushes + 1)]
<1>1. heap' = PushHeap(heap, m) /\ pushes' = pushes + 1 /\ popped' = popped /\ pushes \in Nat
  BY DEF Push, IInv
<1>2. m \in S /\ m.arrival = pushes + 1
  BY <1>1 DEF Arriving
<1>3. heap \in Seq(S)
  <2>1. [type : Types, arrival : 1..pushes] \subseteq S
    BY <1>1
  <2> QED BY <2>1, SeqMonotonic DEF Kept
<1>4. Len(g) = Len(heap) + 1 /\ DOMAIN g = 1..(Len(heap) + 1) /\ Len(heap) \in Nat
      /\ g[Len(heap) + 1] = m /\ \A j \in 1..Len(heap) : g[j] = heap[j]
  BY <1>3
<1>5. \A j \in 1..Len(heap) : heap[j].arrival \in 1..pushes
  BY KeptHeap
<1> HIDE DEF g, S
<1>6. heap' \in Seq(S) /\ Len(heap') = Len(heap) + 1 /\ Shuffles(heap', g)
  BY <1>1, <1>2, <1>3, PushHeapType, PushShuffles DEF g
<1>7. Distinct(g)
  BY <1>1, <1>2, <1>4, KeptHeap DEF Distinct
<1>8. /\ Distinct(heap')
      /\ \A i \in DOMAIN heap' : \E j \in DOMAIN g : heap'[i] = g[j]
      /\ \A j \in DOMAIN g : \E i \in DOMAIN heap' : heap'[i] = g[j]
  BY <1>6, <1>7, ShufflesKeep
<1>9. \A i \in DOMAIN heap' :
        heap'[i] = m \/ \E j \in 1..Len(heap) : heap'[i] = heap[j]
  BY <1>4, <1>8
<1>10. \A i \in DOMAIN heap' : heap'[i].arrival \notin popped
  <2>1. pushes + 1 \notin popped
    BY <1>1 DEF Kept
  <2> QED BY <1>2, <1>9, <2>1, KeptHeap
<1>11. {heap'[i].arrival : i \in DOMAIN heap'} = {heap[i].arrival : i \in DOMAIN heap} \cup {pushes + 1}
  <2>1. DOMAIN heap = 1..Len(heap)
    BY <1>3
  <2>2. ASSUME NEW i \in DOMAIN heap'
        PROVE  heap'[i].arrival \in {heap[k].arrival : k \in DOMAIN heap} \cup {pushes + 1}
    BY <1>2, <1>9, <2>1
  <2>3. ASSUME NEW j \in DOMAIN g
        PROVE  g[j].arrival \in {heap'[i].arrival : i \in DOMAIN heap'}
    BY <1>8
  <2>4. pushes + 1 \in {heap'[i].arrival : i \in DOMAIN heap'}
    BY <1>2, <1>4, <2>3
  <2>5. ASSUME NEW k \in DOMAIN heap
        PROVE  heap[k].arrival \in {heap'[i].arrival : i \in DOMAIN heap'}
    <3>1. k \in DOMAIN g /\ g[k] = heap[k]
      BY <1>4, <2>1
    <3> QED BY <2>3, <3>1
  <2> QED BY <2>2, <2>4, <2>5
<1>12. NothingLost'
  <2>1. Len(heap) + Cardinality(popped) = pushes
        /\ {heap[i].arrival : i \in DOMAIN heap} \cup popped = 1..pushes
    BY DEF Kept, NothingLost
  <2>2. Cardinality(popped) \in Nat
    BY FS_CardinalityType DEF Kept
  <2>3. Len(heap') + Cardinality(popped') = pushes'
    BY <1>1, <1>4, <1>6, <2>1, <2>2
  <2>4. {heap'[i].arrival : i \in DOMAIN heap'} \cup popped' = 1..pushes'
    <3>1. 1..(pushes + 1) = 1..pushes \cup {pushes + 1}
      BY <1>1
    <3> QED BY <1>1, <1>11, <2>1, <3>1
  <2> QED BY <2>3, <2>4 DEF NothingLost
<1>13. \A i \in DOMAIN heap' : heap'[i].arrival = pushes' => heap'[i] = m
  BY <1>1, <1>5, <1>9
<1>14. popped' \subseteq 1..pushes' /\ IsFiniteSet(popped')
  BY <1>1 DEF Kept
<1>15. heap' \in Seq([type : Types, arrival : 1..pushes'])
  BY <1>1, <1>6 DEF S
<1> QED BY <1>1, <1>8, <1>10, <1>12, <1>13, <1>14, <1>15 DEF Kept

\* A pop takes the root out of the heap, and nothing else.
LEMMA PopKept ==
  ASSUME IInv, Kept, NEW t \in Threads, Pop(t)
  PROVE  Kept'
<1> DEFINE g == Tail(heap)
           S == [type : Types, arrival : 1..pushes]
           top == heap[1].arrival
<1>1. heap # <<>>
  BY DEF Pop, IInv, Locked
<1>2. heap' = PopHeap(heap) /\ popped' = popped \cup {top} /\ pushes' = pushes /\ pushes \in Nat
  BY <1>1 DEF Pop, Top, IInv
<1>3. heap \in Seq(S)
  BY DEF Kept
<1>4. /\ Len(heap) \in Nat \ {0} /\ DOMAIN heap = 1..Len(heap)
      /\ Len(g) = Len(heap) - 1 /\ DOMAIN g = 1..(Len(heap) - 1)
      /\ \A j \in 1..(Len(heap) - 1) : g[j] = heap[j + 1]
      /\ top \in 1..pushes
  <2>1. Len(heap) \in Nat \ {0} /\ DOMAIN heap = 1..Len(heap)
        /\ Len(g) = Len(heap) - 1 /\ DOMAIN g = 1..(Len(heap) - 1)
        /\ \A j \in 1..(Len(heap) - 1) : g[j] = heap[j + 1]
    <3> HIDE DEF S
    <3> QED BY <1>1, <1>3
  <2> QED BY <2>1, KeptHeap
<1> HIDE DEF g, S
<1>5. heap' \in Seq(S) /\ Len(heap') = Len(heap) - 1 /\ Shuffles(heap', g)
  BY <1>1, <1>2, <1>3, PopHeapType, PopShuffles DEF g
<1>6. Distinct(g)
  BY <1>4, KeptHeap DEF Distinct
<1>7. /\ Distinct(heap')
      /\ \A i \in DOMAIN heap' : \E j \in DOMAIN g : heap'[i] = g[j]
      /\ \A j \in DOMAIN g : \E i \in DOMAIN heap' : heap'[i] = g[j]
  BY <1>5, <1>6, ShufflesKeep
<1>8. {heap'[i].arrival : i \in DOMAIN heap'} = {heap[i].arrival : i \in DOMAIN heap} \ {top}
  <2>1. ASSUME NEW i \in DOMAIN heap'
        PROVE  heap'[i].arrival \in {heap[k].arrival : k \in DOMAIN heap} \ {top}
    <3>1. PICK j \in DOMAIN g : heap'[i] = g[j]
      BY <1>7
    <3>2. j + 1 \in DOMAIN heap /\ j + 1 # 1 /\ heap'[i] = heap[j + 1]
      BY <1>4, <3>1
    <3>3. heap[j + 1].arrival # top
      BY <1>4, <3>2, KeptHeap
    <3> QED BY <3>2, <3>3
  <2>2. ASSUME NEW k \in DOMAIN heap, heap[k].arrival # top
        PROVE  \E i \in DOMAIN heap' : heap'[i].arrival = heap[k].arrival
    <3>1. k - 1 \in DOMAIN g /\ g[k - 1] = heap[k]
      BY <1>4, <2>2
    <3> QED BY <1>7, <3>1
  <2> QED BY <2>1, <2>2
<1>9. \A i \in DOMAIN heap' : heap'[i].arrival \notin popped'
  <2>1. ASSUME NEW i \in DOMAIN heap' PROVE heap'[i].arrival \notin popped'
    <3>1. PICK k \in DOMAIN heap : heap'[i].arrival = heap[k].arrival /\ heap[k].arrival # top
      BY <1>8
    <3> QED BY <1>2, <3>1 DEF Kept
  <2> QED BY <2>1
<1>10. NothingLost'
  <2>1. Len(heap) + Cardinality(popped) = pushes
        /\ {heap[i].arrival : i \in DOMAIN heap} \cup popped = 1..pushes
    BY DEF Kept, NothingLost
  <2>2. top \notin popped
    BY <1>4 DEF Kept
  <2>3. Cardinality(popped') = Cardinality(popped) + 1 /\ Cardinality(popped) \in Nat
    BY <1>2, <2>2, FS_AddElement, FS_CardinalityType DEF Kept
  <2>4. Len(heap') + Cardinality(popped') = pushes'
    BY <1>2, <1>4, <1>5, <2>1, <2>3
  <2>5. {heap'[i].arrival : i \in DOMAIN heap'} \cup popped' = 1..pushes'
    BY <1>2, <1>4, <1>8, <2>1
  <2> QED BY <2>4, <2>5 DEF NothingLost
<1>11. popped' \subseteq 1..pushes' /\ IsFiniteSet(popped')
  BY <1>2, <1>4, FS_AddElement DEF Kept
<1>12. heap' \in Seq([type : Types, arrival : 1..pushes'])
  BY <1>2, <1>5 DEF S
<1> QED BY <1>7, <1>9, <1>10, <1>11, <1>12 DEF Kept

\* Nothing but a push and a pop touches the messages.
LEMMA NextKept == IInv /\ Kept /\ [Next]_vars => Kept'
<1> SUFFICES ASSUME IInv, Kept, [Next]_vars PROVE Kept'
  OBVIOUS
<1>1. CASE UNCHANGED <<heap, pushes, popped>>
  BY <1>1 DEF Kept, NothingLost
<1>2. ASSUME NEW t \in Threads, Step(t) PROVE Kept'
  BY <1>1, <1>2, PushKept, PopKept DEF Step, Lock, NotifyOne, TestEmpty
<1> QED BY <1>1, <1>2 DEF Next, SpuriousWakeup, vars

\* However many threads push and pop, every message pushed is popped once or
\* still queued, though the comparison that orders the heap is not an order
\* (BlockingPQueue::push and pop).
THEOREM NothingIsLost == Spec => []NothingLost
<1>1. Kept => NothingLost
  BY DEF Kept
<1> QED BY <1>1, InitIInv, NextIInv, InitKept, NextKept, PTL DEF Spec

\* A message of a type that the queue does not hold is the next to be popped.
THEOREM NewTypeOvertakes == Spec => NewTypeIsNext
<1> DEFINE Overtakes ==
      pushes' > pushes =>
        \A i \in DOMAIN heap' :
          (heap'[i].arrival = pushes' /\ \A j \in DOMAIN heap : heap[j].type # heap'[i].type)
            => i = 1
<1>1. IInv /\ Kept /\ [Next]_vars => [Overtakes]_vars
  <2> SUFFICES ASSUME IInv, Kept, Next, pushes' > pushes,
                      NEW i \in DOMAIN heap', heap'[i].arrival = pushes',
                      \A j \in DOMAIN heap : heap[j].type # heap'[i].type
               PROVE  i = 1
    OBVIOUS
  <2>1. PICK t \in Threads, m \in Arriving : Push(t, m)
    BY DEF Next, Step, Lock, NotifyOne, TestEmpty, Pop, SpuriousWakeup, IInv
  <2>2. heap'[i] = m /\ Kept'
    BY <2>1, PushKept
  <2> DEFINE S == [type : Types, arrival : 1..(pushes + 1)]
  <2>3. m \in S /\ heap \in Seq(S)
    <3>1. pushes \in Nat
      BY DEF IInv
    <3>2. [type : Types, arrival : 1..pushes] \subseteq S
      BY <3>1
    <3>3. heap \in Seq(S)
      BY <3>2, SeqMonotonic DEF Kept
    <3>4. m \in S
      BY <3>1 DEF Arriving
    <3> QED BY <3>3, <3>4
  <2>4. heap' = PushHeap(heap, m)
    BY <2>1 DEF Push
  <2>5. \A j \in DOMAIN heap : Differs(heap[j], m)
    BY <2>2 DEF Differs
  <2>6. heap'[1] = m
    <3> HIDE DEF S
    <3> QED BY <2>3, <2>4, <2>5, PushNewType
  <2>7. 1 \in DOMAIN heap'
    <3>1. heap' \in Seq(S) /\ Len(heap') = Len(heap) + 1 /\ Len(heap) \in Nat
      <4> HIDE DEF S
      <4> QED BY <2>3, <2>4, PushHeapType
    <3> HIDE DEF S
    <3> QED BY <3>1
  <2> QED BY <2>2, <2>6, <2>7 DEF Kept, Distinct
<1> QED BY <1>1, InitIInv, NextIInv, InitKept, NextKept, PTL DEF Spec, NewTypeIsNext
=============================================================================
