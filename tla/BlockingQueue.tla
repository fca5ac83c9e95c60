---------------------------- MODULE BlockingQueue ----------------------------
(****************************************************************************)
(* BlockingPQueue with its mutex and its condition variable, and the        *)
(* threads that push and pop.  ClientQueue is the same code around a FIFO.  *)
(* Sequencer and Failover take push and pop as atomic; this module is why   *)
(* they may.                                                                *)
(****************************************************************************)
EXTENDS MessageHeap, FiniteSets

CONSTANTS
  Pushers,      \* the threads that push: producer, sender, failure detector
  Poppers,      \* the threads that pop, in a loop
  Types,        \* the message types that are pushed
  MaxPushes     \* how many messages a behaviour pushes in all (bound)

Threads == Pushers \cup Poppers
Nobody  == "nobody"

ASSUME BlockingQueueAssumption ==
  Pushers \cap Poppers = {} /\ Nobody \notin Threads /\ MaxPushes \in Nat

VARIABLES
  heap,         \* pQueue
  mtx,          \* the thread that has locked mtx, or Nobody
  pc,           \* each thread: "out", "in" (has the lock), "taking",
                \* "notifying", "waiting" or "woken"
  pushes,       \* how many messages have been pushed
  popped        \* history: which arrivals have been popped

vars == <<heap, mtx, pc, pushes, popped>>

Init ==
  /\ heap = <<>> /\ mtx = Nobody /\ pushes = 0 /\ popped = {}
  /\ pc = [t \in Threads |-> "out"]

Goes(t, place) == pc' = [pc EXCEPT ![t] = place]

\* Whoever comes out of wait() tests again whether the queue is empty.
AfterWaitTaken == "taking"
AfterWait      == "in"

\* unique_lock, in push, in pop, and in wait() on its way back.
Lock(t) ==
  /\ mtx = Nobody /\ mtx' = t
  /\ \/ pc[t] = "out" /\ Goes(t, "in") /\ (t \in Pushers => pushes < MaxPushes)
     \/ pc[t] = "woken" /\ Goes(t, AfterWait)
  /\ UNCHANGED <<heap, pushes, popped>>

\* pQueue.push and mlock.unlock.
Push(t, m) ==
  /\ t \in Pushers /\ pc[t] = "in" /\ Goes(t, "notifying")
  /\ heap' = PushHeap(heap, m) /\ pushes' = pushes + 1
  /\ mtx' = Nobody /\ UNCHANGED popped

\* notify_one, without the lock: it wakes one who waits, if one does.
Waiting == {t \in Poppers : pc[t] = "waiting"}
NotifyOne(t) ==
  /\ t \in Pushers /\ pc[t] = "notifying"
  /\ \/ \E w \in Waiting : pc' = [pc EXCEPT ![w] = "woken", ![t] = "out"]
     \/ Waiting = {} /\ Goes(t, "out")
  /\ UNCHANGED <<heap, mtx, pushes, popped>>

\* pop's test.  wait() unlocks and waits at once.
TestEmpty(t) ==
  /\ t \in Poppers /\ pc[t] = "in"
  /\ IF heap = <<>> THEN Goes(t, "waiting") /\ mtx' = Nobody
     ELSE Goes(t, "taking") /\ UNCHANGED mtx
  /\ UNCHANGED <<heap, pushes, popped>>

\* top and pop; of an empty queue both are undefined, and nobody pushed what
\* they then return.
Top == IF heap = <<>> THEN [type |-> 0, arrival |-> 0] ELSE heap[1]
Pop(t) ==
  /\ t \in Poppers /\ pc[t] = "taking" /\ Goes(t, "out")
  /\ popped' = popped \cup {Top.arrival}
  /\ heap' = (IF heap = <<>> THEN heap ELSE PopHeap(heap))
  /\ mtx' = Nobody /\ UNCHANGED pushes

\* wait() may also return for no reason.
SpuriousWakeup(t) ==
  /\ t \in Waiting /\ Goes(t, "woken")
  /\ UNCHANGED <<heap, mtx, pushes, popped>>

Arriving == [type : Types, arrival : {pushes + 1}]
Step(t) ==
  Lock(t) \/ (\E m \in Arriving : Push(t, m)) \/ NotifyOne(t) \/ TestEmpty(t) \/ Pop(t)

Next == \E t \in Threads : Step(t) \/ SpuriousWakeup(t)

Spec == Init /\ [][Next]_vars

\* A thread that can go on does; nobody need push.  A mutex that is free again
\* and again need not come to the same thread.
FairSpec == Spec /\ \A t \in Threads : WF_vars(Step(t))

\* BlockingPQueue neither loses nor repeats a message: the pushed messages are
\* exactly the popped ones and the queued ones, although the comparison that
\* orders the heap is not an order.
NothingLost ==
  LET queued == {heap[i].arrival : i \in DOMAIN heap}
  IN  /\ Len(heap) + Cardinality(popped) = pushes
      /\ queued \cup popped = 1..pushes

\* A message of a type the queue does not hold overtakes the whole queue: it
\* is the next to be popped.  This is what lets a DELETE pass the ADD_USER of
\* the same user.
NewTypeIsNext ==
  [][ pushes' > pushes =>
        \A i \in DOMAIN heap' :
          (heap'[i].arrival = pushes' /\ \A j \in DOMAIN heap : heap[j].type # heap'[i].type)
            => i = 1 ]_vars

\* Threads on a heap that blocks are a queue with atomic push and pop: nothing
\* is taken from an empty heap although two may be woken for one message, and
\* no wakeup is lost although notify_one comes after the unlock.
Queue == INSTANCE AtomicQueue
  WITH heap <- heap, popped <- popped, Items <- [type : Types, arrival : 1..MaxPushes]
ImplementsAtomicQueue == Queue!QSpec
=============================================================================
