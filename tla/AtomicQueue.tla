----------------------------- MODULE AtomicQueue -----------------------------
(****************************************************************************)
(* What the rest of the program takes BlockingPQueue for: a queue whose     *)
(* push and pop happen at once, where a pop waits for a message and who     *)
(* waits does not wait in vain.  Sequencer and Failover use it so.          *)
(****************************************************************************)
EXTENDS MessageHeap

CONSTANT Items      \* what can be pushed

VARIABLES heap,     \* the queue
          popped    \* the arrivals of what has been popped

QInit == heap = <<>> /\ popped = {}

QPush == /\ \E m \in Items : heap' = PushHeap(heap, m)
         /\ UNCHANGED popped

QPop == /\ heap # <<>>
        /\ popped' = popped \cup {heap[1].arrival}
        /\ heap' = PopHeap(heap)

QNext == QPush \/ QPop

QSafe == QInit /\ [][QNext]_<<heap, popped>>

QSpec == QSafe /\ WF_<<heap, popped>>(QPop)
=============================================================================
