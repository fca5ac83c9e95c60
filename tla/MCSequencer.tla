----------------------------- MODULE MCSequencer -----------------------------
(****************************************************************************)
(* Instances of Sequencer: client Ids 1, 3 with the leader's Id 2 between   *)
(* them, so that the leader's loop passes its own entry.                    *)
(****************************************************************************)
EXTENDS Sequencer

CONSTANT MaxLag   \* how many datagrams may be waiting for one client

\* How far a client's receiver may fall behind in the runs with faults.
BoundedLag == \A c \in Clients : Len(toClient[c]) <= MaxLag
=============================================================================
