------------------------- MODULE TotalOrderMulticast -------------------------
(****************************************************************************)
(* What the chat server promises its participants, whatever threads,        *)
(* queues and datagrams it is built from: there is one order of all         *)
(* messages, and every participant shows a subsequence of it, never going   *)
(* back.  Nothing is said of the messages a participant misses.             *)
(****************************************************************************)
EXTENDS Naturals, Sequences

CONSTANTS Clients,    \* those who show messages
          Messages    \* what can be sent

VARIABLES log,        \* the messages in the order the sequencer gave them
          shown       \* shown[c]: what c has shown, with sequence numbers

mvars == <<log, shown>>

\* The last sequence number on a screen, 0 when it is empty.
LastOn(screen) == IF screen = <<>> THEN 0 ELSE screen[Len(screen)].seq

MInit ==
  /\ log = <<>>
  /\ shown = [c \in Clients |-> <<>>]

\* The sequencer gives the next number to some message.
Sequence ==
  /\ log' \in Seq(Messages)
  /\ Len(log') = Len(log) + 1
  /\ \A n \in DOMAIN log : log'[n] = log[n]
  /\ UNCHANGED shown

\* c shows the message with number n, later than all it has shown.
Show(c, n) ==
  /\ n > LastOn(shown[c])
  /\ shown' = [shown EXCEPT ![c] = Append(@, [seq |-> n, msg |-> log[n]])]
  /\ UNCHANGED log

MNext ==
  \/ Sequence
  \/ \E c \in Clients, n \in DOMAIN log : Show(c, n)

MSpec == MInit /\ [][MNext]_mvars
=============================================================================
