----------------------------- MODULE SharedOrder -----------------------------
(****************************************************************************)
(* What the chat promises across a change of leader, where no log outlives  *)
(* its keeper: the screens of those who are still there never disagree on   *)
(* what a number stands for, and no screen goes back.  TotalOrderMulticast  *)
(* says more, of the time in which one sequencer lives.                     *)
(****************************************************************************)
EXTENDS Naturals, Sequences

CONSTANTS Clients,    \* those who show messages
          Messages    \* what can be shown

VARIABLE shown        \* shown[c]: what c has shown, with sequence numbers

LastOn(screen) == IF screen = <<>> THEN 0 ELSE screen[Len(screen)].seq

\* Nobody shows another message than m under number n.
Agreed(n, m) ==
  \A c \in Clients : \A i \in DOMAIN shown[c] :
    shown[c][i].seq = n => shown[c][i].msg = m

SInit == \A c \in Clients : \A i \in DOMAIN shown[c] :
           /\ Agreed(shown[c][i].seq, shown[c][i].msg)
           /\ i > 1 => shown[c][i - 1].seq < shown[c][i].seq

\* c shows a message with a number later than all it has shown, and one that
\* nobody shows another message under.
Show(c) ==
  /\ Len(shown'[c]) = Len(shown[c]) + 1
  /\ LET e == shown'[c][Len(shown[c]) + 1] IN
       /\ e.seq \in Nat /\ e.msg \in Messages
       /\ e.seq > LastOn(shown[c]) /\ Agreed(e.seq, e.msg)
       /\ shown' = [shown EXCEPT ![c] = Append(@, e)]

\* c goes, and its screen with it.
Leave(c) == shown' = [shown EXCEPT ![c] = <<>>]

SNext == \E c \in Clients : Show(c) \/ Leave(c)

SSpec == SInit /\ [][SNext]_shown
=============================================================================
