------------------------------ MODULE ChatCodes ------------------------------
(****************************************************************************)
(* The message codes and limits of globals.h.  A code is the first field of *)
(* a datagram and, inside the leader, the type of a queued Message.  A chat *)
(* line travels from client to leader with the code CHAT and is multicast   *)
(* with any type from CHAT upwards, because its type is its sender's        *)
(* priority at the time.                                                    *)
(****************************************************************************)
EXTENDS Naturals

CLOSE_RECOVERY == 0
JOIN           == 1
ADD_USER       == 2
LIST_OF_USERS  == 3
RESOLVE_LEADER == 4
DELETE         == 5
ELECTION       == 6
LEADER         == 7
RECOVERY       == 10
DEQUEUE        == 99
CHAT           == 100

\* A multicast that carries a chat line.
IsChat(type) == type >= CHAT
=============================================================================
