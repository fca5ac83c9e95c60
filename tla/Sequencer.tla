------------------------------ MODULE Sequencer ------------------------------
(****************************************************************************)
(* The chat as long as its first leader lives: the leader's producer,       *)
(* consumer, sender and failure-detector threads (leader.cpp), the joining, *)
(* sending and receiving of its clients (client.cpp), and UDP between them. *)
(*                                                                          *)
(* A sendMessageWithRetry is the sending of one datagram and then a wait.   *)
(* Whatever arrives on the ack socket ends the wait, and so do the          *)
(* timeouts; the retries go to an address nobody initialised and the result *)
(* is never NODE_DEAD, so the caller does the same afterwards in every      *)
(* case.  The ack sockets therefore are not modelled: a thread that waits   *)
(* is a thread that has not taken its next step yet.                        *)
(****************************************************************************)
EXTENDS ChatCodes, MessageHeap

CONSTANTS
  Clients,          \* the clients' Ids; numbers, because maps iterate by Id
  Leader,           \* the leader's Id
  Side,             \* which side of leader.cpp's merge conflict is built
  Speakers,         \* whose users type a line (bound)
  Leavers,          \* who may give up, exit or crash (bound)
  Faults,           \* which of "lose", "delay", "duplicate", "suspect" happen
  MaxFaults,        \* how many faults a behaviour has
  MaxLeaderChats,   \* how many lines the leader's user types
  UninitPriority    \* what an uninitialised ChatRoomUser::priority may hold

\* UninitPriority: of what the memory may hold, the model takes 0 and whatever
\* makes the line's type a chat line's.  Any other value would give it the code
\* of another kind of message, with fields that a chat line does not have.
ASSUME SequencerAssumption ==
  /\ Clients \subseteq Nat \ {0}
  /\ Leader \in (Nat \ {0}) \ Clients
  /\ Side \in {"HEAD", "b1c07b9"}
  /\ Speakers \subseteq Clients /\ Leavers \subseteq Clients \cup {Leader}
  /\ MaxFaults \in Nat /\ MaxLeaderChats \in Nat
  /\ UninitPriority \subseteq {0} \cup {p \in Nat : p >= DEQUEUE}

Ids == Clients \cup {Leader}

\* A Message of the leader's queue: the user it is about and, in a chat line,
\* that line's message id.
Messages == [type : Nat, from : Ids, mid : Nat]

VARIABLES
  up,          \* the leader's process runs
  chatRoom,    \* the keys of Leader::chatRoom
  priority,    \* the priority field of each chatRoom entry
  lastMsgId,   \* Leader::lastSeenMsgIdMap, 0 for a missing key
  pq,          \* Leader::q
  seqNum,      \* Leader::seqNum
  con,         \* the consumer thread: its place, message and iterator
  prod,        \* the producer thread: its place, and who is joining
  sendQ,       \* how many messages Leader::sendQ holds
  typed,       \* Leader::msgId, the lines the leader's user has typed
  cst,         \* each client's process: "out", "joining", "in" or "gone"
  roster,      \* the keys of each Client::chatRoom
  lastSeen,    \* each Client::lastSeenSequenceNum
  cq,          \* how many messages each Client::q holds
  spoke,       \* which clients' sender threads have sent their line
  stuck,       \* which clients' receiver threads are blocked in q.pop()
  blind,       \* which clients joined without reading the list of users
  toLeader,    \* datagrams on their way to the leader's socket
  toClient,    \* datagrams on their way to each client's socket
  log,         \* history: the messages in the order of their numbers
  shown,       \* history: what each client has displayed
  dangled,     \* history: the consumer has advanced an erased iterator
  faults       \* history: which faults have happened, and to whom

leaderVars  == <<up, chatRoom, priority, lastMsgId, pq, seqNum, con, prod,
                 sendQ, typed, log, dangled>>
clientVars  == <<cst, roster, lastSeen, cq, spoke, stuck, blind, shown>>
vars == <<leaderVars, clientVars, toLeader, toClient, faults>>

------------------------------------------------------------------------------
(* Datagrams.  An operator that no other refers to, here and below, is a    *)
(* slip the code might contain, kept to show which property would catch it. *)

MulticastOldNumber(m, n) == [code |-> m.type, seq |-> n - 1, msg |-> m]
MulticastNotice(m, n)    ==
  [code |-> m.type, seq |-> IF IsChat(m.type) THEN n ELSE n - 1, msg |-> m]
ListWithoutUsers(users)  == [code |-> LIST_OF_USERS, users |-> {Leader}]

Request(code, from, mid) == [code |-> code, from |-> from, mid |-> mid]
Multicast(m, n) == [code |-> m.type, seq |-> n, msg |-> m]
UserList(users) == [code |-> LIST_OF_USERS, users |-> users]
Dequeue         == [code |-> DEQUEUE]

\* A socket's buffer after its datagram at i is lost, is late, is repeated.
Without(buffer, i) ==
  SubSeq(buffer, 1, i - 1) \o SubSeq(buffer, i + 1, Len(buffer))
Late(buffer, i)  == Append(Without(buffer, i), buffer[i])
Twice(buffer, i) == Append(buffer, buffer[i])

\* UDP drops what it cannot deliver: nobody listens before or after a process.
SendLeader(r)    == toLeader' = IF up THEN Append(toLeader, r) ELSE toLeader
SendClient(c, d) == toClient' = IF cst[c] \in {"joining", "in"}
                                THEN [toClient EXCEPT ![c] = Append(@, d)]
                                ELSE toClient

------------------------------------------------------------------------------
Idle == [pc |-> "pop", msg |-> [type |-> 0, from |-> Leader, mid |-> 0],
         at |-> 0, freed |-> FALSE]
Listening == [pc |-> "recv", id |-> Leader]

Init ==
  /\ up = TRUE
  /\ chatRoom = {Leader}
  /\ priority = [i \in Ids |-> IF i = Leader THEN CHAT ELSE 0]
  /\ lastMsgId = [i \in Ids |-> 0]
  /\ pq = <<>> /\ seqNum = 0 /\ con = Idle /\ prod = Listening
  /\ sendQ = 0 /\ typed = 0
  /\ cst = [c \in Clients |-> "out"]
  /\ roster = [c \in Clients |-> {}]
  /\ lastSeen = [c \in Clients |-> 0]
  /\ cq = [c \in Clients |-> 0]
  /\ spoke = {} /\ stuck = {} /\ blind = {}
  /\ toLeader = <<>> /\ toClient = [c \in Clients |-> <<>>]
  /\ log = <<>> /\ shown = [c \in Clients |-> <<>>]
  /\ dangled = FALSE /\ faults = <<>>

\* A process that ends takes its memory and its socket's buffer with it.
LeaderDies ==
  /\ up' = FALSE /\ toLeader' = <<>>
  /\ chatRoom' = {Leader}
  /\ priority' = [i \in Ids |-> 0] /\ lastMsgId' = [i \in Ids |-> 0]
  /\ pq' = <<>> /\ seqNum' = 0 /\ con' = Idle /\ prod' = Listening
  /\ sendQ' = 0 /\ typed' = 0

Leaves(c) ==
  /\ cst' = [cst EXCEPT ![c] = "gone"] /\ toClient' = [toClient EXCEPT ![c] = <<>>]
  /\ roster' = [roster EXCEPT ![c] = {}]
  /\ lastSeen' = [lastSeen EXCEPT ![c] = 0] /\ cq' = [cq EXCEPT ![c] = 0]
  /\ spoke' = spoke \ {c} /\ stuck' = stuck \ {c} /\ blind' = blind \ {c}

------------------------------------------------------------------------------
(* The leader's producer thread.                                            *)

Hears(code) ==
  /\ up /\ prod.pc = "recv"
  /\ toLeader # <<>> /\ Head(toLeader).code = code

\* deleteUser for a user in the chatRoom.  Were the consumer's iterator at
\* this user, it points to freed memory from now on.
DeleteUser(c) ==
  /\ chatRoom' = chatRoom \ {c}
  /\ pq' = PushHeap(pq, [type |-> DELETE, from |-> c, mid |-> 0])
  /\ con' = [con EXCEPT !.freed = @ \/ con.at = c]

\* JOIN, first half: the user is in the chatRoom before he is told of it.
HandleJoin ==
  LET c == Head(toLeader).from IN
  /\ Hears(JOIN)
  /\ toLeader' = Tail(toLeader)
  /\ chatRoom' = chatRoom \cup {c}
  /\ priority' = [priority EXCEPT ![c] = CHAT]
  /\ prod' = [pc |-> "welcome", id |-> c]
  /\ UNCHANGED <<up, lastMsgId, pq, seqNum, con, sendQ, typed, log, dangled,
                 clientVars, toClient, faults>>

\* JOIN, second half: sendListUsers, and the notice for everybody.
WelcomeUser ==
  /\ up /\ prod.pc = "welcome"
  /\ SendClient(prod.id, UserList(chatRoom))
  /\ pq' = PushHeap(pq, [type |-> ADD_USER, from |-> prod.id, mid |-> 0])
  /\ prod' = Listening
  /\ UNCHANGED <<up, chatRoom, priority, lastMsgId, seqNum, con, sendQ, typed,
                 log, dangled, clientVars, toLeader, faults>>

\* The producer's check for a duplicate.
SeenOlder(r) == r.mid < lastMsgId[r.from]
SeenNext(r)  == r.mid <= lastMsgId[r.from] + 1
Seen(r) == r.mid <= lastMsgId[r.from]

IgnoreOldChat ==
  /\ Hears(CHAT) /\ Seen(Head(toLeader))
  /\ toLeader' = Tail(toLeader)
  /\ UNCHANGED <<leaderVars, clientVars, toClient, faults>>

\* CHAT: chatRoom[clientId] makes an entry for a sender who has none, and its
\* priority is whatever the memory held.
HandleChat ==
  LET c == Head(toLeader).from IN
  /\ Hears(CHAT) /\ ~Seen(Head(toLeader))
  /\ toLeader' = Tail(toLeader)
  /\ lastMsgId' = [lastMsgId EXCEPT ![c] = Head(toLeader).mid]
  /\ \E p \in IF c \in chatRoom THEN {priority[c]} ELSE UninitPriority :
       /\ chatRoom' = chatRoom \cup {c}
       /\ priority' = [priority EXCEPT ![c] = p + 1]
       /\ pq' = PushHeap(pq, [type |-> p + 1, from |-> c, mid |-> Head(toLeader).mid])
  /\ UNCHANGED <<up, seqNum, con, prod, sendQ, typed, log, dangled,
                 clientVars, toClient, faults>>

HandleDelete ==
  LET c == Head(toLeader).from IN
  /\ Hears(DELETE)
  /\ toLeader' = Tail(toLeader)
  /\ IF c \in chatRoom THEN DeleteUser(c) ELSE UNCHANGED <<chatRoom, pq, con>>
  /\ UNCHANGED <<up, priority, lastMsgId, seqNum, prod, sendQ, typed, log,
                 dangled, clientVars, toClient, faults>>

\* DEQUEUE, which only the leader sends itself, has no second field, and
\* receiveMessageWithAck reads one before anything is handled: the process
\* dies or goes on.  Going on, sendQ.pop() blocks while sendQ is empty.
HandleDequeue ==
  /\ Hears(DEQUEUE)
  /\ \/ LeaderDies
     \/ /\ toLeader' = Tail(toLeader)
        /\ IF sendQ > 0
             THEN sendQ' = sendQ - 1 /\ UNCHANGED prod
             ELSE prod' = [prod EXCEPT !.pc = "blocked"] /\ UNCHANGED sendQ
        /\ UNCHANGED <<up, chatRoom, priority, lastMsgId, pq, seqNum, con, typed>>
  /\ UNCHANGED <<log, dangled, clientVars, toClient, faults>>

\* sendQ.pop() returns after the leader's user has typed another line.
ProducerWakes ==
  /\ up /\ prod.pc = "blocked" /\ sendQ > 0
  /\ sendQ' = sendQ - 1 /\ prod' = Listening
  /\ UNCHANGED <<up, chatRoom, priority, lastMsgId, pq, seqNum, con, typed,
                 log, dangled, clientVars, toLeader, toClient, faults>>

\* Every other code is acknowledged and dropped.
HandleInvalid ==
  /\ Hears(RESOLVE_LEADER)
  /\ toLeader' = Tail(toLeader)
  /\ UNCHANGED <<leaderVars, clientVars, toClient, faults>>

Producer ==
  \/ WelcomeUser \/ ProducerWakes
  \/ HandleJoin \/ IgnoreOldChat \/ HandleChat
  \/ HandleDelete \/ HandleDequeue \/ HandleInvalid

------------------------------------------------------------------------------
(* The leader's consumer thread.                                            *)

OthersThanSender == chatRoom \ {Leader, con.msg.from}
Others == chatRoom \ {Leader}

\* The queue's next message gets the next number.
PopMessage ==
  /\ up /\ con.pc = "pop" /\ pq # <<>>
  /\ con' = [pc |-> "mcast", msg |-> pq[1], at |-> 0, freed |-> FALSE]
  /\ pq' = PopHeap(pq)
  /\ seqNum' = seqNum + 1
  /\ log' = Append(log, pq[1])
  /\ UNCHANGED <<up, chatRoom, priority, lastMsgId, prod, sendQ, typed,
                 dangled, clientVars, toLeader, toClient, faults>>

SendTo(c) ==
  /\ SendClient(c, Multicast(con.msg, seqNum))
  /\ con' = [con EXCEPT !.at = c, !.freed = FALSE]

EndLoop == con' = [con EXCEPT !.pc = "tail", !.at = 0, !.freed = FALSE]

\* The loop over chatRoom, whose iterator runs through the Ids in order while
\* the other threads insert and erase.
NextRecipient ==
  LET rest == {c \in Others : c > con.at} IN
  /\ up /\ con.pc = "mcast" /\ ~con.freed
  /\ \/ \E c \in rest : (\A d \in rest : c <= d) /\ SendTo(c)
     \/ rest = {} /\ EndLoop /\ UNCHANGED toClient
  /\ UNCHANGED <<up, chatRoom, priority, lastMsgId, pq, seqNum, prod, sendQ,
                 typed, log, dangled, clientVars, toLeader, faults>>

\* it++ on a node that deleteUser has erased: the process dies, or the loop
\* goes on somewhere in the map, or it ends.
AdvanceErased ==
  /\ up /\ con.pc = "mcast" /\ con.freed
  /\ dangled' = TRUE
  /\ \/ LeaderDies /\ UNCHANGED toClient
     \/ /\ (\E c \in Others : SendTo(c)) \/ (EndLoop /\ UNCHANGED toClient)
        /\ UNCHANGED <<up, chatRoom, priority, lastMsgId, pq, seqNum, prod,
                       sendQ, typed, toLeader>>
  /\ UNCHANGED <<log, clientVars, faults>>

\* After the loop a chat line's sender, if he is still there, is told to
\* dequeue it.  The two sides of the conflict differ in what is a chat line.
DequeueAlways(m) == TRUE
DequeueOnlyCHAT(m) == m.type = CHAT
DequeueWanted(m) == IF Side = "HEAD" THEN IsChat(m.type) ELSE m.type = CHAT

FinishMessage ==
  LET c == con.msg.from IN
  /\ up /\ con.pc = "tail"
  /\ con' = Idle
  /\ IF ~DequeueWanted(con.msg) \/ c \notin chatRoom
       THEN UNCHANGED <<toLeader, toClient>>
     ELSE IF c = Leader
       THEN SendLeader(Request(DEQUEUE, Leader, 0)) /\ UNCHANGED toClient
     ELSE SendClient(c, Dequeue) /\ UNCHANGED toLeader
  /\ UNCHANGED <<up, chatRoom, priority, lastMsgId, pq, seqNum, prod, sendQ,
                 typed, log, dangled, clientVars, faults>>

Consumer == PopMessage \/ NextRecipient \/ AdvanceErased \/ FinishMessage

------------------------------------------------------------------------------
(* The leader's other threads.                                              *)

\* The leader's user types a line.
LeaderTypes ==
  /\ up /\ typed < MaxLeaderChats
  /\ typed' = typed + 1
  /\ sendQ' = sendQ + 1
  /\ SendLeader(Request(CHAT, Leader, typed + 1))
  /\ UNCHANGED <<up, chatRoom, priority, lastMsgId, pq, seqNum, con, prod, log,
                 dangled, clientVars, toClient, faults>>

\* A fault happens to i, if faults of its kind do and there may be another.
Fault(kind, i) ==
  /\ kind \in Faults /\ Len(faults) < MaxFaults
  /\ faults' = Append(faults, [kind |-> kind, of |-> i])

\* detectClientFaliure erases the entry its own iterator is at and advances
\* it: the process dies or goes on.  It is right about a client that has gone,
\* and it always comes to suspect a blind one, whose heartbeats have no
\* address to go to.  To suspect any other is a fault: a client held up while
\* joining, heartbeats lost or late.
Suspect(c) ==
  /\ up /\ c \in chatRoom
  /\ IF cst[c] = "gone" \/ c \in blind
       THEN UNCHANGED faults
       ELSE Fault("suspect", c)
  /\ \/ LeaderDies
     \/ /\ DeleteUser(c)
        /\ UNCHANGED <<up, priority, lastMsgId, seqNum, prod, sendQ, typed, toLeader>>
  /\ UNCHANGED <<log, dangled, clientVars, toClient>>

\* Control-D or a crash.
LeaderQuits ==
  /\ Leader \in Leavers /\ up /\ LeaderDies
  /\ UNCHANGED <<log, dangled, clientVars, toClient, faults>>

------------------------------------------------------------------------------
(* A client joins, speaks and leaves.                                       *)

\* establishConnection: the sockets are bound and JOIN is sent.
Join(c) ==
  /\ cst[c] = "out"
  /\ cst' = [cst EXCEPT ![c] = "joining"]
  /\ SendLeader(Request(JOIN, c, 1))
  /\ UNCHANGED <<leaderVars, roster, lastSeen, cq, spoke, stuck, blind, shown,
                 toClient, faults>>

Receives(c) ==
  /\ toClient[c] # <<>>
  /\ toClient' = [toClient EXCEPT ![c] = Tail(@)]
NextCode(c) == Head(toClient[c]).code

\* joinNetwork reads one datagram and takes it for the answer.
ReadList(c) ==
  /\ cst[c] = "joining" /\ Receives(c) /\ NextCode(c) = LIST_OF_USERS
  /\ roster' = [roster EXCEPT ![c] = Head(toClient[c]).users]
  /\ cst' = [cst EXCEPT ![c] = "in"]
  /\ UNCHANGED <<leaderVars, lastSeen, cq, spoke, stuck, blind, shown,
                 toLeader, faults>>

\* The datagram is a multicast that came before the list: joinNetwork runs off
\* its end, and its result is whatever the register held.
MissList(c) ==
  /\ cst[c] = "joining"
  /\ toClient[c] # <<>> /\ NextCode(c) # LIST_OF_USERS
  /\ \/ Leaves(c)
     \/ /\ Receives(c)
        /\ blind' = blind \cup {c}
        /\ cst' = [cst EXCEPT ![c] = "in"]
        /\ UNCHANGED <<roster, lastSeen, cq, spoke, stuck>>
  /\ UNCHANGED <<leaderVars, shown, toLeader, faults>>

\* poll() gives up: "no chat is active".
JoinTimeout(c) ==
  /\ c \in Leavers /\ cst[c] = "joining" /\ toClient[c] = <<>>
  /\ Leaves(c)
  /\ UNCHANGED <<leaderVars, shown, toLeader, faults>>

\* The sender thread's only turn, when a line is there to be read.
SendChat(c) ==
  /\ c \in Speakers /\ cst[c] = "in" /\ c \notin spoke
  /\ spoke' = spoke \cup {c}
  /\ cq' = [cq EXCEPT ![c] = @ + 1]
  /\ SendLeader(Request(CHAT, c, 2))
  /\ UNCHANGED <<leaderVars, cst, roster, lastSeen, stuck, blind, shown,
                 toClient, faults>>

\* The same turn, at the end of the input.
ExitChatroom(c) ==
  /\ c \in Leavers /\ cst[c] = "in" /\ c \notin spoke
  /\ SendLeader(Request(DELETE, c, 0))
  /\ Leaves(c)
  /\ UNCHANGED <<leaderVars, shown, faults>>

Crash(c) ==
  /\ c \in Leavers /\ cst[c] \in {"joining", "in"}
  /\ Leaves(c)
  /\ UNCHANGED <<leaderVars, shown, toLeader, faults>>

------------------------------------------------------------------------------
(* A client's receiver thread.                                              *)

Hearing(c) == cst[c] = "in" /\ c \notin stuck /\ Receives(c)

DisplayAgain(c, d) ==
  IF d.seq >= lastSeen[c]
    THEN /\ lastSeen' = [lastSeen EXCEPT ![c] = d.seq]
         /\ shown' = [shown EXCEPT ![c] = Append(@, [seq |-> d.seq, msg |-> d.msg])]
    ELSE UNCHANGED <<lastSeen, shown>>

DisplayForgetful(c, d) ==
  IF d.seq > lastSeen[c]
    THEN /\ shown' = [shown EXCEPT ![c] = Append(@, [seq |-> d.seq, msg |-> d.msg])]
         /\ UNCHANGED lastSeen
    ELSE UNCHANGED <<lastSeen, shown>>

DisplayLater(c, d) ==
  IF d.seq > lastSeen[c] + 1
    THEN /\ lastSeen' = [lastSeen EXCEPT ![c] = d.seq]
         /\ shown' = [shown EXCEPT ![c] = Append(@, [seq |-> d.seq, msg |-> d.msg])]
    ELSE UNCHANGED <<lastSeen, shown>>

\* A numbered message is displayed unless a later one has been.
Display(c, d) ==
  IF d.seq > lastSeen[c]
    THEN /\ lastSeen' = [lastSeen EXCEPT ![c] = d.seq]
         /\ shown' = [shown EXCEPT ![c] = Append(@, [seq |-> d.seq, msg |-> d.msg])]
    ELSE UNCHANGED <<lastSeen, shown>>

ReceiveChat(c) ==
  LET d == Head(toClient[c]) IN
  /\ Hearing(c) /\ IsChat(NextCode(c))
  /\ Display(c, d)
  /\ UNCHANGED <<leaderVars, cst, roster, cq, spoke, stuck, blind, toLeader, faults>>

ReceiveAddUser(c) ==
  LET d == Head(toClient[c]) IN
  /\ Hearing(c) /\ NextCode(c) = ADD_USER
  /\ Display(c, d)
  /\ roster' = [roster EXCEPT ![c] = @ \cup {d.msg.from}]
  /\ UNCHANGED <<leaderVars, cst, cq, spoke, stuck, blind, toLeader, faults>>

ReceiveDelete(c) ==
  LET d == Head(toClient[c]) IN
  /\ Hearing(c) /\ NextCode(c) = DELETE
  /\ roster' = [roster EXCEPT ![c] = @ \ {d.msg.from}]
  /\ Display(c, d)
  /\ UNCHANGED <<leaderVars, cst, cq, spoke, stuck, blind, toLeader, faults>>

\* DEQUEUE: q.pop() blocks the receiver while q is empty.  It is empty for
\* good, since whoever is sent a DEQUEUE has had his sender thread's only turn.
ReceiveDequeue(c) ==
  /\ Hearing(c) /\ NextCode(c) = DEQUEUE
  /\ IF cq[c] > 0
       THEN cq' = [cq EXCEPT ![c] = @ - 1] /\ UNCHANGED stuck
       ELSE stuck' = stuck \cup {c} /\ UNCHANGED cq
  /\ UNCHANGED <<leaderVars, cst, roster, lastSeen, spoke, blind, shown,
                 toLeader, faults>>

\* A chat line whose type has come out as JOIN is taken for a request to join
\* and answered with the leader's address, to the leader.
ReceiveJoin(c) ==
  /\ Hearing(c) /\ NextCode(c) = JOIN
  /\ SendLeader(Request(RESOLVE_LEADER, c, 0))
  /\ UNCHANGED <<leaderVars, clientVars, faults>>

\* The receiver has no case for a list of users.
ReceiveList(c) ==
  /\ Hearing(c) /\ NextCode(c) = LIST_OF_USERS
  /\ UNCHANGED <<leaderVars, clientVars, toLeader, faults>>

Receiver(c) ==
  \/ ReceiveChat(c) \/ ReceiveAddUser(c) \/ ReceiveDelete(c)
  \/ ReceiveDequeue(c) \/ ReceiveJoin(c) \/ ReceiveList(c)

Joiner(c) == ReadList(c) \/ MissList(c)

------------------------------------------------------------------------------
(* UDP.                                                                     *)

\* Something happens to one buffer: what(buffer, i), to its datagram at i.
Disturb(kind, what(_, _)) ==
  /\ \/ /\ \E i \in DOMAIN toLeader : toLeader' = what(toLeader, i)
        /\ Fault(kind, Leader) /\ UNCHANGED toClient
     \/ /\ \E c \in Clients : \E i \in DOMAIN toClient[c] :
             toClient' = [toClient EXCEPT ![c] = what(@, i)] /\ Fault(kind, c)
        /\ UNCHANGED toLeader
  /\ UNCHANGED <<leaderVars, clientVars>>

Lose      == Disturb("lose", Without)
Delay     == Disturb("delay", Late)
Duplicate == Disturb("duplicate", Twice)

------------------------------------------------------------------------------
ClientStep(c) ==
  \/ Join(c) \/ JoinTimeout(c) \/ Joiner(c)
  \/ SendChat(c) \/ ExitChatroom(c) \/ Crash(c) \/ Receiver(c)

Next ==
  \/ Producer \/ Consumer \/ LeaderTypes \/ LeaderQuits
  \/ \E c \in Clients : ClientStep(c) \/ Suspect(c)
  \/ Lose \/ Delay \/ Duplicate

Spec == Init /\ [][Next]_vars

\* The threads that loop over a socket or a queue keep running.  Users need
\* not join, type or leave, and no fault need happen.
FairSpec ==
  /\ Spec
  /\ WF_vars(Producer) /\ WF_vars(Consumer)
  /\ \A c \in Clients : WF_vars(Joiner(c)) /\ WF_vars(Receiver(c))

------------------------------------------------------------------------------
(* Safety.                                                                  *)

Shown(c) == {shown[c][i].msg : i \in DOMAIN shown[c]}

Requests == [code : {JOIN, CHAT, DELETE, DEQUEUE, RESOLVE_LEADER},
             from : Ids, mid : Nat]

Datagrams ==
  [code : Nat, seq : Nat \ {0}, msg : Messages]
    \cup [code : {LIST_OF_USERS}, users : SUBSET Ids]
    \cup [code : {DEQUEUE}]

\* What faults records.
Occurrences == [kind : Faults, of : Ids]

LeaderType ==
  /\ up \in BOOLEAN /\ dangled \in BOOLEAN
  /\ chatRoom \subseteq Ids /\ Leader \in chatRoom
  /\ priority \in [Ids -> Nat] /\ lastMsgId \in [Ids -> Nat]
  /\ seqNum \in Nat /\ sendQ \in Nat /\ typed \in Nat

ThreadType ==
  /\ con \in [pc : {"pop", "mcast", "tail"}, msg : Messages, at : Ids \cup {0}, freed : BOOLEAN]
  /\ prod \in [pc : {"recv", "welcome", "blocked"}, id : Ids]

ClientType ==
  /\ cst \in [Clients -> {"out", "joining", "in", "gone"}]
  /\ roster \in [Clients -> SUBSET Ids]
  /\ lastSeen \in [Clients -> Nat] /\ cq \in [Clients -> Nat]
  /\ spoke \subseteq Clients /\ stuck \subseteq Clients /\ blind \subseteq Clients

MessageType ==
  /\ pq \in Seq(Messages) /\ log \in Seq(Messages)
  /\ toLeader \in Seq(Requests)
  /\ toClient \in [Clients -> Seq(Datagrams)]
  /\ shown \in [Clients -> Seq([seq : Nat \ {0}, msg : Messages])]

\* The types of the variables: every datagram is one that its reader can
\* parse, a multicast is numbered from 1, and the leader never leaves its own
\* chatRoom (leader.cpp, client.cpp).
TypeOK == LeaderType /\ ThreadType /\ ClientType /\ MessageType /\ faults \in Seq(Occurrences)

\* "A fully ordered multicast": what any two clients show under one sequence
\* number is one message, and no client goes back in the sequence.  UDP may
\* reorder, lose and repeat, the iterator may dangle.
TotalOrder ==
  /\ \A c, d \in Clients : \A i \in DOMAIN shown[c], j \in DOMAIN shown[d] :
       shown[c][i].seq = shown[d][j].seq => shown[c][i].msg = shown[d][j].msg
  /\ \A c \in Clients : \A i, j \in DOMAIN shown[c] :
       i < j => shown[c][i].seq < shown[c][j].seq

\* However often its request is delivered, and whether its sender has been
\* expelled in between, a chat line is shown at most once by each client.
NoChatTwice ==
  \A c \in Clients : \A i, j \in DOMAIN shown[c] :
    shown[c][i].msg = shown[c][j].msg /\ shown[c][i].msg.mid # 0 => i = j

\* What has happened to datagrams for i, and whether i was falsely suspected.
Suffered(i) == {faults[k].kind : k \in {l \in DOMAIN faults : faults[l].of = i}}

\* The receiver never waits in q.pop(): no DEQUEUE comes for a line that is
\* not queued, but for one that the network repeats.
NoStrayDequeue == \A c \in stuck : "duplicate" \in Suffered(c)

\* A line leaves its sender's queue only after its sender has displayed it in
\* its place, whatever happens to others, unless the consumer's iterator has
\* gone astray.
DequeuedIsShown ==
  \A c \in spoke \ blind :
    cq[c] = 0 /\ Suffered(c) \subseteq {"duplicate"} =>
      dangled \/ \E m \in Shown(c) : m.from = c /\ m.mid = 2

\* From the first message it shows, a client in the room shows every one,
\* whatever happens to others, but for lines whose type came out as JOIN.
NoGap ==
  dangled \/ \A c \in Clients \ blind :
    cst[c] = "in" /\ shown[c] # <<>> /\ Suffered(c) \subseteq {"duplicate"} =>
      \A n \in shown[c][1].seq .. lastSeen[c] :
        log[n].type = JOIN \/ \E i \in DOMAIN shown[c] : shown[c][i].seq = n

\* The leader's word that x is in the room is on its way to c.
Announced(x, c) ==
  \/ prod.pc = "welcome" /\ prod.id = x
  \/ \E i \in DOMAIN pq : pq[i].type = ADD_USER /\ pq[i].from = x
  \/ con.pc = "mcast" /\ con.msg.type = ADD_USER /\ con.msg.from = x /\ con.at < c
  \/ \E i \in DOMAIN toClient[c] :
       toClient[c][i].code = ADD_USER /\ toClient[c][i].msg.from = x

\* "The remaining clients have an up to date list": a client who has read the
\* list of users knows everyone who is in the room, or is about to be told, if
\* nothing sent to it was lost and it was not falsely suspected.  (Of the users
\* who have gone, are blind or were falsely suspected, an entry may be one that
\* their line made again after they were expelled.)
KnowsMembers ==
  up /\ ~dangled => \A c \in Clients \ blind :
    cst[c] = "in" /\ Suffered(c) \subseteq {"delay", "duplicate"} =>
      \A x \in chatRoom \ blind :
        \/ x \in Clients /\ (cst[x] = "gone" \/ "suspect" \in Suffered(x))
        \/ x \in roster[c] \/ Announced(x, c)

\* Nothing is on its way to anybody.
Settled ==
  /\ up /\ ~dangled
  /\ toLeader = <<>> /\ prod.pc = "recv" /\ pq = <<>> /\ con.pc = "pop"
  /\ \A c \in Clients : toClient[c] = <<>>

\* "The remaining clients have an up to date list of those currently in the
\* chat": when all notices have been handled, nobody lists a user the leader
\* has deleted.
UpToDateList ==
  Settled => \A c \in Clients : cst[c] = "in" => roster[c] \subseteq chatRoom

------------------------------------------------------------------------------
(* Liveness.                                                                *)

Excused(c) == cst[c] # "in" \/ c \in blind \/ ~up \/ dangled

\* A queued line comes back to its sender, who then dequeues it.
ChatComesBack ==
  \A c \in Clients :
    (cst[c] = "in" /\ cq[c] > 0) ~> (cq[c] = 0 \/ Excused(c))

\* A client that has begun to show messages comes to show the last of them.
\* (Users have only so much to say: receiver of client.cpp, consumerTask of
\* leader.cpp.)
CatchesUp ==
  \A c \in Clients :
    (cst[c] = "in" /\ shown[c] # <<>> /\ lastSeen[c] < seqNum)
      ~> (lastSeen[c] = seqNum \/ Excused(c))

\* A line that the leader's user types gets its number, even if a repeated
\* DEQUEUE has blocked the producer in sendQ.pop() for a while.
LeaderLineSequenced ==
  \A n \in 1..MaxLeaderChats :
    (up /\ typed >= n)
      ~> (~up \/ \E k \in DOMAIN log : log[k].from = Leader /\ log[k].mid = n)

\* The screens are those of a TotalOrderMulticast whose order is the leader's.
Abstract == INSTANCE TotalOrderMulticast
  WITH Clients <- Clients, Messages <- Messages, log <- log, shown <- shown
ImplementsMulticast == Abstract!MSpec
=============================================================================
