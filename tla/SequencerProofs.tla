--------------------------- MODULE SequencerProofs ---------------------------
(****************************************************************************)
(* Why the chat is totally ordered, for any number of clients, any faults   *)
(* of the network and any outcome of the undefined behaviour that Sequencer *)
(* models.                                                                  *)
(*                                                                          *)
(* The argument: the consumer alone numbers messages, so what is on its way *)
(* or on a screen under the number n is the n-th message of the log, and    *)
(* the receiver's test against lastSeenSequenceNum keeps each screen        *)
(* ascending.  For this to be inductive it must also be known that a        *)
(* datagram is what its code says it is: no multicast has the code of a     *)
(* list of users.  A multicast's code is its message's type, which for a    *)
(* chat line is the sender's priority plus one, so the strengthening speaks *)
(* of the leader's priorities too.  That no line is shown twice needs, in   *)
(* addition, that no line gets two numbers: Accepted.                       *)
(****************************************************************************)
EXTENDS Sequencer, MessageHeapProofs

\* What a message's type can be: a notice, or a chat line whose sender's
\* priority was set by JOIN, or left to chance and is not small.
MessageTypes == {JOIN, ADD_USER, DELETE} \cup {t \in Nat : t >= CHAT}
TypedMessages == [type : MessageTypes, from : Ids, mid : Nat]

\* What can be on its way to the leader.  A client sends its one line as its
\* second message.
SentRequests ==
  [code : {JOIN, DELETE, RESOLVE_LEADER}, from : Clients, mid : Nat]
    \cup [code : {CHAT}, from : Clients, mid : {2}]
    \cup [code : {CHAT, DEQUEUE}, from : {Leader}, mid : Nat]

\* What can be on its way to a client when messages has been numbered so far.
SentDatagrams(messages) ==
  {Multicast(messages[n], n) : n \in DOMAIN messages}
    \cup [code : {LIST_OF_USERS}, users : SUBSET Ids]
    \cup [code : {DEQUEUE}]

\* What can be on a client's screen then.
Lines(messages) == {[seq |-> n, msg |-> messages[n]] : n \in DOMAIN messages}

Requested ==
  /\ toLeader \in Seq(SentRequests)
  /\ prod.pc = "welcome" => prod.id \in Clients

Prioritized ==
  up => \A i \in chatRoom :
    priority[i] >= CHAT \/ (priority[i] = 1 /\ i \in Clients /\ lastMsgId[i] >= 2)

Typed == pq \in Seq(TypedMessages) /\ log \in Seq(TypedMessages)

Numbered ==
  /\ up => seqNum = Len(log)
  /\ con.pc = "mcast" => up /\ seqNum \in DOMAIN log /\ con.msg = log[seqNum]

Sent == toClient \in [Clients -> Seq(SentDatagrams(log))]

Displayed ==
  /\ shown \in [Clients -> Seq(Lines(log))]
  /\ \A c \in Clients : \A i, j \in DOMAIN shown[c] :
       i < j => shown[c][i].seq < shown[c][j].seq
  /\ \A c \in Clients : cst[c] # "gone" => lastSeen[c] = Abstract!LastOn(shown[c])

\* What pq, log and the buffers hold is in Typed, Requested, Sent and Displayed.
Types == LeaderType /\ ThreadType /\ ClientType /\ faults \in Seq(Occurrences)
IInv == Types /\ Requested /\ Prioritized /\ Typed /\ Numbered /\ Sent /\ Displayed

------------------------------------------------------------------------------
(* Buffers and sends.                                                       *)

\* Losing, delaying or repeating a datagram leaves a buffer of datagrams that
\* were in it.
LEMMA BufferTypes ==
  ASSUME NEW S, NEW b \in Seq(S), NEW i \in DOMAIN b
  PROVE  Without(b, i) \in Seq(S) /\ Late(b, i) \in Seq(S) /\ Twice(b, i) \in Seq(S)
<1>1. i \in 1..Len(b) /\ b[i] \in S /\ Len(b) \in Nat
  OBVIOUS
<1>2. SubSeq(b, 1, i - 1) \in Seq(S)
  <2>1. \A j \in 1..(i - 1) : b[j] \in S
    BY <1>1
  <2> QED BY <1>1, <2>1, SubSeqProperties
<1>3. SubSeq(b, i + 1, Len(b)) \in Seq(S)
  <2>1. \A j \in (i + 1)..Len(b) : b[j] \in S
    BY <1>1
  <2> QED BY <1>1, <2>1, SubSeqProperties
<1>4. Without(b, i) \in Seq(S)
  BY <1>2, <1>3, ConcatProperties DEF Without
<1> QED BY <1>1, <1>4 DEF Late, Twice

\* What is left of a buffer when a fault has befallen its datagram at i.
Outcome(kind, buffer, i) ==
  IF kind = "lose" THEN Without(buffer, i)
  ELSE IF kind = "delay" THEN Late(buffer, i) ELSE Twice(buffer, i)

\* The network does one thing to one datagram, and who suffers it is recorded.
LEMMA Disturbance ==
  ASSUME Lose \/ Delay \/ Duplicate
  PROVE  /\ UNCHANGED <<leaderVars, clientVars>>
         /\ \E kind \in {"lose", "delay", "duplicate"} :
              \/ /\ Fault(kind, Leader) /\ UNCHANGED toClient
                 /\ \E i \in DOMAIN toLeader : toLeader' = Outcome(kind, toLeader, i)
              \/ /\ UNCHANGED toLeader
                 /\ \E c \in Clients : \E i \in DOMAIN toClient[c] :
                      /\ toClient' = [toClient EXCEPT ![c] = Outcome(kind, toClient[c], i)]
                      /\ Fault(kind, c)
<1>1. CASE Lose
  BY <1>1 DEF Lose, Disturb, Outcome
<1>2. CASE Delay
  BY <1>2 DEF Delay, Disturb, Outcome
<1>3. CASE Duplicate
  BY <1>3 DEF Duplicate, Disturb, Outcome
<1> QED BY <1>1, <1>2, <1>3

\* A fault is added to the history.
LEMMA FaultType ==
  ASSUME faults \in Seq(Occurrences), NEW kind, NEW i \in Ids, Fault(kind, i)
  PROVE  faults' \in Seq(Occurrences)
<1>1. [kind |-> kind, of |-> i] \in Occurrences
  BY DEF Fault, Occurrences
<1> QED BY <1>1 DEF Fault

\* A fault hurts nobody but the one it happens to.
LEMMA Suffering ==
  ASSUME faults \in Seq(Occurrences), NEW e,
         UNCHANGED faults \/ \E kind : \E i \in Ids : Fault(kind, i)
  PROVE  /\ Suffered(e) \subseteq Suffered(e)'
         /\ \A kind : \A i \in Ids :
              Fault(kind, i) => /\ kind \in Suffered(i)'
                                /\ e # i => Suffered(e)' = Suffered(e)
         /\ UNCHANGED faults => Suffered(e)' = Suffered(e)
<1>1. ASSUME NEW kind, NEW i \in Ids, Fault(kind, i)
      PROVE  /\ Suffered(e) \subseteq Suffered(e)' /\ kind \in Suffered(i)'
             /\ e # i => Suffered(e)' = Suffered(e)
  <2> DEFINE f == faults
             g == faults'
             n == Len(faults)
             r == [kind |-> kind, of |-> i]
  <2>1. /\ n \in Nat /\ DOMAIN f = 1..n /\ DOMAIN g = 1..(n + 1) /\ g[n + 1] = r
        /\ \A k \in 1..n : g[k] = f[k]
    <3>1. g = Append(f, r) /\ r \in Occurrences
      BY <1>1 DEF Fault, Occurrences
    <3> HIDE DEF g, r
    <3> QED BY <3>1
  <2>2. r.kind = kind /\ r.of = i
    OBVIOUS
  <2>3. \A k \in 1..n : k \in 1..(n + 1)
    BY <2>1
  <2>4. \A k \in 1..(n + 1) : k \in 1..n \/ k = n + 1
    BY <2>1
  <2>5. n + 1 \in 1..(n + 1)
    BY <2>1
  <2> HIDE DEF f, g, n, r
  <2>6. \A j : Suffered(j) = {f[k].kind : k \in {l \in DOMAIN f : f[l].of = j}}
    BY DEF Suffered, f
  <2>7. \A j : {f[k].kind : k \in {l \in DOMAIN f : f[l].of = j}}
                \subseteq {g[k].kind : k \in {l \in DOMAIN g : g[l].of = j}}
    BY <2>1, <2>3
  <2>8. kind \in {g[k].kind : k \in {l \in DOMAIN g : g[l].of = i}}
    BY <2>1, <2>2, <2>5
  <2>9. e # i => {g[k].kind : k \in {l \in DOMAIN g : g[l].of = e}}
                   \subseteq {f[k].kind : k \in {l \in DOMAIN f : f[l].of = e}}
    BY <2>1, <2>2, <2>4
  <2> QED BY <2>6, <2>7, <2>8, <2>9 DEF Suffered, f, g
<1>2. ASSUME UNCHANGED faults PROVE Suffered(e)' = Suffered(e)
  BY <1>2 DEF Suffered
<1> QED BY <1>1, <1>2

\* A request that is sent, or that nobody receives, leaves requests.
LEMMA SendLeaderType ==
  ASSUME NEW S, toLeader \in Seq(S), NEW r \in S, SendLeader(r)
  PROVE  toLeader' \in Seq(S)
BY DEF SendLeader

\* A datagram that is sent to a client leaves datagrams.
LEMMA SendClientType ==
  ASSUME NEW S, toClient \in [Clients -> Seq(S)], NEW c \in Clients, NEW d \in S,
         SendClient(c, d)
  PROVE  toClient' \in [Clients -> Seq(S)]
BY DEF SendClient

\* What has been sent and shown stays valid when another message is numbered.
LEMMA LogGrows ==
  ASSUME NEW messages \in Seq(TypedMessages), NEW m
  PROVE  LET longer == Append(messages, m) IN
         SentDatagrams(messages) \subseteq SentDatagrams(longer)
         /\ Lines(messages) \subseteq Lines(longer)
<1> DEFINE longer == Append(messages, m)
<1>1. \A n \in DOMAIN messages : n \in DOMAIN longer /\ longer[n] = messages[n]
  OBVIOUS
<1> HIDE DEF longer
<1>2. Lines(messages) \subseteq Lines(longer)
  BY <1>1 DEF Lines
<1>3. SentDatagrams(messages) \subseteq SentDatagrams(longer)
  BY <1>1 DEF SentDatagrams
<1> QED BY <1>2, <1>3 DEF longer

\* The datagram a client reads is what its code says.
LEMMA NextDatagram ==
  ASSUME Typed, Sent, NEW c \in Clients, toClient[c] # <<>>
  PROVE  LET d == Head(toClient[c]) IN
         /\ d.code = LIST_OF_USERS => d.users \in SUBSET Ids
         /\ d.code \notin {LIST_OF_USERS, DEQUEUE} =>
              d.seq \in DOMAIN log /\ d.msg = log[d.seq]
<1> DEFINE d == Head(toClient[c])
<1>1. d \in SentDatagrams(log)
  BY HeadTailProperties DEF Sent
<1>2. CASE \E n \in DOMAIN log : d = Multicast(log[n], n)
  <2>1. PICK n \in DOMAIN log : d = Multicast(log[n], n)
    BY <1>2
  <2>2. log[n].type \in MessageTypes
    <3>1. log[n] \in TypedMessages
      BY DEF Typed
    <3> QED BY <3>1 DEF TypedMessages
  <2>3. d.code # LIST_OF_USERS
    BY <2>1, <2>2 DEF Multicast, MessageTypes, LIST_OF_USERS, JOIN, ADD_USER, DELETE, CHAT
  <2>4. d.seq = n /\ d.msg = log[n]
    BY <2>1 DEF Multicast
  <2> QED BY <2>3, <2>4
<1>3. CASE d \in [code : {LIST_OF_USERS}, users : SUBSET Ids]
  BY <1>3
<1>4. CASE d \in [code : {DEQUEUE}]
  BY <1>4 DEF DEQUEUE, LIST_OF_USERS
<1> HIDE DEF d
<1>5. QED BY <1>1, <1>2, <1>3, <1>4 DEF SentDatagrams, d

------------------------------------------------------------------------------
(* The leader's producer thread.                                            *)

\* A request that is read is one that was sent.
LEMMA NextRequest ==
  ASSUME Requested, NEW code, Hears(code)
  PROVE  LET r == Head(toLeader) IN
         /\ r.code = code /\ r \in SentRequests /\ Tail(toLeader) \in Seq(SentRequests)
         /\ code \in {JOIN, DELETE} => r.from \in Clients
         /\ code = CHAT => r.from \in Ids /\ r.mid \in Nat
                           /\ (r.from \in Clients => r.mid = 2)
<1> DEFINE r == Head(toLeader)
<1>1. r \in SentRequests /\ r.code = code /\ Tail(toLeader) \in Seq(SentRequests)
  BY HeadTailProperties DEF Requested, Hears
<1>2. Leader \notin Clients
  BY SequencerAssumption
<1> HIDE DEF r
<1>3. code \in {JOIN, DELETE} => r.from \in Clients
  BY <1>1 DEF SentRequests, JOIN, DELETE, CHAT, DEQUEUE
<1>4. code = CHAT => r.from \in Ids /\ r.mid \in Nat /\ (r.from \in Clients => r.mid = 2)
  BY <1>1, <1>2 DEF SentRequests, CHAT, JOIN, DELETE, RESOLVE_LEADER, Ids
<1> QED BY <1>1, <1>3, <1>4 DEF r

\* Whoever sent it, a request has the form that TypeOK asks for.
LEMMA SentRequestsType == SentRequests \subseteq Requests
BY SequencerAssumption
   DEF SentRequests, Requests, Ids, JOIN, DELETE, RESOLVE_LEADER, CHAT, DEQUEUE

\* Whatever is sent to a client has the form that TypeOK asks for.
LEMMA SentDatagramsType ==
  ASSUME NEW messages \in Seq(TypedMessages)
  PROVE  SentDatagrams(messages) \subseteq Datagrams
<1> SUFFICES ASSUME NEW n \in DOMAIN messages
             PROVE  Multicast(messages[n], n) \in [code : Nat, seq : Nat \ {0}, msg : Messages]
  BY DEF SentDatagrams, Datagrams
<1>1. messages[n] \in TypedMessages /\ n \in Nat \ {0}
  OBVIOUS
<1>2. messages[n] \in Messages /\ messages[n].type \in Nat
  BY <1>1 DEF TypedMessages, Messages, MessageTypes, JOIN, ADD_USER, DELETE
<1> QED BY <1>1, <1>2 DEF Multicast

\* The inductive invariant gives the types.
LEMMA IInvTypes == IInv => TypeOK
<1> SUFFICES ASSUME IInv PROVE MessageType
  BY DEF IInv, Types, TypeOK
<1>1. TypedMessages \subseteq Messages
  BY DEF TypedMessages, Messages, MessageTypes, JOIN, ADD_USER, DELETE
<1>2. pq \in Seq(Messages) /\ log \in Seq(Messages)
  BY <1>1, SeqMonotonic DEF IInv, Typed
<1>3. toLeader \in Seq(Requests)
  BY SentRequestsType, SeqMonotonic DEF IInv, Requested
<1>4. ASSUME NEW c \in Clients
      PROVE  /\ toClient[c] \in Seq(Datagrams)
             /\ shown[c] \in Seq([seq : Nat \ {0}, msg : Messages])
  <2>1. SentDatagrams(log) \subseteq Datagrams
    BY SentDatagramsType DEF IInv, Typed
  <2>2. Lines(log) \subseteq [seq : Nat \ {0}, msg : Messages]
    BY <1>2 DEF Lines
  <2>3. toClient[c] \in Seq(SentDatagrams(log)) /\ shown[c] \in Seq(Lines(log))
    BY DEF IInv, Sent, Displayed
  <2> QED BY <2>1, <2>2, <2>3, SeqMonotonic
<1>5. toClient \in [Clients -> Seq(Datagrams)]
      /\ shown \in [Clients -> Seq([seq : Nat \ {0}, msg : Messages])]
  BY <1>4 DEF IInv, Sent, Displayed
<1> QED BY <1>2, <1>3, <1>5 DEF MessageType

\* The end of the leader leaves nothing to be said of its memory.
LEMMA LeaderDiesInv ==
  ASSUME IInv, LeaderDies,
         UNCHANGED <<log, clientVars, toClient>>, dangled' \in BOOLEAN, faults' \in Seq(Occurrences)
  PROVE  IInv'
<1> USE DEF IInv, LeaderDies, clientVars
<1>1. LeaderType'
  BY DEF Types, LeaderType, Ids
<1>2. ThreadType'
  BY DEF ThreadType, Idle, Listening, Messages, Ids
<1>3. Types'
  BY <1>1, <1>2 DEF Types, ClientType
<1>4. Requested' /\ Prioritized' /\ Typed' /\ Numbered'
  BY DEF Requested, Prioritized, Typed, Numbered, Idle, Listening
<1>5. Sent' /\ Displayed'
  BY DEF Sent, Displayed
<1> QED BY <1>3, <1>4, <1>5

\* deleteUser, which the producer and the failure detector call: only clients
\* are deleted, and the DELETE notice is a message like another.
LEMMA DeleteUserInv ==
  ASSUME IInv, NEW c \in Clients, DeleteUser(c),
         toLeader' \in Seq(SentRequests), faults' \in Seq(Occurrences),
         UNCHANGED <<up, priority, lastMsgId, seqNum, prod, sendQ, typed, log,
                     dangled, clientVars, toClient>>
  PROVE  IInv'
<1> USE DEF IInv, clientVars
<1>1. c # Leader /\ c \in Ids
  BY SequencerAssumption DEF Ids
<1>2. Typed'
  <2>1. [type |-> DELETE, from |-> c, mid |-> 0] \in TypedMessages
    BY <1>1 DEF TypedMessages, MessageTypes
  <2> QED BY <2>1, PushHeapType DEF DeleteUser, Typed
<1>3. LeaderType'
  BY <1>1 DEF DeleteUser, Types, LeaderType
<1>4. ThreadType'
  <2>1. con' = [con EXCEPT !.freed = (con.freed \/ con.at = c)]
    BY DEF DeleteUser
  <2>2. con.freed \in BOOLEAN
    BY DEF Types, ThreadType
  <2>3. (con.freed \/ con.at = c) \in BOOLEAN
    OBVIOUS
  <2> QED BY <2>1, <2>3 DEF Types, ThreadType
<1>5. Types'
  BY <1>3, <1>4 DEF Types, ClientType
<1>6. Numbered'
  <2>1. con'.pc = con.pc /\ con'.msg = con.msg
    BY DEF DeleteUser, Types, ThreadType
  <2> QED BY <2>1 DEF Numbered
<1>7. Requested' /\ Prioritized' /\ Sent' /\ Displayed'
  BY DEF DeleteUser, Requested, Prioritized, Sent, Displayed
<1> QED BY <1>2, <1>5, <1>6, <1>7

\* Whatever request the producer handles, IInv is preserved.
LEMMA ProducerInv ==
  ASSUME IInv, Producer
  PROVE  IInv'
<1> USE DEF IInv, leaderVars, clientVars
<1> DEFINE r == Head(toLeader)
<1>0. Leader \notin Clients /\ Leader \in Ids /\ Clients \subseteq Ids
  BY SequencerAssumption DEF Ids
<1>1. ASSUME HandleJoin PROVE IInv'
  <2>1. r.from \in Clients /\ Tail(toLeader) \in Seq(SentRequests)
    BY <1>1, NextRequest DEF HandleJoin
  <2> HIDE DEF r
  <2>2. /\ chatRoom' = chatRoom \cup {r.from}
        /\ priority' = [priority EXCEPT ![r.from] = CHAT]
        /\ prod' = [pc |-> "welcome", id |-> r.from]
        /\ toLeader' = Tail(toLeader)
        /\ UNCHANGED <<up, lastMsgId, pq, seqNum, con, sendQ, typed, log, dangled,
                       clientVars, toClient, faults>>
    BY <1>1 DEF HandleJoin, r
  <2>3. LeaderType'
    BY <1>0, <2>1, <2>2 DEF Types, LeaderType, CHAT
  <2>4. Types'
    BY <1>0, <2>1, <2>2, <2>3 DEF Types, ThreadType, ClientType
  <2>5. Requested' /\ Typed' /\ Numbered' /\ Sent' /\ Displayed'
    BY <2>1, <2>2 DEF Requested, Typed, Numbered, Sent, Displayed
  <2>6. Prioritized'
    BY <1>0, <2>1, <2>2 DEF Prioritized, Types, LeaderType, CHAT
  <2> QED BY <2>4, <2>5, <2>6
<1>2. ASSUME WelcomeUser PROVE IInv'
  <2>1. prod.id \in Clients /\ chatRoom \in SUBSET Ids
    BY <1>2 DEF WelcomeUser, Requested, Types, LeaderType
  <2>2. Sent'
    <3>1. UserList(chatRoom) \in SentDatagrams(log)
      BY <2>1 DEF UserList, SentDatagrams
    <3> QED BY <1>2, <2>1, <3>1, SendClientType DEF WelcomeUser, Sent
  <2>3. Typed'
    <3>1. [type |-> ADD_USER, from |-> prod.id, mid |-> 0] \in TypedMessages
      BY <1>0, <2>1 DEF TypedMessages, MessageTypes
    <3> QED BY <1>2, <3>1, PushHeapType DEF WelcomeUser, Typed
  <2>4. Types'
    BY <1>0, <1>2 DEF WelcomeUser, Listening, Types, LeaderType, ThreadType, ClientType
  <2>5. Requested' /\ Prioritized' /\ Numbered' /\ Displayed'
    BY <1>2 DEF WelcomeUser, Listening, Requested, Prioritized, Numbered, Displayed
  <2> QED BY <2>2, <2>3, <2>4, <2>5
<1>3. ASSUME ProducerWakes PROVE IInv'
  <2>1. Types'
    BY <1>0, <1>3 DEF ProducerWakes, Listening, Types, LeaderType, ThreadType, ClientType
  <2>2. Requested' /\ Prioritized' /\ Typed' /\ Numbered' /\ Sent' /\ Displayed'
    BY <1>3 DEF ProducerWakes, Listening, Requested, Prioritized, Typed, Numbered, Sent, Displayed
  <2> QED BY <2>1, <2>2
<1>4. ASSUME IgnoreOldChat \/ HandleInvalid PROVE IInv'
  <2>1. Requested'
    BY <1>4, NextRequest DEF IgnoreOldChat, HandleInvalid, Requested
  <2>2. Types'
    BY <1>4 DEF IgnoreOldChat, HandleInvalid, Types, LeaderType, ThreadType, ClientType
  <2>3. Prioritized' /\ Typed' /\ Numbered' /\ Sent' /\ Displayed'
    BY <1>4 DEF IgnoreOldChat, HandleInvalid, Prioritized, Typed, Numbered, Sent, Displayed
  <2> QED BY <2>1, <2>2, <2>3
<1>5. ASSUME HandleChat PROVE IInv'
  <2>1. /\ r.from \in Ids /\ r.mid \in Nat /\ (r.from \in Clients => r.mid = 2)
        /\ Tail(toLeader) \in Seq(SentRequests)
    BY <1>5, NextRequest DEF HandleChat
  <2> HIDE DEF r
  <2>2. PICK p \in IF r.from \in chatRoom THEN {priority[r.from]} ELSE UninitPriority :
          /\ chatRoom' = chatRoom \cup {r.from}
          /\ priority' = [priority EXCEPT ![r.from] = p + 1]
          /\ pq' = PushHeap(pq, [type |-> p + 1, from |-> r.from, mid |-> r.mid])
    BY <1>5 DEF HandleChat, r
  <2>3. /\ up /\ ~(r.mid <= lastMsgId[r.from])
        /\ toLeader' = Tail(toLeader)
        /\ lastMsgId' = [lastMsgId EXCEPT ![r.from] = r.mid]
        /\ UNCHANGED <<up, seqNum, con, prod, sendQ, typed, log, dangled,
                       clientVars, toClient, faults>>
    BY <1>5 DEF HandleChat, Hears, Seen, r
  <2>4. Leader \in chatRoom /\ lastMsgId[r.from] \in Nat /\ priority[r.from] \in Nat
    BY <2>1 DEF Types, LeaderType
  <2>5. p \in Nat /\ (p + 1 >= CHAT \/ (p + 1 = 1 /\ r.from \in Clients /\ r.mid = 2))
    <3>1. CASE r.from \in chatRoom
      \* His first line has been handled, if his priority is 1: this is no later one.
      <4>1. p = priority[r.from]
        BY <2>2, <3>1
      <4>2. p >= CHAT \/ (r.from \in Clients /\ lastMsgId[r.from] >= 2)
        BY <2>3, <3>1, <4>1 DEF Prioritized
      <4> QED BY <2>1, <2>3, <2>4, <4>1, <4>2 DEF CHAT
    <3>2. CASE r.from \notin chatRoom
      <4>1. p = 0 \/ (p \in Nat /\ p >= DEQUEUE)
        BY <2>2, <3>2, SequencerAssumption
      <4>2. r.from \in Clients
        BY <2>1, <2>4, <3>2 DEF Ids
      <4> QED BY <2>1, <4>1, <4>2 DEF DEQUEUE, CHAT
    <3> QED BY <3>1, <3>2
  <2>6. Typed'
    <3>1. [type |-> p + 1, from |-> r.from, mid |-> r.mid] \in TypedMessages
      BY <2>1, <2>5 DEF TypedMessages, MessageTypes, JOIN
    <3> QED BY <2>2, <2>3, <3>1, PushHeapType DEF Typed
  <2>7. LeaderType'
    BY <2>1, <2>2, <2>3, <2>5 DEF Types, LeaderType
  <2>8. Types'
    BY <2>3, <2>7 DEF Types, ThreadType, ClientType
  <2>9. Prioritized'
    BY <2>1, <2>2, <2>3, <2>5 DEF Prioritized, Types, LeaderType, CHAT
  <2>10. Requested' /\ Numbered' /\ Sent' /\ Displayed'
    BY <2>1, <2>3 DEF Requested, Numbered, Sent, Displayed
  <2> QED BY <2>6, <2>8, <2>9, <2>10
<1>6. ASSUME HandleDelete PROVE IInv'
  <2>1. r.from \in Clients /\ Tail(toLeader) \in Seq(SentRequests)
    BY <1>6, NextRequest DEF HandleDelete
  <2>2. CASE DeleteUser(r.from)
    BY <1>6, <2>1, <2>2, DeleteUserInv DEF HandleDelete, Types
  <2>3. CASE UNCHANGED <<chatRoom, pq, con>>
    <3>1. Types'
      BY <1>6, <2>3 DEF HandleDelete, Types, LeaderType, ThreadType, ClientType
    <3>2. Requested' /\ Prioritized' /\ Typed' /\ Numbered' /\ Sent' /\ Displayed'
      BY <1>6, <2>1, <2>3 DEF HandleDelete, Requested, Prioritized, Typed, Numbered, Sent, Displayed
    <3> QED BY <3>1, <3>2
  <2> QED BY <1>6, <2>2, <2>3 DEF HandleDelete
<1>7. ASSUME HandleDequeue PROVE IInv'
  <2>1. Tail(toLeader) \in Seq(SentRequests)
    BY <1>7, NextRequest DEF HandleDequeue
  <2>2. CASE LeaderDies
    BY <1>7, <2>2, LeaderDiesInv DEF HandleDequeue, Types, LeaderType
  <2>3. CASE /\ toLeader' = Tail(toLeader)
             /\ \/ sendQ > 0 /\ sendQ' = sendQ - 1 /\ UNCHANGED prod
                \/ prod' = [prod EXCEPT !.pc = "blocked"] /\ UNCHANGED sendQ
             /\ UNCHANGED <<up, chatRoom, priority, lastMsgId, pq, seqNum, con, typed>>
    <3>1. Types'
      BY <1>7, <2>3 DEF HandleDequeue, Types, LeaderType, ThreadType, ClientType
    <3>2. Requested'
      BY <2>1, <2>3 DEF Requested, Types, ThreadType
    <3>3. Prioritized' /\ Typed' /\ Numbered' /\ Sent' /\ Displayed'
      BY <1>7, <2>3 DEF HandleDequeue, Prioritized, Typed, Numbered, Sent, Displayed
    <3> QED BY <3>1, <3>2, <3>3
  <2> QED BY <1>7, <2>2, <2>3 DEF HandleDequeue
<1> QED BY <1>1, <1>2, <1>3, <1>4, <1>5, <1>6, <1>7 DEF Producer

------------------------------------------------------------------------------
(* The leader's consumer and its other threads.                             *)

\* Nobody but the consumer numbers messages, and it keeps to the number it has
\* given while it multicasts, wherever its iterator takes it.
LEMMA ConsumerInv ==
  ASSUME IInv, Consumer
  PROVE  IInv'
<1> USE DEF IInv, leaderVars, clientVars
<1>0. Leader \in Ids /\ Clients \subseteq Ids
  BY SequencerAssumption DEF Ids
<1>1. ASSUME PopMessage PROVE IInv'
  <2> DEFINE m == pq[1]
  <2>1. m \in TypedMessages /\ PopHeap(pq) \in Seq(TypedMessages)
    BY <1>1, PopHeapType DEF PopMessage, Typed
  <2> HIDE DEF m
  <2>2. /\ up /\ seqNum' = seqNum + 1 /\ log' = Append(log, m)
        /\ con' = [pc |-> "mcast", msg |-> m, at |-> 0, freed |-> FALSE]
        /\ pq' = PopHeap(pq)
        /\ UNCHANGED <<up, chatRoom, priority, lastMsgId, prod, sendQ, typed,
                       dangled, clientVars, toLeader, toClient, faults>>
    BY <1>1 DEF PopMessage, m
  <2>3. log \in Seq(TypedMessages) /\ seqNum = Len(log)
    BY <2>2 DEF Typed, Numbered
  <2>4. Typed'
    BY <2>1, <2>2, <2>3 DEF Typed
  <2>5. Numbered'
    BY <2>1, <2>2, <2>3 DEF Numbered
  <2>6. Types'
    <3>1. m \in Messages
      BY <2>1 DEF TypedMessages, MessageTypes, Messages, JOIN, ADD_USER, DELETE
    <3> QED BY <2>2, <3>1 DEF Types, LeaderType, ThreadType, ClientType
  <2>7. SentDatagrams(log) \subseteq SentDatagrams(log') /\ Lines(log) \subseteq Lines(log')
    BY <2>2, <2>3, LogGrows
  <2>8. Sent'
    <3>1. \A c \in Clients : toClient[c] \in Seq(SentDatagrams(log'))
      BY <2>7, SeqMonotonic DEF Sent
    <3> QED BY <2>2, <3>1 DEF Sent
  <2>9. Displayed'
    <3>1. \A c \in Clients : shown[c] \in Seq(Lines(log'))
      BY <2>7, SeqMonotonic DEF Displayed
    <3> QED BY <2>2, <3>1 DEF Displayed
  <2>10. Requested' /\ Prioritized'
    BY <2>2 DEF Requested, Prioritized
  <2> QED BY <2>4, <2>5, <2>6, <2>8, <2>9, <2>10
<1>2. ASSUME NEW c \in Others, SendTo(c), con.pc = "mcast",
             UNCHANGED <<up, chatRoom, priority, lastMsgId, pq, seqNum, prod, sendQ,
                         typed, log, clientVars, toLeader, faults>>,
             dangled' \in BOOLEAN
      PROVE  IInv'
  <2>1. c \in Clients
    BY DEF Others, Types, LeaderType, Ids
  <2>2. Sent'
    <3>1. Multicast(con.msg, seqNum) \in SentDatagrams(log)
      BY <1>2 DEF Numbered, SentDatagrams
    <3> QED BY <1>2, <2>1, <3>1, SendClientType DEF SendTo, Sent
  <2>3. ThreadType'
    BY <1>0, <1>2, <2>1 DEF SendTo, Types, ThreadType
  <2>4. Types'
    BY <1>2, <2>3 DEF Types, LeaderType, ClientType
  <2>5. Numbered'
    BY <1>2 DEF SendTo, Numbered, Types, ThreadType
  <2>6. Requested' /\ Prioritized' /\ Typed' /\ Displayed'
    BY <1>2 DEF Requested, Prioritized, Typed, Displayed
  <2> QED BY <2>2, <2>4, <2>5, <2>6
<1>3. ASSUME EndLoop,
             UNCHANGED <<up, chatRoom, priority, lastMsgId, pq, seqNum, prod, sendQ,
                         typed, log, clientVars, toLeader, toClient, faults>>,
             dangled' \in BOOLEAN
      PROVE  IInv'
  <2>1. ThreadType'
    BY <1>3 DEF EndLoop, Types, ThreadType
  <2>2. Types'
    BY <1>3, <2>1 DEF Types, LeaderType, ClientType
  <2>3. Numbered'
    BY <1>3 DEF EndLoop, Numbered, Types, ThreadType
  <2>4. Requested' /\ Prioritized' /\ Typed' /\ Sent' /\ Displayed'
    BY <1>3 DEF Requested, Prioritized, Typed, Sent, Displayed
  <2> QED BY <2>2, <2>3, <2>4
<1>4. ASSUME NextRecipient PROVE IInv'
  <2>1. dangled' \in BOOLEAN
    BY <1>4 DEF NextRecipient, Types, LeaderType
  <2> QED BY <1>2, <1>3, <1>4, <2>1 DEF NextRecipient
<1>5. ASSUME AdvanceErased PROVE IInv'
  <2>1. CASE LeaderDies /\ UNCHANGED toClient
    <3>1. dangled' \in BOOLEAN /\ faults' \in Seq(Occurrences)
      BY <1>5 DEF AdvanceErased, Types
    <3> QED BY <1>5, <2>1, <3>1, LeaderDiesInv DEF AdvanceErased
  <2>2. CASE /\ (\E c \in Others : SendTo(c)) \/ (EndLoop /\ UNCHANGED toClient)
             /\ UNCHANGED <<up, chatRoom, priority, lastMsgId, pq, seqNum, prod,
                            sendQ, typed, toLeader>>
    BY <1>2, <1>3, <1>5, <2>2 DEF AdvanceErased
  <2> QED BY <1>5, <2>1, <2>2 DEF AdvanceErased
<1>6. ASSUME FinishMessage PROVE IInv'
  <2> DEFINE c == con.msg.from
  <2>1. Types'
    <3>1. ThreadType'
      BY <1>0, <1>6 DEF FinishMessage, Idle, Types, ThreadType, Messages
    <3> QED BY <1>6, <3>1 DEF FinishMessage, Types, LeaderType, ClientType
  <2>2. c \in Ids
    BY DEF Types, ThreadType, Messages
  <2>3. Requested'
    <3>1. Request(DEQUEUE, Leader, 0) \in SentRequests
      BY DEF Request, SentRequests
    <3>2. toLeader' \in Seq(SentRequests)
      BY <1>6, <3>1, SendLeaderType DEF FinishMessage, Requested
    <3> QED BY <1>6, <3>2 DEF FinishMessage, Requested
  <2>4. Sent'
    <3>1. Dequeue \in SentDatagrams(log)
      BY DEF Dequeue, SentDatagrams
    <3>2. CASE SendClient(c, Dequeue) /\ c \in Clients
      BY <1>6, <3>1, <3>2, SendClientType DEF FinishMessage, Sent
    <3>3. CASE UNCHANGED toClient
      BY <1>6, <3>3 DEF FinishMessage, Sent
    <3> QED BY <1>6, <2>2, <3>2, <3>3 DEF FinishMessage, Ids
  <2>5. Prioritized' /\ Typed' /\ Numbered' /\ Displayed'
    BY <1>6 DEF FinishMessage, Idle, Prioritized, Typed, Numbered, Displayed
  <2> QED BY <2>1, <2>3, <2>4, <2>5
<1> QED BY <1>1, <1>4, <1>5, <1>6 DEF Consumer

\* The leader's user, its failure detector and its end.
LEMMA LeaderInv ==
  ASSUME IInv, LeaderTypes \/ LeaderQuits \/ \E c \in Clients : Suspect(c)
  PROVE  IInv'
<1> USE DEF IInv, clientVars
<1>1. ASSUME LeaderTypes PROVE IInv'
  <2>1. Request(CHAT, Leader, typed + 1) \in SentRequests
    BY DEF Request, SentRequests, Types, LeaderType
  <2>2. Requested'
    BY <1>1, <2>1, SendLeaderType DEF LeaderTypes, Requested
  <2>3. Types'
    BY <1>1 DEF LeaderTypes, Types, LeaderType, ThreadType, ClientType
  <2>4. Prioritized' /\ Typed' /\ Numbered' /\ Sent' /\ Displayed'
    BY <1>1 DEF LeaderTypes, Prioritized, Typed, Numbered, Sent, Displayed
  <2> QED BY <2>2, <2>3, <2>4
<1>2. ASSUME LeaderQuits PROVE IInv'
  <2>1. dangled' \in BOOLEAN /\ faults' \in Seq(Occurrences)
    BY <1>2 DEF LeaderQuits, Types, LeaderType
  <2> QED BY <1>2, <2>1, LeaderDiesInv DEF LeaderQuits
<1>3. ASSUME NEW c \in Clients, Suspect(c) PROVE IInv'
  <2>1. dangled' \in BOOLEAN /\ faults' \in Seq(Occurrences)
    BY <1>3, FaultType DEF Suspect, Types, LeaderType, Ids
  <2>2. CASE LeaderDies
    BY <1>3, <2>1, <2>2, LeaderDiesInv DEF Suspect
  <2>3. CASE DeleteUser(c) /\ UNCHANGED <<up, priority, lastMsgId, seqNum, prod, sendQ, typed, toLeader>>
    BY <1>3, <2>1, <2>3, DeleteUserInv DEF Suspect, Requested
  <2> QED BY <1>3, <2>2, <2>3 DEF Suspect
<1> QED BY <1>1, <1>2, <1>3

------------------------------------------------------------------------------
(* The clients and the network.                                             *)

\* A client that leaves takes its memory along, but what it has shown was in
\* the leader's order.
LEMMA LeavesInv ==
  ASSUME IInv, NEW c \in Clients, Leaves(c), toLeader' \in Seq(SentRequests),
         UNCHANGED <<leaderVars, shown, faults>>
  PROVE  IInv'
<1> USE DEF IInv, leaderVars
<1>1. ClientType'
  BY DEF Leaves, Types, ClientType
<1>2. Types'
  BY <1>1 DEF Types, LeaderType, ThreadType
<1>3. Sent'
  BY DEF Leaves, Sent
<1>4. Displayed'
  BY DEF Leaves, Displayed, Types, ClientType
<1>5. Requested' /\ Prioritized' /\ Typed' /\ Numbered'
  BY DEF Requested, Prioritized, Typed, Numbered
<1> QED BY <1>2, <1>3, <1>4, <1>5

\* Reading a datagram leaves those behind it.
LEMMA ReceivesSent ==
  ASSUME Sent, NEW c \in Clients, Receives(c), UNCHANGED log
  PROVE  Sent'
<1>1. Tail(toClient[c]) \in Seq(SentDatagrams(log))
  BY HeadTailProperties DEF Receives, Sent
<1> QED BY <1>1 DEF Receives, Sent

\* Joining, speaking and leaving.
LEMMA ClientInv ==
  ASSUME IInv, NEW c \in Clients,
         \/ Join(c) \/ ReadList(c) \/ MissList(c) \/ JoinTimeout(c)
         \/ SendChat(c) \/ ExitChatroom(c) \/ Crash(c)
  PROVE  IInv'
<1> USE DEF IInv, leaderVars, clientVars
<1>0. c \in Ids /\ toLeader \in Seq(SentRequests)
  BY DEF Ids, Requested
<1>1. ASSUME Join(c) PROVE IInv'
  <2>1. Request(JOIN, c, 1) \in SentRequests
    BY DEF Request, SentRequests
  <2>2. Requested'
    BY <1>1, <2>1, SendLeaderType DEF Join, Requested
  <2>3. Types'
    BY <1>1 DEF Join, Types, LeaderType, ThreadType, ClientType
  <2>4. Displayed'
    BY <1>1 DEF Join, Displayed, Types, ClientType
  <2>5. Prioritized' /\ Typed' /\ Numbered' /\ Sent'
    BY <1>1 DEF Join, Prioritized, Typed, Numbered, Sent
  <2> QED BY <2>2, <2>3, <2>4, <2>5
<1>2. ASSUME ReadList(c) PROVE IInv'
  <2>1. Head(toClient[c]).users \in SUBSET Ids
    BY <1>2, NextDatagram DEF ReadList, Receives, NextCode
  <2>2. ClientType'
    BY <1>2, <2>1 DEF ReadList, Types, ClientType
  <2>3. Types'
    BY <1>2, <2>2 DEF ReadList, Types, LeaderType, ThreadType
  <2>4. Sent'
    BY <1>2, ReceivesSent DEF ReadList
  <2>5. Displayed'
    BY <1>2 DEF ReadList, Displayed, Types, ClientType
  <2>6. Requested' /\ Prioritized' /\ Typed' /\ Numbered'
    BY <1>2 DEF ReadList, Requested, Prioritized, Typed, Numbered
  <2> QED BY <2>3, <2>4, <2>5, <2>6
<1>3. ASSUME Leaves(c), UNCHANGED <<leaderVars, shown, toLeader, faults>> PROVE IInv'
  BY <1>0, <1>3, LeavesInv
<1>4. ASSUME MissList(c) PROVE IInv'
  <2>1. CASE Leaves(c)
    BY <1>3, <1>4, <2>1 DEF MissList
  <2>2. CASE /\ Receives(c)
             /\ blind' = blind \cup {c}
             /\ cst' = [cst EXCEPT ![c] = "in"]
             /\ UNCHANGED <<roster, lastSeen, cq, spoke, stuck>>
    <3>1. Types'
      BY <1>4, <2>2 DEF MissList, Types, LeaderType, ThreadType, ClientType
    <3>2. Sent'
      BY <1>4, <2>2, ReceivesSent DEF MissList
    <3>3. Displayed'
      BY <1>4, <2>2 DEF MissList, Displayed, Types, ClientType
    <3>4. Requested' /\ Prioritized' /\ Typed' /\ Numbered'
      BY <1>4 DEF MissList, Requested, Prioritized, Typed, Numbered
    <3> QED BY <3>1, <3>2, <3>3, <3>4
  <2> QED BY <1>4, <2>1, <2>2 DEF MissList
<1>5. ASSUME JoinTimeout(c) \/ Crash(c) PROVE IInv'
  BY <1>3, <1>5 DEF JoinTimeout, Crash
<1>6. ASSUME SendChat(c) PROVE IInv'
  <2>1. Request(CHAT, c, 2) \in SentRequests
    BY DEF Request, SentRequests
  <2>2. Requested'
    BY <1>6, <2>1, SendLeaderType DEF SendChat, Requested
  <2>3. Types'
    BY <1>6 DEF SendChat, Types, LeaderType, ThreadType, ClientType
  <2>4. Prioritized' /\ Typed' /\ Numbered' /\ Sent' /\ Displayed'
    BY <1>6 DEF SendChat, Prioritized, Typed, Numbered, Sent, Displayed
  <2> QED BY <2>2, <2>3, <2>4
<1>7. ASSUME ExitChatroom(c) PROVE IInv'
  <2>1. Request(DELETE, c, 0) \in SentRequests
    BY DEF Request, SentRequests
  <2>2. toLeader' \in Seq(SentRequests)
    BY <1>0, <1>7, <2>1, SendLeaderType DEF ExitChatroom
  <2> QED BY <1>7, <2>2, LeavesInv DEF ExitChatroom
<1> QED BY <1>1, <1>2, <1>4, <1>5, <1>6, <1>7

\* The receiver's test against lastSeenSequenceNum keeps the screen ascending
\* and what it shows is the leader's message with that number.
LEMMA DisplayInv ==
  ASSUME IInv, NEW c \in Clients, cst[c] # "gone", UNCHANGED <<log, cst>>,
         NEW d, d.seq \in DOMAIN log, d.msg = log[d.seq], Display(c, d)
  PROVE  Displayed' /\ lastSeen' \in [Clients -> Nat]
<1> USE DEF IInv
<1>1. CASE UNCHANGED <<lastSeen, shown>>
  BY <1>1 DEF Displayed, Types, ClientType
<1>2. CASE /\ d.seq > lastSeen[c]
           /\ lastSeen' = [lastSeen EXCEPT ![c] = d.seq]
           /\ shown' = [shown EXCEPT ![c] = Append(@, [seq |-> d.seq, msg |-> d.msg])]
  <2> DEFINE line == [seq |-> d.seq, msg |-> d.msg]
             s == shown[c]
  <2>1. line \in Lines(log) /\ line.seq = d.seq /\ d.seq \in Nat
    BY DEF Lines, Typed
  <2>2. s \in Seq(Lines(log)) /\ lastSeen[c] = Abstract!LastOn(s)
        /\ \A i, j \in DOMAIN s : i < j => s[i].seq < s[j].seq
    BY DEF Displayed
  <2>3. \A i \in DOMAIN s : s[i].seq \in Nat
    <3>1. \A l \in Lines(log) : l.seq \in Nat
      BY DEF Lines, Typed
    <3> QED BY <2>2, <3>1
  <2>4. \A i \in DOMAIN s : s[i].seq <= lastSeen[c]
    <3> SUFFICES ASSUME NEW i \in DOMAIN s PROVE s[i].seq <= lastSeen[c]
      OBVIOUS
    <3> HIDE DEF s
    <3>1. lastSeen[c] = s[Len(s)].seq /\ Len(s) \in DOMAIN s /\ i <= Len(s)
      BY <2>2 DEF Abstract!LastOn
    <3> QED BY <2>2, <2>3, <3>1
  <2> DEFINE t == Append(s, line)
  <2> HIDE DEF line
  <2>5. t \in Seq(Lines(log)) /\ Abstract!LastOn(t) = d.seq
    <3> HIDE DEF s
    <3>1. t \in Seq(Lines(log)) /\ t # <<>> /\ t[Len(t)] = line
      BY <2>1, <2>2
    <3> HIDE DEF t
    <3> QED BY <2>1, <3>1 DEF Abstract!LastOn
  <2>6. \A i, j \in DOMAIN t : i < j => t[i].seq < t[j].seq
    <3> SUFFICES ASSUME NEW i \in DOMAIN t, NEW j \in DOMAIN t, i < j
                 PROVE  t[i].seq < t[j].seq
      OBVIOUS
    <3>1. i \in DOMAIN s /\ t[i] = s[i]
      BY <2>2
    <3>2. CASE j \in DOMAIN s
      BY <2>2, <3>1, <3>2
    <3>3. CASE j \notin DOMAIN s
      <4>1. t[j] = line
        BY <2>2, <3>3
      <4>2. s[i].seq <= lastSeen[c] /\ s[i].seq \in Nat /\ lastSeen[c] \in Nat
        BY <2>3, <2>4, <3>1 DEF Types, ClientType
      <4> HIDE DEF s, t
      <4> QED BY <1>2, <2>1, <3>1, <4>1, <4>2
    <3> QED BY <3>2, <3>3
  <2>7. shown' = [shown EXCEPT ![c] = t] /\ lastSeen' = [lastSeen EXCEPT ![c] = d.seq]
    BY <1>2 DEF line
  <2> HIDE DEF t
  <2>8. lastSeen' \in [Clients -> Nat]
    BY <2>1, <2>7 DEF Types, ClientType
  <2>9. Displayed'
    BY <2>5, <2>6, <2>7, <2>8 DEF Displayed, Types, ClientType
  <2> QED BY <2>8, <2>9
<1> QED BY <1>1, <1>2 DEF Display

\* A client's receiver.
LEMMA ReceiverInv ==
  ASSUME IInv, NEW c \in Clients, Receiver(c)
  PROVE  IInv'
<1> USE DEF IInv, leaderVars, clientVars
<1> DEFINE d == Head(toClient[c])
<1>1. /\ cst[c] = "in" /\ toClient[c] # <<>> /\ Receives(c)
      /\ UNCHANGED <<leaderVars, cst, spoke, blind, faults>>
  BY DEF Receiver, Hearing, Receives, ReceiveChat, ReceiveAddUser, ReceiveDelete,
         ReceiveDequeue, ReceiveJoin, ReceiveList
<1>2. d.code \notin {LIST_OF_USERS, DEQUEUE} =>
        d.seq \in DOMAIN log /\ d.msg = log[d.seq] /\ d.msg.from \in Ids
  <2>1. d.code \notin {LIST_OF_USERS, DEQUEUE} => d.seq \in DOMAIN log /\ d.msg = log[d.seq]
    BY <1>1, NextDatagram
  <2>2. \A n \in DOMAIN log : log[n] \in TypedMessages
    BY DEF Typed
  <2> QED BY <2>1, <2>2 DEF TypedMessages
<1>3. Sent' /\ Prioritized' /\ Typed' /\ Numbered'
  BY <1>1, ReceivesSent DEF Prioritized, Typed, Numbered
<1>4. ASSUME ReceiveChat(c) \/ ReceiveAddUser(c) \/ ReceiveDelete(c) PROVE IInv'
  <2>1. Display(c, d) /\ d.code \notin {LIST_OF_USERS, DEQUEUE}
    BY <1>4 DEF ReceiveChat, ReceiveAddUser, ReceiveDelete, NextCode, IsChat,
                CHAT, ADD_USER, DELETE, LIST_OF_USERS, DEQUEUE
  <2>2. roster' \in [Clients -> SUBSET Ids]
    BY <1>2, <1>4, <2>1
       DEF ReceiveChat, ReceiveAddUser, ReceiveDelete, Types, ClientType
  <2>3. Requested' /\ UNCHANGED <<cq, stuck>>
    BY <1>4 DEF ReceiveChat, ReceiveAddUser, ReceiveDelete, Requested
  <2> HIDE DEF d
  <2>4. Displayed' /\ lastSeen' \in [Clients -> Nat]
    BY <1>1, <1>2, <2>1, DisplayInv
  <2>5. Types'
    BY <1>1, <2>2, <2>3, <2>4 DEF Types, LeaderType, ThreadType, ClientType
  <2> QED BY <1>3, <2>3, <2>4, <2>5
<1>5. ASSUME ReceiveDequeue(c) \/ ReceiveJoin(c) \/ ReceiveList(c) PROVE IInv'
  <2>1. UNCHANGED <<roster, lastSeen, shown>>
    BY <1>5 DEF ReceiveDequeue, ReceiveJoin, ReceiveList
  <2>2. cq' \in [Clients -> Nat] /\ stuck' \subseteq Clients
    <3>1. /\ stuck \subseteq stuck' /\ stuck' \subseteq stuck \cup {c}
          /\ cq' = cq \/ (cq[c] > 0 /\ cq' = [cq EXCEPT ![c] = @ - 1])
      BY <1>5 DEF ReceiveDequeue, ReceiveJoin, ReceiveList
    <3>2. cq \in [Clients -> Nat] /\ stuck \subseteq Clients
      BY DEF Types, ClientType
    <3> HIDE DEF IInv
    <3> QED BY <3>1, <3>2
  <2>3. toLeader' \in Seq(SentRequests)
    <3>1. Request(RESOLVE_LEADER, c, 0) \in SentRequests
      BY DEF Request, SentRequests
    <3> QED BY <1>5, <3>1, SendLeaderType
            DEF ReceiveDequeue, ReceiveJoin, ReceiveList, Requested
  <2>4. Requested' /\ Displayed'
    BY <1>1, <2>1, <2>3 DEF Requested, Displayed
  <2>5. Types'
    BY <1>1, <2>1, <2>2 DEF Types, LeaderType, ThreadType, ClientType
  <2> QED BY <1>3, <2>4, <2>5
<1> QED BY <1>4, <1>5 DEF Receiver

\* What the network does to a buffer puts nothing new into it.
LEMMA NetworkInv ==
  ASSUME IInv, Lose \/ Delay \/ Duplicate
  PROVE  IInv'
<1> USE DEF IInv
<1>1. faults' \in Seq(Occurrences) /\ UNCHANGED <<leaderVars, clientVars>>
  <2>1. UNCHANGED <<leaderVars, clientVars>> /\ \E kind : \E i \in Ids : Fault(kind, i)
    BY Disturbance DEF Ids
  <2> QED BY <2>1, FaultType DEF Types
<1>2. toLeader' \in Seq(SentRequests)
  <2>1. CASE UNCHANGED toLeader
    BY <2>1 DEF Requested
  <2>2. CASE \E i \in DOMAIN toLeader :
               toLeader' \in {Without(toLeader, i), Late(toLeader, i), Twice(toLeader, i)}
    BY <2>2, BufferTypes DEF Requested
  <2> QED BY <2>1, <2>2, Disturbance DEF Outcome
<1>3. Sent'
  <2>1. CASE UNCHANGED toClient
    BY <1>1, <2>1 DEF Sent, leaderVars
  <2>2. ASSUME NEW c \in Clients, NEW i \in DOMAIN toClient[c], NEW b,
               b \in {Without(toClient[c], i), Late(toClient[c], i), Twice(toClient[c], i)},
               toClient' = [toClient EXCEPT ![c] = b]
        PROVE  Sent'
    <3>1. b \in Seq(SentDatagrams(log))
      BY <2>2, BufferTypes DEF Sent
    <3> QED BY <1>1, <2>2, <3>1 DEF Sent, leaderVars
  <2> QED BY <2>1, <2>2, Disturbance DEF Outcome
<1>4. Types'
  BY <1>1 DEF leaderVars, clientVars, Types, LeaderType, ThreadType, ClientType
<1>5. Requested' /\ Prioritized' /\ Typed' /\ Numbered' /\ Displayed'
  BY <1>1, <1>2 DEF leaderVars, clientVars, Requested, Prioritized, Typed, Numbered, Displayed
<1> QED BY <1>3, <1>4, <1>5

------------------------------------------------------------------------------
(* The theorems.                                                            *)

\* The chat begins with nothing sent, numbered or shown.
LEMMA InitIInv == Init => IInv
<1> SUFFICES ASSUME Init PROVE IInv
  OBVIOUS
<1> USE DEF Init
<1>1. LeaderType
  BY DEF LeaderType, Ids, CHAT
<1>2. ThreadType
  BY DEF ThreadType, Idle, Listening, Messages, Ids
<1>3. ClientType /\ faults \in Seq(Occurrences)
  BY DEF ClientType
<1>4. Prioritized
  BY DEF Prioritized, Ids, CHAT
<1>5. Requested /\ Typed /\ Numbered
  BY DEF Requested, Listening, Typed, Numbered, Idle
<1>6. Sent /\ Displayed
  BY DEF Sent, Displayed, Abstract!LastOn
<1> QED BY <1>1, <1>2, <1>3, <1>4, <1>5, <1>6 DEF IInv, Types

\* Every step of every thread, user and fault preserves IInv.
LEMMA NextIInv == IInv /\ [Next]_vars => IInv'
<1> SUFFICES ASSUME IInv, [Next]_vars PROVE IInv'
  OBVIOUS
<1>1. CASE UNCHANGED vars
  <2>1. Types'
    BY <1>1 DEF IInv, vars, leaderVars, clientVars, Types, LeaderType, ThreadType, ClientType
  <2> QED BY <1>1, <2>1 DEF IInv, vars, leaderVars, clientVars, Requested, Prioritized,
                            Typed, Numbered, Sent, Displayed
<1>2. CASE Producer
  BY <1>2, ProducerInv
<1>3. CASE Consumer
  BY <1>3, ConsumerInv
<1>4. CASE LeaderTypes \/ LeaderQuits \/ \E c \in Clients : Suspect(c)
  BY <1>4, LeaderInv
<1>5. CASE \E c \in Clients : ClientStep(c)
  BY <1>5, ClientInv, ReceiverInv DEF ClientStep, Joiner
<1>6. CASE Lose \/ Delay \/ Duplicate
  BY <1>6, NetworkInv
<1> QED BY <1>1, <1>2, <1>3, <1>4, <1>5, <1>6 DEF Next

\* What is sent or shown under a number is that entry of the log, in every
\* behaviour of the chat (leader.cpp, client.cpp).
THEOREM Invariance == Spec => []IInv
BY InitIInv, NextIInv, PTL DEF Spec

\* The types of the variables: a client that waits for the list of users never
\* reads a list that is none, and the leader never deletes itself, whatever
\* chance has put into a priority.
THEOREM TypeCorrect == Spec => []TypeOK
BY Invariance, IInvTypes, PTL

\* Two clients never show different messages under one number, nor a client
\* an earlier number after a later one: the multicast is totally ordered.
THEOREM TotallyOrdered == Spec => []TotalOrder
<1>1. IInv => TotalOrder
  <2> SUFFICES ASSUME IInv,
                      NEW c \in Clients, NEW d \in Clients,
                      NEW i \in DOMAIN shown[c], NEW j \in DOMAIN shown[d],
                      shown[c][i].seq = shown[d][j].seq
               PROVE  shown[c][i].msg = shown[d][j].msg
    BY DEF IInv, Displayed, TotalOrder
  <2>1. shown[c][i] \in Lines(log) /\ shown[d][j] \in Lines(log)
    BY DEF IInv, Displayed
  <2> QED BY <2>1 DEF Lines
<1> QED BY <1>1, Invariance, PTL

\* A step of the chat is a step of the multicast, or none of its concern.
LEMMA StepImplements ==
  ASSUME IInv, [Next]_vars
  PROVE  [Abstract!MNext]_<<log, shown>>
<1> USE DEF IInv
<1>1. CASE PopMessage
  <2>1. pq[1] \in TypedMessages /\ log \in Seq(TypedMessages)
    BY <1>1 DEF PopMessage, Typed
  <2>2. pq[1] \in Messages /\ log \in Seq(Messages)
    BY <2>1, IInvTypes DEF TypeOK, MessageType, TypedMessages, Messages, MessageTypes,
                           JOIN, ADD_USER, DELETE
  <2>3. log' = Append(log, pq[1]) /\ UNCHANGED shown
    BY <1>1 DEF PopMessage, clientVars
  <2> QED BY <2>2, <2>3 DEF Abstract!MNext, Abstract!Sequence
<1>2. ASSUME NEW c \in Clients,
             ReceiveChat(c) \/ ReceiveAddUser(c) \/ ReceiveDelete(c)
      PROVE  [Abstract!MNext]_<<log, shown>>
  <2> DEFINE d == Head(toClient[c])
  <2>1. /\ Display(c, d) /\ d.code \notin {LIST_OF_USERS, DEQUEUE} /\ UNCHANGED log
        /\ cst[c] = "in" /\ toClient[c] # <<>>
    BY <1>2 DEF ReceiveChat, ReceiveAddUser, ReceiveDelete, NextCode, IsChat, Hearing,
                Receives, leaderVars, CHAT, ADD_USER, DELETE, LIST_OF_USERS, DEQUEUE
  <2>2. d.seq \in DOMAIN log /\ d.msg = log[d.seq]
    BY <2>1, NextDatagram
  <2>3. lastSeen[c] = Abstract!LastOn(shown[c])
    BY <2>1 DEF Displayed
  <2> HIDE DEF d
  <2>4. CASE UNCHANGED shown
    BY <2>1, <2>4
  <2>5. CASE /\ d.seq > lastSeen[c]
             /\ shown' = [shown EXCEPT ![c] = Append(@, [seq |-> d.seq, msg |-> d.msg])]
    <3>1. Abstract!Show(c, d.seq)
      BY <2>1, <2>2, <2>3, <2>5 DEF Abstract!Show
    <3> QED BY <2>2, <3>1 DEF Abstract!MNext
  <2> QED BY <2>1, <2>4, <2>5 DEF Display
<1>3. CASE UNCHANGED <<log, shown>>
  BY <1>3
<1>4. CASE Producer
  BY <1>3, <1>4 DEF Producer, WelcomeUser, ProducerWakes, HandleJoin, IgnoreOldChat, HandleChat,
       HandleDelete, HandleDequeue, HandleInvalid, leaderVars, clientVars
<1>5. CASE Consumer
  BY <1>1, <1>3, <1>5 DEF Consumer, NextRecipient, AdvanceErased, FinishMessage, clientVars
<1>6. CASE LeaderTypes \/ LeaderQuits \/ \E c \in Clients : Suspect(c)
  BY <1>3, <1>6 DEF LeaderTypes, LeaderQuits, Suspect, clientVars
<1>7. ASSUME NEW c \in Clients, ClientStep(c) PROVE [Abstract!MNext]_<<log, shown>>
  <2>1. CASE Receiver(c)
    BY <1>2, <1>3, <2>1 DEF Receiver, ReceiveDequeue, ReceiveJoin, ReceiveList,
                            leaderVars, clientVars
  <2>2. CASE ~Receiver(c)
    BY <1>3, <1>7, <2>2 DEF ClientStep, Joiner, Join, JoinTimeout, ReadList, MissList,
                            SendChat, ExitChatroom, Crash, leaderVars
  <2> QED BY <2>1, <2>2
<1>8. CASE Lose \/ Delay \/ Duplicate
  BY <1>3, <1>8, Disturbance DEF leaderVars, clientVars
<1>9. CASE UNCHANGED vars
  BY <1>3, <1>9 DEF vars, leaderVars, clientVars
<1> QED BY <1>4, <1>5, <1>6, <1>7, <1>8, <1>9 DEF Next

\* The chat implements a totally ordered multicast: the leader's consumer is its
\* sequencer and the receivers are its participants.
THEOREM Implements == Spec => ImplementsMulticast
<1>1. Init => Abstract!MInit
  BY DEF Init, Abstract!MInit
<1>2. IInv /\ [Next]_vars => [Abstract!MNext]_Abstract!mvars
  BY StepImplements DEF Abstract!mvars
<1> QED BY <1>1, <1>2, Invariance, PTL DEF Spec, ImplementsMulticast, Abstract!MSpec

------------------------------------------------------------------------------
(* No line twice.                                                           *)

\* No two lines of h are the same user's with the same message id.
Once(h) ==
  \A j, k \in DOMAIN h :
    h[j].mid # 0 /\ h[j].from = h[k].from /\ h[j].mid = h[k].mid => j = k

\* Every line that waits or has its number was accepted once, when its id was
\* above the last one seen.
Accepted ==
  /\ Once(log) /\ Once(pq)
  /\ \A j \in DOMAIN pq, k \in DOMAIN log :
       pq[j].mid # 0 /\ pq[j].from = log[k].from => pq[j].mid # log[k].mid
  /\ up => /\ \A j \in DOMAIN pq : pq[j].mid <= lastMsgId[pq[j].from]
           /\ \A k \in DOMAIN log : log[k].mid <= lastMsgId[log[k].from]

\* At first no line has been accepted.
LEMMA InitAccepted == Init => Accepted
BY DEF Init, Accepted, Once

\* A shuffled queue holds the same lines as often.
LEMMA ShufflesOnce ==
  ASSUME NEW r, NEW g, Shuffles(r, g)
  PROVE  /\ \A i \in DOMAIN r : \E j \in DOMAIN g : r[i] = g[j]
         /\ Once(g) => Once(r)
<1>1. PICK p \in Bijection(DOMAIN r, DOMAIN g) : \A j \in DOMAIN r : r[j] = g[p[j]]
  BY DEF Shuffles
<1>2. p \in [DOMAIN r -> DOMAIN g] /\ \A j, k \in DOMAIN r : p[j] = p[k] => j = k
  BY Fun_BijectionProperties
<1> QED BY <1>1, <1>2 DEF Once

\* A queue of messages, taken apart.
LEMMA TypedElements ==
  ASSUME NEW h \in Seq(TypedMessages)
  PROVE  /\ Len(h) \in Nat /\ DOMAIN h = 1..Len(h)
         /\ \A j \in 1..Len(h) : h[j] \in TypedMessages /\ h[j].from \in Ids /\ h[j].mid \in Nat
<1>1. Len(h) \in Nat /\ DOMAIN h = 1..Len(h) /\ \A j \in 1..Len(h) : h[j] \in TypedMessages
  OBVIOUS
<1> QED BY <1>1 DEF TypedMessages

\* A notice, or a line with a new id, is pushed.
LEMMA PushAccepted ==
  ASSUME IInv, Accepted, up, NEW m \in TypedMessages, pq' = PushHeap(pq, m), log' = log,
         m.mid = 0 \/ m.mid > lastMsgId[m.from],
         m.mid <= lastMsgId'[m.from],
         \A i \in Ids : lastMsgId[i] \in Nat /\ lastMsgId'[i] \in Nat /\ lastMsgId[i] <= lastMsgId'[i]
  PROVE  Accepted'
<1> DEFINE g == Append(pq, m)
           n == Len(pq)
<1>1. pq \in Seq(TypedMessages) /\ log \in Seq(TypedMessages)
  BY DEF IInv, Typed
<1>2. g \in Seq(TypedMessages) /\ Shuffles(pq', g)
  BY <1>1, PushShuffles
<1>3. /\ n \in Nat /\ DOMAIN pq = 1..n /\ DOMAIN g = 1..(n + 1)
      /\ g[n + 1] = m /\ \A j \in 1..n : g[j] = pq[j]
  BY <1>1
<1> HIDE DEF g, n
<1>4. m.from \in Ids /\ m.mid \in Nat
  BY DEF TypedMessages
<1>5. \A j \in 1..n : pq[j].from \in Ids /\ pq[j].mid \in Nat /\ pq[j].mid <= lastMsgId[pq[j].from]
  BY <1>1, <1>3, TypedElements DEF Accepted
<1>6. Once(g)
  <2> SUFFICES ASSUME NEW j \in DOMAIN g, NEW k \in DOMAIN g,
                      g[j].mid # 0, g[j].from = g[k].from, g[j].mid = g[k].mid
               PROVE  j = k
    BY DEF Once
  <2>1. CASE j \in 1..n /\ k \in 1..n
    BY <1>3, <2>1 DEF Accepted, Once
  <2>2. ASSUME NEW i \in 1..n, g[i].from = m.from, g[i].mid = m.mid, m.mid # 0 PROVE FALSE
    BY <1>3, <1>4, <1>5, <2>2
  <2>3. CASE j = n + 1 /\ k = n + 1
    BY <2>3
  <2> QED BY <1>3, <2>1, <2>2, <2>3
<1>7. /\ Once(pq')
      /\ \A i \in DOMAIN pq' : pq'[i] = m \/ \E j \in 1..n : pq'[i] = pq[j]
  <2>1. Once(pq') /\ \A i \in DOMAIN pq' : \E j \in DOMAIN g : pq'[i] = g[j]
    BY <1>2, <1>6, ShufflesOnce
  <2> QED BY <1>3, <2>1
<1>8. \A k \in DOMAIN log : log[k].from \in Ids /\ log[k].mid \in Nat
                            /\ log[k].mid <= lastMsgId[log[k].from]
  BY <1>1, TypedElements DEF Accepted
<1>9. ASSUME NEW i \in DOMAIN pq', NEW k \in DOMAIN log,
             pq'[i].mid # 0, pq'[i].from = log[k].from
      PROVE  pq'[i].mid # log[k].mid
  <2>1. CASE pq'[i] = m
    BY <1>4, <1>8, <1>9, <2>1
  <2>2. ASSUME NEW j \in 1..n, pq'[i] = pq[j] PROVE pq'[i].mid # log[k].mid
    BY <1>3, <1>9, <2>2 DEF Accepted
  <2> QED BY <1>7, <2>1, <2>2
<1>10. ASSUME NEW i \in DOMAIN pq' PROVE pq'[i].mid <= lastMsgId'[pq'[i].from]
  <2>1. ASSUME NEW j \in 1..n, pq'[i] = pq[j] PROVE pq'[i].mid <= lastMsgId'[pq'[i].from]
    <3>1. /\ pq[j].mid \in Nat /\ pq[j].mid <= lastMsgId[pq[j].from]
          /\ lastMsgId[pq[j].from] <= lastMsgId'[pq[j].from]
          /\ lastMsgId[pq[j].from] \in Nat /\ lastMsgId'[pq[j].from] \in Nat
      BY <1>5
    <3> QED BY <2>1, <3>1
  <2> QED BY <1>7, <2>1
<1>11. ASSUME NEW k \in DOMAIN log PROVE log[k].mid <= lastMsgId'[log[k].from]
  <2>1. /\ log[k].mid \in Nat /\ log[k].mid <= lastMsgId[log[k].from]
        /\ lastMsgId[log[k].from] <= lastMsgId'[log[k].from]
        /\ lastMsgId[log[k].from] \in Nat /\ lastMsgId'[log[k].from] \in Nat
    BY <1>8
  <2> QED BY <2>1
<1> QED BY <1>7, <1>9, <1>10, <1>11 DEF Accepted

\* The next message gets its number.
LEMMA PopAccepted ==
  ASSUME IInv, Accepted, PopMessage
  PROVE  Accepted'
<1> DEFINE g == Tail(pq)
           n == Len(pq)
           longer == Append(log, pq[1])
<1>1. pq \in Seq(TypedMessages) /\ log \in Seq(TypedMessages) /\ pq # <<>>
  BY DEF IInv, Typed, PopMessage
<1>2. pq' = PopHeap(pq) /\ log' = longer /\ UNCHANGED <<up, lastMsgId>> /\ up
  BY DEF PopMessage
<1>3. Shuffles(pq', g)
  BY <1>1, <1>2, PopShuffles
<1>4. /\ n \in Nat \ {0} /\ DOMAIN pq = 1..n /\ DOMAIN g = 1..(n - 1)
      /\ \A j \in 1..(n - 1) : g[j] = pq[j + 1]
  BY <1>1
<1>5. /\ Len(log) \in Nat /\ DOMAIN log = 1..Len(log) /\ DOMAIN longer = 1..(Len(log) + 1)
      /\ longer[Len(log) + 1] = pq[1] /\ \A k \in 1..Len(log) : longer[k] = log[k]
  BY <1>1
<1> HIDE DEF g, n, longer
<1>6. Once(g)
  <2> SUFFICES ASSUME NEW j \in DOMAIN g, NEW k \in DOMAIN g,
                      g[j].mid # 0, g[j].from = g[k].from, g[j].mid = g[k].mid
               PROVE  j = k
    BY DEF Once
  <2>1. j + 1 \in DOMAIN pq /\ k + 1 \in DOMAIN pq /\ g[j] = pq[j + 1] /\ g[k] = pq[k + 1]
    BY <1>4
  <2>2. j + 1 = k + 1
    BY <2>1 DEF Accepted, Once
  <2> QED BY <1>4, <2>2
<1>7. Once(pq') /\ \A i \in DOMAIN pq' : \E j \in 2..n : pq'[i] = pq[j]
  <2>1. Once(pq') /\ \A i \in DOMAIN pq' : \E j \in DOMAIN g : pq'[i] = g[j]
    BY <1>3, <1>6, ShufflesOnce
  <2>2. \A j \in DOMAIN g : j + 1 \in 2..n /\ g[j] = pq[j + 1]
    BY <1>4
  <2> QED BY <2>1, <2>2
<1>8. 1 \in DOMAIN pq /\ \A j \in 2..n : j \in DOMAIN pq /\ j # 1
  BY <1>4
<1>9. Once(longer)
  <2> SUFFICES ASSUME NEW j \in DOMAIN longer, NEW k \in DOMAIN longer, longer[j].mid # 0,
                      longer[j].from = longer[k].from, longer[j].mid = longer[k].mid
               PROVE  j = k
    BY DEF Once
  <2>1. CASE j \in 1..Len(log) /\ k \in 1..Len(log)
    BY <1>5, <2>1 DEF Accepted, Once
  <2>2. ASSUME NEW i \in 1..Len(log), longer[i].from = pq[1].from, longer[i].mid = pq[1].mid,
               pq[1].mid # 0
        PROVE  FALSE
    BY <1>5, <1>8, <2>2 DEF Accepted
  <2>3. CASE j = Len(log) + 1 /\ k = Len(log) + 1
    BY <2>3
  <2> QED BY <1>5, <2>1, <2>2, <2>3
<1>10. ASSUME NEW i \in DOMAIN pq', NEW k \in DOMAIN longer,
              pq'[i].mid # 0, pq'[i].from = longer[k].from
       PROVE  pq'[i].mid # longer[k].mid
  <2>1. PICK j \in 2..n : pq'[i] = pq[j]
    BY <1>7
  <2>2. CASE k \in 1..Len(log)
    BY <1>5, <1>8, <1>10, <2>1, <2>2 DEF Accepted
  <2>3. CASE k = Len(log) + 1
    BY <1>5, <1>8, <1>10, <2>1, <2>3 DEF Accepted, Once
  <2> QED BY <1>5, <2>2, <2>3
<1>11. \A i \in DOMAIN pq' : pq'[i].mid <= lastMsgId[pq'[i].from]
  BY <1>2, <1>7, <1>8 DEF Accepted
<1>12. \A k \in DOMAIN longer : longer[k].mid <= lastMsgId[longer[k].from]
  BY <1>2, <1>5, <1>8 DEF Accepted
<1> QED BY <1>2, <1>7, <1>9, <1>10, <1>11, <1>12 DEF Accepted

\* Only HandleChat accepts a line; what else is pushed is a notice.
LEMMA NextAccepted == IInv /\ Accepted /\ [Next]_vars => Accepted'
<1> SUFFICES ASSUME IInv, Accepted, [Next]_vars PROVE Accepted'
  OBVIOUS
<1>1. \A i \in Ids : lastMsgId[i] \in Nat
  BY DEF IInv, Types, LeaderType
<1>2. CASE UNCHANGED <<up, pq, log, lastMsgId>>
  BY <1>2 DEF Accepted
<1>3. CASE LeaderDies /\ UNCHANGED log
  BY <1>3 DEF LeaderDies, Accepted, Once
<1>4. ASSUME NEW c \in Clients, NEW t \in MessageTypes, up,
             pq' = PushHeap(pq, [type |-> t, from |-> c, mid |-> 0]),
             UNCHANGED <<log, lastMsgId>>
      PROVE  Accepted'
  <2> DEFINE m == [type |-> t, from |-> c, mid |-> 0]
  <2>1. m \in TypedMessages /\ m.mid = 0 /\ m.from \in Ids
    BY DEF TypedMessages, Ids
  <2> HIDE DEF m
  <2>2. \A i \in Ids : lastMsgId'[i] \in Nat /\ lastMsgId[i] <= lastMsgId'[i]
    BY <1>1, <1>4
  <2>3. m.mid <= lastMsgId'[m.from]
    BY <2>1, <2>2
  <2>4. pq' = PushHeap(pq, m) /\ log' = log /\ up
    BY <1>4 DEF m
  <2> QED BY <1>1, <2>1, <2>2, <2>3, <2>4, PushAccepted
<1>5. ASSUME WelcomeUser PROVE Accepted'
  <2>1. prod.id \in Clients
    BY <1>5 DEF WelcomeUser, IInv, Requested
  <2> QED BY <1>4, <1>5, <2>1 DEF WelcomeUser, MessageTypes
<1>6. ASSUME NEW c \in Clients, DeleteUser(c), up, UNCHANGED <<log, lastMsgId>>
      PROVE  Accepted'
  BY <1>4, <1>6 DEF DeleteUser, MessageTypes
<1>7. ASSUME HandleChat PROVE Accepted'
  <2> DEFINE r == Head(toLeader)
  <2>1. r.from \in Ids /\ r.mid \in Nat
    BY <1>7, NextRequest DEF HandleChat, IInv
  <2>2. up /\ ~(r.mid <= lastMsgId[r.from]) /\ log' = log
        /\ lastMsgId' = [lastMsgId EXCEPT ![r.from] = r.mid]
    BY <1>7 DEF HandleChat, Hears, Seen
  <2>3. PICK p : pq' = PushHeap(pq, [type |-> p, from |-> r.from, mid |-> r.mid])
    BY <1>7 DEF HandleChat
  <2> HIDE DEF r
  <2> DEFINE m == [type |-> p, from |-> r.from, mid |-> r.mid]
  <2>4. m.from = r.from /\ m.mid = r.mid
    OBVIOUS
  <2>5. m \in TypedMessages
    <3>1. pq' \in Seq(TypedMessages) /\ pq \in Seq(TypedMessages)
      BY <1>7, ProducerInv DEF Producer, IInv, Typed
    <3> QED BY <2>3, <3>1, PushedIsThere
  <2>6. lastMsgId \in [Ids -> Nat]
    BY DEF IInv, Types, LeaderType
  <2>7. \A i \in Ids : lastMsgId'[i] \in Nat /\ lastMsgId[i] <= lastMsgId'[i]
    BY <2>1, <2>2, <2>6
  <2>8. m.mid > lastMsgId[m.from] /\ m.mid <= lastMsgId'[m.from]
    BY <2>1, <2>2, <2>4, <2>6
  <2> HIDE DEF m
  <2> QED BY <1>1, <2>2, <2>3, <2>5, <2>7, <2>8, PushAccepted DEF m
<1>8. CASE Producer
  <2>1. CASE HandleDelete
    <3>1. Head(toLeader).from \in Clients
      BY <2>1, NextRequest DEF HandleDelete, IInv
    <3> QED BY <1>2, <1>6, <2>1, <3>1 DEF HandleDelete, Hears
  <2>2. CASE HandleDequeue
    BY <1>2, <1>3, <2>2 DEF HandleDequeue
  <2> QED BY <1>2, <1>5, <1>7, <1>8, <2>1, <2>2
          DEF Producer, ProducerWakes, HandleJoin, IgnoreOldChat, HandleInvalid, leaderVars
<1>9. CASE Consumer
  BY <1>2, <1>3, <1>9, PopAccepted DEF Consumer, NextRecipient, AdvanceErased, FinishMessage
<1>10. CASE LeaderTypes \/ LeaderQuits \/ \E c \in Clients : Suspect(c)
  BY <1>2, <1>3, <1>6, <1>10 DEF LeaderTypes, LeaderQuits, Suspect
<1>11. CASE \E c \in Clients : ClientStep(c)
  BY <1>2, <1>11 DEF ClientStep, Joiner, Receiver, Join, JoinTimeout, ReadList, MissList,
     SendChat, ExitChatroom, Crash, ReceiveChat, ReceiveAddUser, ReceiveDelete,
     ReceiveDequeue, ReceiveJoin, ReceiveList, leaderVars
<1>12. CASE Lose \/ Delay \/ Duplicate
  BY <1>2, <1>12, Disturbance DEF leaderVars, Outcome
<1>13. CASE UNCHANGED vars
  BY <1>2, <1>13 DEF vars, leaderVars
<1> QED BY <1>8, <1>9, <1>10, <1>11, <1>12, <1>13 DEF Next

\* However often a request is delivered and whoever is expelled in between, no
\* client shows a line twice: the producer's test against lastSeenMsgIdMap lets
\* it into the queue once, the heap does not repeat it, and the receiver shows
\* each number once.
THEOREM NoLineTwice == Spec => []NoChatTwice
<1>1. IInv /\ Accepted => NoChatTwice
  <2> SUFFICES ASSUME IInv, Accepted, NEW c \in Clients,
                      NEW i \in DOMAIN shown[c], NEW j \in DOMAIN shown[c],
                      shown[c][i].msg = shown[c][j].msg, shown[c][i].msg.mid # 0
               PROVE  i = j
    BY DEF NoChatTwice
  <2>1. shown[c] \in Seq(Lines(log))
    BY DEF IInv, Displayed
  <2>2. i \in Nat /\ j \in Nat /\ shown[c][i] \in Lines(log) /\ shown[c][j] \in Lines(log)
    <3> HIDE DEF Lines
    <3> QED BY <2>1
  <2>3. PICK k \in DOMAIN log : shown[c][i] = [seq |-> k, msg |-> log[k]]
    BY <2>2 DEF Lines
  <2>4. PICK l \in DOMAIN log : shown[c][j] = [seq |-> l, msg |-> log[l]]
    BY <2>2 DEF Lines
  <2>5. k = l
    BY <2>3, <2>4 DEF Accepted, Once
  <2>6. k \in Nat
    BY DEF IInv, Typed
  <2>7. ~(i < j) /\ ~(j < i)
    BY <2>3, <2>4, <2>5, <2>6 DEF IInv, Displayed
  <2> QED BY <2>2, <2>7
<1> QED BY <1>1, InitIInv, NextIInv, InitAccepted, NextAccepted, PTL DEF Spec
=============================================================================
