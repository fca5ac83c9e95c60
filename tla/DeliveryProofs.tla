---------------------------- MODULE DeliveryProofs ----------------------------
(****************************************************************************)
(* What comes to a client of Sequencer, for any number of clients.          *)
(*                                                                          *)
(* Faults happen here, and hurt only whom they happen to: the history       *)
(* faults says who suffered what.                                           *)
(*                                                                          *)
(* A DEQUEUE is sent for every line at most once, and while the line is in  *)
(* its sender's queue: a line is either on its way to the leader, waiting   *)
(* for its number, being multicast, or answered by the one DEQUEUE that is  *)
(* on its way back (Awaited).  Whatever the network does to the requests,   *)
(* and to others, only a repeated DEQUEUE can find the queue empty.         *)
(*                                                                          *)
(* A client in the room misses no number if none of its own datagrams is    *)
(* lost or late and it is not falsely suspected: what it has not shown is   *)
(* in its socket, the first copy of every number in order, or still before  *)
(* the consumer's iterator (Unbroken).                                      *)
(****************************************************************************)
EXTENDS SequencerProofs

------------------------------------------------------------------------------
(* Who suffers.                                                             *)

\* What somebody has suffered is not forgotten.
Remembered == \A i : Suffered(i) \subseteq Suffered(i)'

\* Only the network and the failure detector make faults.
LEMMA NextRemembers ==
  ASSUME IInv, [Next]_vars
  PROVE  Remembered
<1>0. faults \in Seq(Occurrences) /\ Clients \subseteq Ids /\ Leader \in Ids
  BY DEF IInv, Types, Ids
<1>1. CASE UNCHANGED faults
  BY <1>0, <1>1, Suffering DEF Remembered
<1>2. CASE Lose \/ Delay \/ Duplicate \/ \E c \in Clients : Suspect(c)
  <2>1. UNCHANGED faults \/ \E kind : \E i \in Ids : Fault(kind, i)
    BY <1>0, <1>2, Disturbance DEF Suspect
  <2> QED BY <1>0, <2>1, Suffering DEF Remembered
<1>3. CASE Producer
  BY <1>1, <1>3 DEF Producer, WelcomeUser, ProducerWakes, HandleJoin, IgnoreOldChat, HandleChat,
     HandleDelete, HandleDequeue, HandleInvalid
<1>4. CASE Consumer \/ LeaderTypes \/ LeaderQuits
  BY <1>1, <1>4 DEF Consumer, PopMessage, NextRecipient, AdvanceErased, FinishMessage,
     LeaderTypes, LeaderQuits
<1>5. CASE \E c \in Clients : ClientStep(c)
  BY <1>1, <1>5 DEF ClientStep, Joiner, Receiver, Join, JoinTimeout, ReadList, MissList,
     SendChat, ExitChatroom, Crash, ReceiveChat, ReceiveAddUser, ReceiveDelete,
     ReceiveDequeue, ReceiveJoin, ReceiveList
<1>6. CASE UNCHANGED vars
  BY <1>1, <1>6 DEF vars
<1> QED BY <1>2, <1>3, <1>4, <1>5, <1>6 DEF Next

------------------------------------------------------------------------------
(* One DEQUEUE per line.                                                    *)

\* What the leader queues: every line has an id, and a client's line is its
\* second message.
Numberable ==
  {m \in TypedMessages : /\ m.type >= CHAT => m.mid # 0
                         /\ m.from \in Clients => m.mid \in {0, 2}}

\* c's line has yet to be answered.
Asked(c)     == \E i \in DOMAIN toLeader : /\ toLeader[i].code = CHAT /\ toLeader[i].from = c
                                           /\ lastMsgId[c] < 2
Queued(c)    == \E i \in DOMAIN pq : pq[i].from = c /\ pq[i].mid # 0
Handled(c)   == con.pc \in {"mcast", "tail"} /\ con.msg.from = c /\ con.msg.mid # 0
Awaited(c)   == Asked(c) \/ Queued(c) \/ Handled(c)

\* Its answer is on its way.
Answered(c)  == \E i \in DOMAIN toClient[c] : toClient[c][i].code = DEQUEUE

Single(b) == \A i, j \in DOMAIN b : b[i].code = DEQUEUE /\ b[j].code = DEQUEUE => i = j

\* c's line is in its queue as long as it has not been answered, and there is
\* one answer to it unless the network has repeated something to c.
Owed(c) ==
  /\ Awaited(c) => c \in spoke /\ cq[c] = 1
  /\ Answered(c) => c \in spoke /\ ~Awaited(c)
  /\ c \notin spoke => cq[c] = 0
  /\ "duplicate" \notin Suffered(c) => Single(toClient[c]) /\ (Answered(c) => cq[c] = 1)

DInv ==
  /\ pq \in Seq(Numberable) /\ log \in Seq(Numberable)
  /\ con.pc = "tail" => up /\ seqNum \in DOMAIN log /\ con.msg = log[seqNum]
  /\ spoke \subseteq {c \in Clients : cst[c] = "in"}
  /\ \A c \in Clients : cst[c] # "gone" => Owed(c)
  /\ NoStrayDequeue

\* What is in t is in b, no more often.
Drawn(t, b) ==
  \E p \in [DOMAIN t -> DOMAIN b] :
    \A j \in DOMAIN t : t[j] = b[p[j]] /\ \A k \in DOMAIN t : p[j] = p[k] => j = k

\* What is where when the datagram at i is lost.
LEMMA WithoutAt ==
  ASSUME NEW S, NEW b \in Seq(S), NEW i \in DOMAIN b
  PROVE  LET w == Without(b, i)
             n == Len(b) IN
         /\ w \in Seq(S) /\ Len(w) = n - 1 /\ DOMAIN w = 1..(n - 1)
         /\ \A j \in 1..(n - 1) : w[j] = b[IF j < i THEN j ELSE j + 1]
<1> DEFINE w == Without(b, i)
           n == Len(b)
<1>0. n \in Nat /\ DOMAIN b = 1..n /\ i \in 1..n
  OBVIOUS
<1> DEFINE u == SubSeq(b, 1, i - 1)
           v == SubSeq(b, i + 1, n)
<1>1. /\ u \in Seq(S) /\ Len(u) = i - 1 /\ \A j \in 1..(i - 1) : u[j] = b[j]
  <2>1. \A j \in 1..(i - 1) : b[j] \in S
    BY <1>0
  <2> QED BY <1>0, <2>1, SubSeqProperties
<1>2. /\ v \in Seq(S) /\ Len(v) = n - i /\ \A j \in 1..(n - i) : v[j] = b[j + i]
  <2>1. \A j \in (i + 1)..n : b[j] \in S
    BY <1>0
  <2>2. v \in Seq(S) /\ Len(v) = n - i
    BY <1>0, <2>1, SubSeqProperties
  <2>3. \A j \in 1..(n - i) : v[j] = b[i + 1 + j - 1]
    BY <1>0, <2>1, SubSeqProperties
  <2>4. \A j \in 1..(n - i) : i + 1 + j - 1 = j + i
    BY <1>0
  <2> QED BY <2>2, <2>3, <2>4
<1>3. w = u \o v
  BY DEF Without
<1> HIDE DEF u, v, w, n
<1>4. w \in Seq(S) /\ Len(w) = Len(u) + Len(v) /\ Len(w) = n - 1
  BY <1>0, <1>1, <1>2, <1>3, ConcatProperties
<1>5. ASSUME NEW j \in 1..(n - 1) PROVE w[j] = b[IF j < i THEN j ELSE j + 1]
  <2>1. CASE j < i
    BY <1>0, <1>1, <1>2, <1>3, <1>5, <2>1
  <2>2. CASE ~(j < i)
    <3>1. j - (i - 1) \in 1..(n - i) /\ (j - (i - 1)) + i = j + 1
      BY <1>0, <1>5, <2>2
    <3>2. w[j] = v[j - Len(u)]
      BY <1>0, <1>1, <1>2, <1>3, <1>5, <2>2, ConcatProperties
    <3> QED BY <1>1, <1>2, <2>2, <3>1, <3>2
  <2> QED BY <2>1, <2>2
<1>6. DOMAIN w = 1..(n - 1)
  BY <1>0, <1>4
<1> QED BY <1>4, <1>5, <1>6 DEF w, n

\* What is read, lost or late leaves a buffer that holds nothing new.
LEMMA BufferDrawn ==
  ASSUME NEW S, NEW b \in Seq(S), NEW i \in DOMAIN b
  PROVE  Drawn(Tail(b), b) /\ Drawn(Without(b, i), b) /\ Drawn(Late(b, i), b)
<1> DEFINE w == Without(b, i)
           n == Len(b)
<1>1. n \in Nat /\ DOMAIN b = 1..n /\ i \in 1..n
  OBVIOUS
<1>2. /\ w \in Seq(S) /\ Len(w) = n - 1 /\ DOMAIN w = 1..(n - 1)
      /\ \A j \in 1..(n - 1) : w[j] = b[IF j < i THEN j ELSE j + 1]
  BY WithoutAt
<1>3. Drawn(Tail(b), b)
  <2>1. DOMAIN Tail(b) = 1..(n - 1) /\ \A j \in 1..(n - 1) : Tail(b)[j] = b[j + 1]
    BY <1>1
  <2> DEFINE p == [j \in 1..(n - 1) |-> j + 1]
  <2>2. p \in [DOMAIN Tail(b) -> DOMAIN b] /\ \A j \in DOMAIN Tail(b) : p[j] = j + 1
    BY <1>1, <2>1
  <2>3. \A j, k \in 1..(n - 1) : j + 1 = k + 1 => j = k
    BY <1>1
  <2> HIDE DEF p, n
  <2> QED BY <2>1, <2>2, <2>3 DEF Drawn
<1>4. Drawn(w, b)
  <2> DEFINE p == [j \in 1..(n - 1) |-> IF j < i THEN j ELSE j + 1]
  <2>1. p \in [DOMAIN w -> DOMAIN b]
    BY <1>1, <1>2
  <2>2. \A j, k \in 1..(n - 1) : p[j] = p[k] => j = k
    BY <1>1
  <2> HIDE DEF w
  <2> QED BY <1>2, <2>1, <2>2 DEF Drawn
<1>5. Drawn(Late(b, i), b)
  <2> DEFINE l == Late(b, i)
             p == [j \in 1..n |-> IF j = n THEN i ELSE IF j < i THEN j ELSE j + 1]
  <2>1. l = Append(w, b[i])
    BY DEF Late
  <2> HIDE DEF w, l, n
  <2>2. DOMAIN l = 1..n
    BY <1>1, <1>2, <2>1
  <2>3. \A j \in 1..n : l[j] = b[IF j = n THEN i ELSE IF j < i THEN j ELSE j + 1]
    <3> SUFFICES ASSUME NEW j \in 1..n
                 PROVE  l[j] = b[IF j = n THEN i ELSE IF j < i THEN j ELSE j + 1]
      OBVIOUS
    <3>1. CASE j = n
      BY <1>1, <1>2, <2>1, <3>1
    <3>2. CASE j # n
      <4>1. j \in 1..(n - 1) /\ l[j] = w[j]
        BY <1>1, <1>2, <2>1, <3>2
      <4> QED BY <1>2, <3>2, <4>1
    <3> QED BY <3>1, <3>2
  <2>4. p \in [DOMAIN l -> DOMAIN b]
    BY <1>1, <2>2
  <2>5. \A j, k \in 1..n : p[j] = p[k] => j = k
    <3> SUFFICES ASSUME NEW j \in 1..n, NEW k \in 1..n,
                        (IF j = n THEN i ELSE IF j < i THEN j ELSE j + 1)
                          = (IF k = n THEN i ELSE IF k < i THEN k ELSE k + 1)
                 PROVE  j = k
      OBVIOUS
    <3>1. j \in Int /\ k \in Int /\ i \in Int
      BY <1>1
    <3> QED BY <3>1
  <2>6. Drawn(l, b)
    BY <2>2, <2>3, <2>4, <2>5 DEF Drawn
  <2> QED BY <2>6 DEF l
<1> QED BY <1>3, <1>4, <1>5

\* What is drawn from a buffer was in it, and has at most one DEQUEUE if it had.
LEMMA DrawnHolds ==
  ASSUME NEW t, NEW b, Drawn(t, b)
  PROVE  /\ \A j \in DOMAIN t : \E k \in DOMAIN b : t[j] = b[k]
         /\ Single(b) => Single(t)
<1>1. PICK p \in [DOMAIN t -> DOMAIN b] :
        \A j \in DOMAIN t : t[j] = b[p[j]] /\ \A k \in DOMAIN t : p[j] = p[k] => j = k
  BY DEF Drawn
<1> QED BY <1>1 DEF Single

\* A line is no longer, or not yet, to be answered unless one of its requests,
\* queue entries or multicasts appears.
LEMMA AwaitedKept ==
  ASSUME NEW c \in Clients,
         \A i \in DOMAIN toLeader' :
           toLeader'[i].code = CHAT /\ toLeader'[i].from = c
             => \E j \in DOMAIN toLeader : toLeader'[i] = toLeader[j],
         lastMsgId'[c] < 2 => lastMsgId[c] < 2,
         \A i \in DOMAIN pq' :
           pq'[i].from = c /\ pq'[i].mid # 0 => \E j \in DOMAIN pq : pq'[i] = pq[j],
         Handled(c)' => Awaited(c)
  PROVE  Awaited(c)' => Awaited(c)
<1>1. Asked(c)' => Asked(c)
  BY DEF Asked
<1>2. Queued(c)' => Queued(c)
  BY DEF Queued
<1> QED BY <1>1, <1>2 DEF Awaited

\* What c is owed stays the same.
LEMMA OwedKept ==
  ASSUME NEW c \in Clients, Owed(c), Remembered,
         Awaited(c)' => Awaited(c), Answered(c)' => Answered(c),
         "duplicate" \notin Suffered(c)' /\ Single(toClient[c]) => Single(toClient'[c]),
         cq'[c] = cq[c], (c \in spoke') <=> (c \in spoke)
  PROVE  Owed(c)'
<1>1. "duplicate" \notin Suffered(c)' => "duplicate" \notin Suffered(c)
  BY DEF Remembered
<1> QED BY <1>1 DEF Owed

\* A datagram that is no DEQUEUE answers nothing.
LEMMA NotAnswered ==
  ASSUME NEW S, toClient \in [Clients -> Seq(S)], NEW c \in Clients, NEW d \in S,
         d.code # DEQUEUE, SendClient(c, d), NEW e \in Clients
  PROVE  /\ Answered(e)' => Answered(e)
         /\ Single(toClient[e]) => Single(toClient'[e])
<1> DEFINE b == toClient[e]
           t == toClient'[e]
<1>1. b \in Seq(S) /\ (t = b \/ t = Append(b, d))
  BY DEF SendClient
<1> HIDE DEF b, t
<1>2. \A i \in DOMAIN t : t[i].code = DEQUEUE => i \in DOMAIN b /\ t[i] = b[i]
  <2>1. CASE t = b
    BY <2>1
  <2>2. CASE t = Append(b, d)
    <3>1. \A i \in DOMAIN t : t[i] = d \/ (i \in DOMAIN b /\ t[i] = b[i])
      BY <1>1, <2>2
    <3> QED BY <3>1
  <2> QED BY <1>1, <2>1, <2>2
<1>3. (\E i \in DOMAIN t : t[i].code = DEQUEUE) => \E i \in DOMAIN b : b[i].code = DEQUEUE
  BY <1>2
<1>4. Single(b) => Single(t)
  BY <1>2 DEF Single
<1> QED BY <1>3, <1>4 DEF b, t, Answered

\* What a push and a pop leave in the queue.
LEMMA QueueHolds ==
  ASSUME NEW S, pq \in Seq(S)
  PROVE  /\ \A m \in S : pq' = PushHeap(pq, m) =>
              \A i \in DOMAIN pq' : pq'[i] = m \/ \E j \in DOMAIN pq : pq'[i] = pq[j]
         /\ pq # <<>> /\ pq' = PopHeap(pq) =>
              \A i \in DOMAIN pq' : \E j \in DOMAIN pq : pq'[i] = pq[j]
<1>1. ASSUME NEW m \in S, pq' = PushHeap(pq, m), NEW i \in DOMAIN pq'
      PROVE  pq'[i] = m \/ \E j \in DOMAIN pq : pq'[i] = pq[j]
  <2> DEFINE g == Append(pq, m)
  <2>1. Shuffles(pq', g)
    BY <1>1, PushShuffles
  <2>2. \A j \in DOMAIN g : g[j] = m \/ (j \in DOMAIN pq /\ g[j] = pq[j])
    OBVIOUS
  <2> HIDE DEF g
  <2>3. \E j \in DOMAIN g : pq'[i] = g[j]
    BY <1>1, <2>1, ShufflesOnce
  <2> QED BY <2>2, <2>3
<1>2. ASSUME pq # <<>>, pq' = PopHeap(pq), NEW i \in DOMAIN pq'
      PROVE  \E j \in DOMAIN pq : pq'[i] = pq[j]
  <2> DEFINE g == Tail(pq)
  <2>1. Shuffles(pq', g)
    BY <1>2, PopShuffles
  <2>2. \A j \in DOMAIN g : j + 1 \in DOMAIN pq /\ g[j] = pq[j + 1]
    BY <1>2
  <2> HIDE DEF g
  <2>3. \E j \in DOMAIN g : pq'[i] = g[j]
    BY <1>2, <2>1, ShufflesOnce
  <2> QED BY <2>2, <2>3
<1> QED BY <1>1, <1>2

\* A request that the producer has read is no longer on its way.
LEMMA HeardHolds ==
  ASSUME Requested, toLeader # <<>>, toLeader' = Tail(toLeader)
  PROVE  \A i \in DOMAIN toLeader' : \E j \in DOMAIN toLeader : toLeader'[i] = toLeader[j]
<1>1. \A i \in DOMAIN toLeader' : i + 1 \in DOMAIN toLeader /\ toLeader'[i] = toLeader[i + 1]
  BY DEF Requested
<1> QED BY <1>1

\* A notice is numberable, and answers no line.
LEMMA NoticeIsNumberable ==
  ASSUME NEW c \in Clients, NEW t \in {ADD_USER, DELETE}
  PROVE  [type |-> t, from |-> c, mid |-> 0] \in Numberable
<1> DEFINE m == [type |-> t, from |-> c, mid |-> 0]
<1>1. m.mid = 0 /\ m.type = t /\ m.from = c
  OBVIOUS
<1>2. m \in TypedMessages
  BY DEF TypedMessages, MessageTypes, Ids
<1>3. ~(m.type >= CHAT)
  BY DEF CHAT, ADD_USER, DELETE
<1> HIDE DEF m
<1>4. m \in Numberable
  BY <1>1, <1>2, <1>3 DEF Numberable
<1> QED BY <1>4 DEF m

\* When the leader dies no line is answered any more that has not been.
LEMMA LeaderDiesDInv ==
  ASSUME IInv, DInv, Remembered, LeaderDies, UNCHANGED <<log, clientVars, toClient>>
  PROVE  DInv'
<1> USE DEF clientVars
<1>1. ASSUME NEW c \in Clients, cst'[c] # "gone" PROVE Owed(c)'
  <2>1. ~Awaited(c)'
    BY DEF LeaderDies, Awaited, Asked, Queued, Handled, Idle
  <2>2. Answered(c)' => Answered(c)
    BY DEF Answered
  <2> QED BY <1>1, <2>1, <2>2, OwedKept DEF DInv, Owed
<1>2. pq' \in Seq(Numberable) /\ log' \in Seq(Numberable) /\ con'.pc = "pop"
  BY DEF LeaderDies, DInv, Idle
<1> QED BY <1>1, <1>2 DEF DInv, NoStrayDequeue, Remembered

\* A step of the leader's that answers no line.
LEMMA QuietDInv ==
  ASSUME DInv, Remembered, UNCHANGED clientVars,
         pq' \in Seq(Numberable), log' \in Seq(Numberable),
         con'.pc = "tail" => up' /\ seqNum' \in DOMAIN log' /\ con'.msg = log'[seqNum'],
         \A c \in Clients : /\ Awaited(c)' => Awaited(c)
                            /\ Answered(c)' => Answered(c)
                            /\ "duplicate" \notin Suffered(c)' /\ Single(toClient[c])
                                 => Single(toClient'[c])
  PROVE  DInv'
<1> USE DEF clientVars
<1>1. ASSUME NEW c \in Clients, cst'[c] # "gone" PROVE Owed(c)'
  BY <1>1, OwedKept DEF DInv
<1> QED BY <1>1 DEF DInv, NoStrayDequeue, Remembered

\* The producer turns what is asked for into what is queued.
LEMMA ProducerDInv ==
  ASSUME IInv, DInv, Remembered, Producer
  PROVE  DInv'
<1> USE DEF leaderVars, clientVars
<1> DEFINE r == Head(toLeader)
<1>0. /\ pq \in Seq(Numberable) /\ log \in Seq(Numberable) /\ Requested
      /\ con.pc = "tail" => up /\ seqNum \in DOMAIN log /\ con.msg = log[seqNum]
  BY DEF DInv, IInv
<1>1. ASSUME toLeader' = Tail(toLeader), toLeader # <<>>,
             UNCHANGED <<up, pq, log, seqNum, lastMsgId, con, clientVars, toClient>>
      PROVE  DInv'
  <2>1. ASSUME NEW c \in Clients PROVE Awaited(c)' => Awaited(c)
    <3>1. Handled(c)' => Awaited(c)
      BY <1>1 DEF Handled, Awaited
    <3> QED BY <1>0, <1>1, <3>1, HeardHolds, AwaitedKept
  <2>2. \A c \in Clients : Answered(c)' => Answered(c)
    BY <1>1 DEF Answered
  <2> QED BY <1>0, <1>1, <2>1, <2>2, QuietDInv
<1>2. ASSUME NEW x \in Clients, DeleteUser(x), toLeader' = Tail(toLeader), toLeader # <<>>,
             UNCHANGED <<up, log, seqNum, lastMsgId, clientVars, toClient>>
      PROVE  DInv'
  <2> DEFINE m == [type |-> DELETE, from |-> x, mid |-> 0]
  <2>1. m \in Numberable /\ m.mid = 0
    BY NoticeIsNumberable
  <2>2. pq' = PushHeap(pq, m) /\ con'.pc = con.pc /\ con'.msg = con.msg
    BY <1>2 DEF DeleteUser, IInv, Types, ThreadType
  <2> HIDE DEF m
  <2>3. pq' \in Seq(Numberable)
    BY <1>0, <2>1, <2>2, PushHeapType
  <2>4. ASSUME NEW c \in Clients PROVE Awaited(c)' => Awaited(c)
    <3>1. Handled(c)' => Awaited(c)
      BY <2>2 DEF Handled, Awaited
    <3>2. \A i \in DOMAIN pq' : pq'[i].mid # 0 => \E j \in DOMAIN pq : pq'[i] = pq[j]
      BY <1>0, <2>1, <2>2, QueueHolds
    <3> QED BY <1>0, <1>2, <3>1, <3>2, HeardHolds, AwaitedKept
  <2>5. \A c \in Clients : Answered(c)' => Answered(c)
    BY <1>2 DEF Answered
  <2> QED BY <1>0, <1>2, <2>2, <2>3, <2>4, <2>5, QuietDInv
<1>3. ASSUME WelcomeUser PROVE DInv'
  <2> DEFINE m == [type |-> ADD_USER, from |-> prod.id, mid |-> 0]
             d == UserList(chatRoom)
  <2>1. prod.id \in Clients /\ chatRoom \in SUBSET Ids
    BY <1>3 DEF WelcomeUser, IInv, Requested, Types, LeaderType
  <2>2. m \in Numberable /\ m.mid = 0
    BY <2>1, NoticeIsNumberable
  <2>3. d \in SentDatagrams(log) /\ d.code # DEQUEUE
    BY <2>1 DEF UserList, SentDatagrams, DEQUEUE, LIST_OF_USERS
  <2>4. /\ pq' = PushHeap(pq, m) /\ SendClient(prod.id, d)
        /\ UNCHANGED <<up, log, seqNum, con, lastMsgId, clientVars, toLeader>>
    BY <1>3 DEF WelcomeUser
  <2> HIDE DEF m, d
  <2>5. pq' \in Seq(Numberable)
    BY <1>0, <2>2, <2>4, PushHeapType
  <2>6. ASSUME NEW c \in Clients PROVE Awaited(c)' => Awaited(c)
    <3>1. Handled(c)' => Awaited(c)
      BY <2>4 DEF Handled, Awaited
    <3>2. \A i \in DOMAIN pq' : pq'[i].mid # 0 => \E j \in DOMAIN pq : pq'[i] = pq[j]
      BY <1>0, <2>2, <2>4, QueueHolds
    <3> QED BY <2>4, <3>1, <3>2, AwaitedKept
  <2>7. \A c \in Clients : /\ Answered(c)' => Answered(c)
                           /\ Single(toClient[c]) => Single(toClient'[c])
    BY <2>1, <2>3, <2>4, NotAnswered DEF IInv, Sent
  <2> QED BY <1>0, <2>4, <2>5, <2>6, <2>7, QuietDInv
<1>4. ASSUME HandleChat PROVE DInv'
  <2>1. /\ r.from \in Ids /\ r.mid \in Nat /\ (r.from \in Clients => r.mid = 2)
        /\ r.code = CHAT
    BY <1>0, <1>4, NextRequest DEF HandleChat
  <2>2. /\ ~(r.mid <= lastMsgId[r.from]) /\ toLeader # <<>> /\ toLeader' = Tail(toLeader)
        /\ lastMsgId' = [lastMsgId EXCEPT ![r.from] = r.mid]
        /\ UNCHANGED <<up, seqNum, con, log, clientVars, toClient>>
    BY <1>4 DEF HandleChat, Hears, Seen
  <2>3. PICK p : pq' = PushHeap(pq, [type |-> p, from |-> r.from, mid |-> r.mid])
    BY <1>4 DEF HandleChat
  <2>4. 1 \in DOMAIN toLeader /\ r = toLeader[1]
    BY <1>0, <2>2 DEF Requested
  <2> HIDE DEF r
  <2> DEFINE m == [type |-> p, from |-> r.from, mid |-> r.mid]
  <2>5. m.from = r.from /\ m.mid = r.mid
    OBVIOUS
  <2>6. m \in TypedMessages
    <3>1. pq' \in Seq(TypedMessages) /\ pq \in Seq(TypedMessages)
      BY <1>4, ProducerInv DEF Producer, IInv, Typed
    <3> QED BY <2>3, <3>1, PushedIsThere
  <2>7. lastMsgId \in [Ids -> Nat] /\ pq' = PushHeap(pq, m)
    BY <2>3 DEF IInv, Types, LeaderType
  <2> HIDE DEF m
  <2>8. m.mid # 0
    BY <2>1, <2>2, <2>5, <2>7
  <2>9. m \in Numberable
    BY <2>1, <2>5, <2>6, <2>8 DEF Numberable
  <2>10. pq' \in Seq(Numberable)
    BY <1>0, <2>7, <2>9, PushHeapType
  <2>11. ASSUME NEW c \in Clients PROVE Awaited(c)' => Awaited(c)
    <3>1. CASE c = r.from
      <4>1. lastMsgId[c] < 2
        BY <2>1, <2>2, <2>7, <3>1
      <4> QED BY <2>1, <2>4, <3>1, <4>1 DEF Awaited, Asked
    <3>2. CASE c # r.from
      <4>1. Handled(c)' => Awaited(c)
        BY <2>2 DEF Handled, Awaited
      <4>2. \A i \in DOMAIN pq' : pq'[i].from = c => \E j \in DOMAIN pq : pq'[i] = pq[j]
        BY <1>0, <2>5, <2>7, <2>9, <3>2, QueueHolds
      <4>3. lastMsgId'[c] = lastMsgId[c]
        BY <2>1, <2>2, <2>7, <3>2
      <4> QED BY <1>0, <2>2, <4>1, <4>2, <4>3, HeardHolds, AwaitedKept
    <3> QED BY <3>1, <3>2
  <2>12. \A c \in Clients : Answered(c)' => Answered(c)
    BY <2>2 DEF Answered
  <2> QED BY <1>0, <2>2, <2>10, <2>11, <2>12, QuietDInv
<1>5. CASE HandleDelete
  <2>1. Head(toLeader).from \in Clients /\ toLeader # <<>>
    BY <1>0, <1>5, NextRequest DEF HandleDelete, Hears
  <2> QED BY <1>1, <1>2, <1>5, <2>1 DEF HandleDelete
<1>6. CASE HandleDequeue
  <2>1. CASE LeaderDies
    BY <1>6, <2>1, LeaderDiesDInv DEF HandleDequeue
  <2> QED BY <1>1, <1>6, <2>1 DEF HandleDequeue, Hears
<1>7. CASE ProducerWakes
  <2>1. \A c \in Clients : (Awaited(c)' => Awaited(c)) /\ (Answered(c)' => Answered(c))
    BY <1>7 DEF ProducerWakes, Awaited, Asked, Queued, Handled, Answered
  <2> QED BY <1>0, <1>7, <2>1, QuietDInv DEF ProducerWakes
<1>8. CASE HandleJoin \/ IgnoreOldChat \/ HandleInvalid
  BY <1>1, <1>8 DEF HandleJoin, IgnoreOldChat, HandleInvalid, Hears
<1> QED BY <1>3, <1>4, <1>5, <1>6, <1>7, <1>8 DEF Producer

\* The consumer answers a line when it has multicast it, and then nothing of
\* the line is left.
LEMMA FinishDInv ==
  ASSUME IInv, Accepted, DInv, Remembered, FinishMessage
  PROVE  DInv'
<1> USE DEF clientVars
<1> DEFINE m == con.msg
<1>0. /\ pq \in Seq(Numberable) /\ log \in Seq(Numberable)
      /\ up /\ con.pc = "tail" /\ seqNum \in DOMAIN log /\ m = log[seqNum]
      /\ con' = Idle
      /\ UNCHANGED <<up, pq, log, seqNum, lastMsgId, clientVars>>
  BY DEF FinishMessage, DInv
<1>1. m \in Numberable /\ m.from \in Ids
  BY <1>0 DEF Numberable, TypedMessages
<1> PICK x \in Ids : x = m.from
  BY <1>1
<1>2. ASSUME UNCHANGED toClient PROVE DInv'
  <2>1. ASSUME NEW c \in Clients PROVE Awaited(c)' => Awaited(c)
    <3>1. ~Handled(c)'
      BY <1>0 DEF Handled, Idle
    <3>2. toLeader' = toLeader \/ (toLeader \in Seq(SentRequests)
                                   /\ toLeader' = Append(toLeader, Request(DEQUEUE, Leader, 0)))
      BY <1>2 DEF FinishMessage, SendLeader, IInv, Requested
    <3>3. \A i \in DOMAIN toLeader' : toLeader'[i].code = CHAT =>
            \E j \in DOMAIN toLeader : toLeader'[i] = toLeader[j]
      <4>1. Request(DEQUEUE, Leader, 0).code # CHAT
        BY DEF Request, DEQUEUE, CHAT
      <4> QED BY <3>2, <4>1
    <3> QED BY <1>0, <3>1, <3>3, AwaitedKept
  <2>2. \A c \in Clients : Answered(c)' => Answered(c)
    BY <1>2 DEF Answered
  <2>3. con'.pc # "tail"
    BY <1>0 DEF Idle
  <2> QED BY <1>0, <1>2, <2>1, <2>2, <2>3, QuietDInv
<1>3. ASSUME x \in Clients, m.type >= CHAT, SendClient(x, Dequeue), UNCHANGED toLeader,
             cst[x] \in {"joining", "in"}
      PROVE  DInv'
  <2>1. m.mid = 2
    BY <1>1, <1>3 DEF Numberable
  <2>2. Owed(x) /\ Awaited(x)
    BY <1>0, <1>3, <2>1 DEF Handled, Awaited, DInv
  <2>3. ~Awaited(x)'
    <3>1. ~Asked(x)'
      <4>1. lastMsgId[x] \in Nat /\ 2 <= lastMsgId[x]
        BY <1>0, <1>1, <2>1 DEF Accepted, IInv, Types, LeaderType
      <4> QED BY <1>0, <4>1 DEF Asked
    <3>2. ~Queued(x)'
      <4> SUFFICES ASSUME NEW i \in DOMAIN pq, pq[i].from = x, pq[i].mid # 0 PROVE FALSE
        BY <1>0 DEF Queued
      <4>1. pq[i].mid = 2
        BY <1>0, <1>3 DEF Numberable
      <4> QED BY <1>0, <2>1, <4>1 DEF Accepted
    <3>3. ~Handled(x)'
      BY <1>0 DEF Handled, Idle
    <3> QED BY <3>1, <3>2, <3>3 DEF Awaited
  <2>4. ASSUME NEW c \in Clients, cst'[c] # "gone" PROVE Owed(c)'
    <3>1. CASE c = x
      <4> DEFINE b == toClient[x]
      <4>1. b \in Seq(SentDatagrams(log)) /\ toClient'[x] = Append(b, Dequeue)
        BY <1>3 DEF SendClient, IInv, Sent
      <4>2. \A i \in DOMAIN b : b[i].code # DEQUEUE
        BY <2>2 DEF Owed, Answered
      <4> HIDE DEF b
      <4>3. Single(toClient'[x])
        BY <4>1, <4>2 DEF Single
      <4>4. x \in spoke /\ cq[x] = 1
        BY <2>2 DEF Owed
      <4> QED BY <1>0, <2>3, <3>1, <4>3, <4>4 DEF Owed
    <3>2. CASE c # x
      <4>1. ~Handled(c)' /\ (Awaited(c)' => Awaited(c))
        BY <1>0, <1>3 DEF Awaited, Asked, Queued, Handled, Idle
      <4>2. toClient'[c] = toClient[c]
        BY <1>3, <3>2 DEF SendClient, IInv, Sent
      <4> QED BY <1>0, <2>4, <4>1, <4>2, OwedKept DEF Answered, DInv, Owed
    <3> QED BY <3>1, <3>2
  <2>5. con'.pc # "tail"
    BY <1>0 DEF Idle
  <2> QED BY <1>0, <2>4, <2>5 DEF DInv, NoStrayDequeue, Remembered
<1>4. CASE UNCHANGED toClient
  BY <1>2, <1>4
<1>5. CASE /\ DequeueWanted(m) /\ x # Leader /\ SendClient(x, Dequeue)
           /\ UNCHANGED toLeader /\ ~UNCHANGED toClient
  <2>1. x \in Clients /\ cst[x] \in {"joining", "in"}
    BY <1>1, <1>5 DEF Ids, SendClient
  <2>2. m.type >= CHAT
    BY <1>5 DEF DequeueWanted, IsChat, CHAT
  <2> QED BY <1>3, <1>5, <2>1, <2>2
<1> QED BY <1>4, <1>5 DEF FinishMessage

\* The consumer's other steps multicast what has been queued.
LEMMA ConsumerDInv ==
  ASSUME IInv, Accepted, DInv, Remembered, Consumer
  PROVE  DInv'
<1> USE DEF clientVars
<1>0. /\ pq \in Seq(Numberable) /\ log \in Seq(Numberable)
      /\ con.pc = "mcast" => up /\ seqNum \in DOMAIN log /\ con.msg = log[seqNum]
  BY DEF DInv, IInv, Numbered
<1>1. ASSUME PopMessage PROVE DInv'
  <2>1. pq # <<>> /\ pq' = PopHeap(pq)
        /\ UNCHANGED <<up, lastMsgId, clientVars, toLeader, toClient>>
        /\ log' = Append(log, pq[1]) /\ con'.pc = "mcast" /\ con'.msg = pq[1]
    BY <1>1 DEF PopMessage
  <2>2. 1 \in DOMAIN pq /\ pq[1] \in Numberable
    BY <1>0, <2>1
  <2>3. pq' \in Seq(Numberable) /\ log' \in Seq(Numberable)
    BY <1>0, <2>1, <2>2, PopHeapType
  <2>4. ASSUME NEW c \in Clients PROVE Awaited(c)' => Awaited(c)
    <3>1. Handled(c)' => Awaited(c)
      BY <2>1, <2>2 DEF Handled, Queued, Awaited
    <3>2. \A i \in DOMAIN pq' : \E j \in DOMAIN pq : pq'[i] = pq[j]
      BY <1>0, <2>1, QueueHolds
    <3> QED BY <2>1, <3>1, <3>2, AwaitedKept
  <2>5. \A c \in Clients : Answered(c)' => Answered(c)
    BY <2>1 DEF Answered
  <2> QED BY <2>1, <2>3, <2>4, <2>5, QuietDInv
<1>2. ASSUME con.pc = "mcast", con'.msg = con.msg,
             UNCHANGED <<up, seqNum, lastMsgId, pq, log, clientVars, toLeader>>,
             (\E x \in Clients : SendClient(x, Multicast(con.msg, seqNum))) \/ UNCHANGED toClient
      PROVE  DInv'
  <2>1. ASSUME NEW c \in Clients PROVE Awaited(c)' => Awaited(c)
    <3>1. Handled(c)' => Awaited(c)
      BY <1>2 DEF Handled, Awaited
    <3> QED BY <1>2, <3>1, AwaitedKept
  <2>2. Multicast(con.msg, seqNum) \in SentDatagrams(log)
    BY <1>0, <1>2 DEF SentDatagrams
  <2>3. Multicast(con.msg, seqNum).code # DEQUEUE
    <3>1. con.msg.type \in MessageTypes
      BY <1>0, <1>2 DEF Numberable, TypedMessages
    <3> QED BY <3>1 DEF Multicast, MessageTypes, DEQUEUE, JOIN, ADD_USER, DELETE, CHAT
  <2>4. ASSUME NEW c \in Clients
        PROVE  /\ Answered(c)' => Answered(c)
               /\ Single(toClient[c]) => Single(toClient'[c])
    <3>1. CASE UNCHANGED toClient
      BY <3>1 DEF Answered
    <3>2. ASSUME NEW x \in Clients, SendClient(x, Multicast(con.msg, seqNum))
          PROVE  /\ Answered(c)' => Answered(c)
                 /\ Single(toClient[c]) => Single(toClient'[c])
      BY <2>2, <2>3, <3>2, NotAnswered DEF IInv, Sent
    <3> QED BY <1>2, <3>1, <3>2
  <2> QED BY <1>0, <1>2, <2>1, <2>4, QuietDInv
<1>3. \A c \in Others : c \in Clients
  BY DEF Others, IInv, Types, LeaderType, Ids
<1>4. /\ \A c \in Others : SendTo(c) => con'.msg = con.msg
      /\ EndLoop => con'.msg = con.msg
  BY DEF SendTo, EndLoop, IInv, Types, ThreadType
<1>5. CASE NextRecipient
  BY <1>2, <1>3, <1>4, <1>5 DEF NextRecipient, SendTo
<1>6. CASE AdvanceErased
  <2>1. CASE LeaderDies /\ UNCHANGED toClient
    BY <1>6, <2>1, LeaderDiesDInv DEF AdvanceErased
  <2> QED BY <1>2, <1>3, <1>4, <1>6, <2>1 DEF AdvanceErased, SendTo
<1> QED BY <1>1, <1>5, <1>6, FinishDInv DEF Consumer

\* The leader's user and its failure detector answer no client's line.
LEMMA LeaderDInv ==
  ASSUME IInv, DInv, Remembered, LeaderTypes \/ LeaderQuits \/ \E c \in Clients : Suspect(c)
  PROVE  DInv'
<1> USE DEF clientVars
<1>0. /\ pq \in Seq(Numberable) /\ log \in Seq(Numberable) /\ toLeader \in Seq(SentRequests)
      /\ con.pc = "tail" => up /\ seqNum \in DOMAIN log /\ con.msg = log[seqNum]
  BY DEF DInv, IInv, Requested
<1>1. CASE LeaderTypes
  <2> DEFINE r == Request(CHAT, Leader, typed + 1)
  <2>1. toLeader' = Append(toLeader, r) \/ toLeader' = toLeader
    BY <1>1 DEF LeaderTypes, SendLeader
  <2>2. r.from \notin Clients
    BY SequencerAssumption DEF Request
  <2> HIDE DEF r
  <2>3. \A i \in DOMAIN toLeader' : toLeader'[i].from \in Clients =>
          \E j \in DOMAIN toLeader : toLeader'[i] = toLeader[j]
    BY <1>0, <2>1, <2>2
  <2>4. UNCHANGED <<up, seqNum, lastMsgId, pq, con, log, clientVars, toClient>>
    BY <1>1 DEF LeaderTypes
  <2>5. \A c \in Clients : (Awaited(c)' => Awaited(c)) /\ (Answered(c)' => Answered(c))
    <3> SUFFICES ASSUME NEW c \in Clients
                 PROVE  (Awaited(c)' => Awaited(c)) /\ (Answered(c)' => Answered(c))
      OBVIOUS
    <3>1. Handled(c)' => Awaited(c)
      BY <2>4 DEF Handled, Awaited
    <3> QED BY <2>3, <2>4, <3>1, AwaitedKept DEF Answered
  <2> QED BY <1>0, <2>4, <2>5, QuietDInv
<1>2. CASE LeaderQuits
  BY <1>2, LeaderDiesDInv DEF LeaderQuits
<1>3. ASSUME NEW x \in Clients, Suspect(x) PROVE DInv'
  <2>1. CASE LeaderDies
    BY <1>3, <2>1, LeaderDiesDInv DEF Suspect
  <2>2. CASE DeleteUser(x) /\ UNCHANGED <<up, lastMsgId, seqNum, toLeader>>
    <3> DEFINE m == [type |-> DELETE, from |-> x, mid |-> 0]
    <3>1. m \in Numberable /\ m.mid = 0
      BY NoticeIsNumberable
    <3>2. pq' = PushHeap(pq, m) /\ con'.pc = con.pc /\ con'.msg = con.msg
      BY <2>2 DEF DeleteUser, IInv, Types, ThreadType
    <3>3. UNCHANGED <<log, clientVars, toClient>>
      BY <1>3 DEF Suspect
    <3> HIDE DEF m
    <3>4. pq' \in Seq(Numberable)
      BY <1>0, <3>1, <3>2, PushHeapType
    <3>5. ASSUME NEW c \in Clients PROVE Awaited(c)' => Awaited(c)
      <4>1. Handled(c)' => Awaited(c)
        BY <3>2 DEF Handled, Awaited
      <4>2. \A i \in DOMAIN pq' : pq'[i].mid # 0 => \E j \in DOMAIN pq : pq'[i] = pq[j]
        BY <1>0, <3>1, <3>2, QueueHolds
      <4> QED BY <2>2, <4>1, <4>2, AwaitedKept
    <3>6. \A c \in Clients : Answered(c)' => Answered(c)
      BY <3>3 DEF Answered
    <3> QED BY <1>0, <2>2, <3>2, <3>3, <3>4, <3>5, <3>6, QuietDInv
  <2> QED BY <1>3, <2>1, <2>2 DEF Suspect
<1> QED BY <1>1, <1>2, <1>3

\* What others than e's sender thread send does not make a line of e's.
LEMMA OthersSend ==
  ASSUME IInv, NEW e \in Clients, UNCHANGED leaderVars,
         toLeader' = toLeader
           \/ \E r : (r.code # CHAT \/ r.from # e) /\ SendLeader(r)
  PROVE  Awaited(e)' => Awaited(e)
<1> USE DEF leaderVars
<1>0. toLeader \in Seq(SentRequests)
  BY DEF IInv, Requested
<1>1. ASSUME NEW r, r.code # CHAT \/ r.from # e, SendLeader(r),
             NEW i \in DOMAIN toLeader', toLeader'[i].code = CHAT, toLeader'[i].from = e
      PROVE  \E j \in DOMAIN toLeader : toLeader'[i] = toLeader[j]
  <2>1. toLeader' = toLeader \/ toLeader' = Append(toLeader, r)
    BY <1>1 DEF SendLeader
  <2>2. toLeader'[i] = r \/ (i \in DOMAIN toLeader /\ toLeader'[i] = toLeader[i])
    BY <1>0, <1>1, <2>1
  <2> QED BY <1>1, <2>2
<1>2. Handled(e)' => Awaited(e)
  BY DEF Handled, Awaited
<1> QED BY <1>1, <1>2, AwaitedKept

\* A client's own step leaves the leader, and what the other clients are owed,
\* as they are.
LEMMA ClientStepDInv ==
  ASSUME IInv, DInv, Remembered, NEW c \in Clients, UNCHANGED leaderVars,
         \A e \in Clients \ {c} :
           /\ cst'[e] = cst[e] /\ toClient'[e] = toClient[e] /\ cq'[e] = cq[e]
           /\ (e \in spoke') <=> (e \in spoke)
           /\ Awaited(e)' => Awaited(e),
         cst'[c] # "gone" => Owed(c)', c \in spoke' => cst'[c] = "in",
         spoke' \subseteq Clients, \A e \in stuck' : e \in stuck \/ "duplicate" \in Suffered(e)
  PROVE  DInv'
<1> USE DEF leaderVars
<1>1. ASSUME NEW e \in Clients, cst'[e] # "gone" PROVE Owed(e)'
  BY <1>1, OwedKept DEF DInv, Answered, Owed
<1>2. spoke' \subseteq {e \in Clients : cst'[e] = "in"}
  BY DEF DInv
<1> QED BY <1>1, <1>2 DEF DInv, NoStrayDequeue, Remembered

\* A client that leaves is owed nothing.
LEMMA LeavesDInv ==
  ASSUME IInv, DInv, Remembered, NEW c \in Clients, Leaves(c), UNCHANGED leaderVars,
         UNCHANGED toLeader \/ SendLeader(Request(DELETE, c, 0))
  PROVE  DInv'
<1>1. ASSUME NEW e \in Clients PROVE Awaited(e)' => Awaited(e)
  <2>1. Request(DELETE, c, 0).code # CHAT
    BY DEF Request, DELETE, CHAT
  <2> QED BY <2>1, OthersSend
<1>2. \A e \in Clients \ {c} :
        /\ cst'[e] = cst[e] /\ toClient'[e] = toClient[e] /\ cq'[e] = cq[e]
        /\ (e \in spoke') <=> (e \in spoke)
  BY DEF Leaves, IInv, Types, ClientType, Sent
<1>3. cst'[c] = "gone" /\ c \notin spoke' /\ spoke' \subseteq Clients /\ stuck' \subseteq stuck
  BY DEF Leaves, IInv, Types, ClientType
<1> QED BY <1>1, <1>2, <1>3, ClientStepDInv

\* Reading what is no DEQUEUE leaves a client what it is owed.
LEMMA ReceivesDInv ==
  ASSUME IInv, DInv, Remembered, NEW c \in Clients, Receives(c), cst[c] # "gone", cst'[c] # "gone",
         UNCHANGED <<leaderVars, cq, spoke, stuck>>,
         \A e \in Clients \ {c} : cst'[e] = cst[e],
         c \in spoke => cst'[c] = "in",
         UNCHANGED toLeader \/ \E r : r.code # CHAT /\ SendLeader(r)
  PROVE  DInv'
<1>1. \A e \in Clients : Awaited(e)' => Awaited(e)
  BY OthersSend
<1>2. (Answered(c)' => Answered(c)) /\ (Single(toClient[c]) => Single(toClient'[c]))
  <2>1. /\ toClient[c] \in Seq(SentDatagrams(log)) /\ 1 \in DOMAIN toClient[c]
        /\ toClient'[c] = Tail(toClient[c])
    BY DEF Receives, IInv, Sent
  <2>2. Drawn(toClient'[c], toClient[c])
    BY <2>1, BufferDrawn
  <2> QED BY <2>2, DrawnHolds DEF Answered
<1>3. Owed(c)'
  BY <1>1, <1>2, OwedKept DEF DInv
<1>4. \A e \in Clients \ {c} : toClient'[e] = toClient[e]
  BY DEF Receives, IInv, Sent
<1> QED BY <1>1, <1>3, <1>4, ClientStepDInv DEF DInv, IInv, Types, ClientType

\* A DEQUEUE that the network has not repeated finds the line it is for in the
\* queue, and no other follows.
LEMMA ReceiveDequeueDInv ==
  ASSUME IInv, DInv, Remembered, NEW c \in Clients, ReceiveDequeue(c)
  PROVE  DInv'
<1> DEFINE b == toClient[c]
<1>1. /\ b \in Seq(SentDatagrams(log)) /\ b # <<>> /\ 1 \in DOMAIN b /\ b[1].code = DEQUEUE
      /\ toClient'[c] = Tail(b) /\ cst[c] = "in"
      /\ \A e \in Clients \ {c} : toClient'[e] = toClient[e]
      /\ UNCHANGED <<leaderVars, cst, spoke, toLeader>>
  BY DEF ReceiveDequeue, Hearing, Receives, NextCode, IInv, Sent
<1>2. Owed(c) /\ Answered(c)
  BY <1>1 DEF DInv, Answered
<1>3. c \in spoke /\ ~Awaited(c) /\ ("duplicate" \notin Suffered(c) => cq[c] = 1 /\ Single(b))
  BY <1>2 DEF Owed
<1>4. /\ \A e \in stuck' : e \in stuck \/ (e = c /\ cq[c] # 1)
      /\ \A e \in Clients \ {c} : cq'[e] = cq[e]
  BY DEF ReceiveDequeue, IInv, Types, ClientType
<1>5. \A e \in Clients : Awaited(e)' => Awaited(e)
  BY <1>1, OthersSend
<1> HIDE DEF b
<1>6. ASSUME "duplicate" \notin Suffered(c)
      PROVE  \A i \in DOMAIN Tail(b) : Tail(b)[i].code # DEQUEUE
  <2> SUFFICES ASSUME NEW i \in DOMAIN Tail(b), Tail(b)[i].code = DEQUEUE PROVE FALSE
    OBVIOUS
  <2>1. i + 1 \in DOMAIN b /\ Tail(b)[i] = b[i + 1] /\ i + 1 # 1
    BY <1>1
  <2> QED BY <1>1, <1>3, <1>6, <2>1 DEF Single
<1>7. Owed(c)'
  <2>1. "duplicate" \notin Suffered(c)' => ~Answered(c)' /\ Single(toClient'[c])
    BY <1>1, <1>6 DEF Answered, Single, Remembered
  <2>2. ~Awaited(c)' /\ c \in spoke'
    BY <1>1, <1>3, <1>5
  <2> QED BY <2>1, <2>2 DEF Owed
<1>8. \A e \in stuck' : e \in stuck \/ "duplicate" \in Suffered(e)
  BY <1>3, <1>4
<1> QED BY <1>1, <1>4, <1>5, <1>7, <1>8, ClientStepDInv DEF DInv, IInv, Types, ClientType

\* A client is owed an answer from when it speaks.
LEMMA SendChatDInv ==
  ASSUME IInv, DInv, Remembered, NEW c \in Clients, SendChat(c)
  PROVE  DInv'
<1> DEFINE r == Request(CHAT, c, 2)
<1>1. /\ cst[c] = "in" /\ c \notin spoke /\ spoke' = spoke \cup {c}
      /\ cq' = [cq EXCEPT ![c] = @ + 1] /\ SendLeader(r)
      /\ UNCHANGED <<leaderVars, cst, stuck, toClient>>
  BY DEF SendChat
<1>2. Owed(c)
  BY <1>1 DEF DInv
<1>3. ~Answered(c) /\ cq[c] = 0 /\ ("duplicate" \notin Suffered(c) => Single(toClient[c]))
  BY <1>1, <1>2 DEF Owed
<1>4. cq'[c] = 1 /\ c \in spoke' /\ \A e \in Clients \ {c} : cq'[e] = cq[e]
  BY <1>1, <1>3 DEF IInv, Types, ClientType
<1>5. ASSUME NEW e \in Clients \ {c} PROVE Awaited(e)' => Awaited(e)
  <2>1. r.from # e
    BY DEF Request
  <2> QED BY <1>1, <2>1, OthersSend
<1>6. Owed(c)'
  BY <1>1, <1>3, <1>4 DEF Owed, Answered, Remembered
<1> QED BY <1>1, <1>4, <1>5, <1>6, ClientStepDInv DEF DInv, IInv, Types, ClientType

\* The other steps of a client.
LEMMA ClientDInv ==
  ASSUME IInv, DInv, Remembered, NEW c \in Clients, ClientStep(c)
  PROVE  DInv'
<1> USE DEF IInv, Types, ClientType
<1>1. CASE Join(c)
  <2>1. /\ cst[c] = "out" /\ cst' = [cst EXCEPT ![c] = "joining"]
        /\ SendLeader(Request(JOIN, c, 1))
        /\ UNCHANGED <<leaderVars, cq, spoke, stuck, toClient>>
    BY <1>1 DEF Join
  <2>2. ASSUME NEW e \in Clients PROVE Awaited(e)' => Awaited(e)
    <3>1. Request(JOIN, c, 1).code # CHAT
      BY DEF Request, JOIN, CHAT
    <3> QED BY <2>1, <3>1, OthersSend
  <2>3. Owed(c)'
    BY <2>1, <2>2, OwedKept DEF DInv, Answered
  <2>4. c \notin spoke
    BY <2>1 DEF DInv
  <2>5. \A e \in Clients \ {c} : cst'[e] = cst[e]
    BY <2>1
  <2> QED BY <2>1, <2>2, <2>3, <2>4, <2>5, ClientStepDInv
<1>2. CASE ReadList(c)
  BY <1>2, ReceivesDInv DEF ReadList
<1>3. CASE MissList(c)
  <2>1. CASE Leaves(c)
    BY <1>3, <2>1, LeavesDInv DEF MissList
  <2> QED BY <1>3, <2>1, ReceivesDInv DEF MissList
<1>4. CASE JoinTimeout(c) \/ ExitChatroom(c) \/ Crash(c)
  BY <1>4, LeavesDInv DEF JoinTimeout, ExitChatroom, Crash
<1>5. CASE ReceiveChat(c) \/ ReceiveAddUser(c) \/ ReceiveDelete(c) \/ ReceiveList(c)
  <2>1. /\ Receives(c) /\ cst[c] = "in" /\ UNCHANGED <<leaderVars, cst, cq, spoke, stuck, toLeader>>
    BY <1>5 DEF ReceiveChat, ReceiveAddUser, ReceiveDelete, ReceiveList, Hearing, clientVars
  <2> QED BY <2>1, ReceivesDInv
<1>6. CASE ReceiveJoin(c)
  <2>1. Request(RESOLVE_LEADER, c, 0).code # CHAT
    BY DEF Request, RESOLVE_LEADER, CHAT
  <2>2. /\ Receives(c) /\ cst[c] = "in" /\ UNCHANGED <<leaderVars, cst, cq, spoke, stuck>>
        /\ SendLeader(Request(RESOLVE_LEADER, c, 0))
    BY <1>6 DEF ReceiveJoin, Hearing, clientVars
  <2> QED BY <2>1, <2>2, ReceivesDInv
<1> QED BY <1>1, <1>2, <1>3, <1>4, <1>5, <1>6, ReceiveDequeueDInv, SendChatDInv
        DEF ClientStep, Joiner, Receiver

\* What a fault leaves of a buffer.
LEMMA OutcomeHolds ==
  ASSUME NEW S, NEW b \in Seq(S), NEW i \in DOMAIN b, NEW kind
  PROVE  LET o == Outcome(kind, b, i) IN
         /\ o \in Seq(S) /\ \A j \in DOMAIN o : \E k \in DOMAIN b : o[j] = b[k]
         /\ kind \in {"lose", "delay"} => Drawn(o, b)
<1>1. CASE kind \in {"lose", "delay"}
  <2>1. Drawn(Outcome(kind, b, i), b)
    BY <1>1, BufferDrawn DEF Outcome
  <2>2. Outcome(kind, b, i) \in Seq(S)
    BY <1>1, BufferTypes DEF Outcome
  <2> HIDE DEF Outcome
  <2> QED BY <2>1, <2>2, DrawnHolds
<1>2. CASE kind \notin {"lose", "delay"}
  <2> DEFINE o == Outcome(kind, b, i)
  <2>1. o = Append(b, b[i])
    BY <1>2 DEF Outcome, Twice
  <2> HIDE DEF o
  <2>2. \A j \in DOMAIN o : o[j] = b[i] \/ (j \in DOMAIN b /\ o[j] = b[j])
    BY <2>1
  <2>3. o \in Seq(S)
    BY <2>1
  <2> QED BY <1>2, <2>2, <2>3 DEF o
<1> QED BY <1>1, <1>2

\* The network does nothing to a line that is awaited, and makes a second
\* answer only by repeating the first.
LEMMA NetworkDInv ==
  ASSUME IInv, DInv, Remembered, Lose \/ Delay \/ Duplicate
  PROVE  DInv'
<1> USE DEF leaderVars, clientVars
<1>1. UNCHANGED <<leaderVars, clientVars>>
  BY Disturbance
<1>2. ASSUME \A i \in DOMAIN toLeader' : \E j \in DOMAIN toLeader : toLeader'[i] = toLeader[j],
             NEW c \in Clients
      PROVE  Awaited(c)' => Awaited(c)
  <2>1. Handled(c)' => Awaited(c)
    BY <1>1 DEF Handled, Awaited
  <2> QED BY <1>1, <1>2, <2>1, AwaitedKept
<1>3. /\ pq \in Seq(Numberable) /\ log \in Seq(Numberable)
      /\ con.pc = "tail" => up /\ seqNum \in DOMAIN log /\ con.msg = log[seqNum]
  BY DEF DInv
<1>4. ASSUME NEW kind, NEW i \in DOMAIN toLeader, UNCHANGED toClient,
             toLeader' = Outcome(kind, toLeader, i)
      PROVE  DInv'
  <2>1. \A j \in DOMAIN toLeader' : \E k \in DOMAIN toLeader : toLeader'[j] = toLeader[k]
    BY <1>4, OutcomeHolds DEF IInv, Requested
  <2>2. \A c \in Clients : Answered(c)' => Answered(c)
    BY <1>4 DEF Answered
  <2> QED BY <1>1, <1>2, <1>3, <1>4, <2>1, <2>2, QuietDInv
<1>5. ASSUME NEW kind \in {"lose", "delay", "duplicate"}, NEW x \in Clients,
             NEW i \in DOMAIN toClient[x], UNCHANGED toLeader, Fault(kind, x),
             toClient' = [toClient EXCEPT ![x] = Outcome(kind, toClient[x], i)]
      PROVE  DInv'
  <2> DEFINE b == Outcome(kind, toClient[x], i)
  <2>1. /\ \A j \in DOMAIN b : \E k \in DOMAIN toClient[x] : b[j] = toClient[x][k]
        /\ kind = "duplicate" \/ Drawn(b, toClient[x])
    BY <1>5, OutcomeHolds DEF IInv, Sent
  <2>2. "duplicate" \notin Suffered(x)' => kind # "duplicate"
    BY <1>5, Suffering DEF IInv, Types, Ids
  <2>3. toClient' = [toClient EXCEPT ![x] = b]
    BY <1>5
  <2> HIDE DEF b
  <2>4. ASSUME NEW c \in Clients
        PROVE  /\ Answered(c)' => Answered(c)
               /\ "duplicate" \notin Suffered(c)' /\ Single(toClient[c]) => Single(toClient'[c])
    <3>1. CASE c = x
      <4>1. toClient'[c] = b
        BY <2>3, <3>1 DEF IInv, Sent
      <4> QED BY <2>1, <2>2, <3>1, <4>1, DrawnHolds DEF Answered
    <3>2. CASE c # x
      <4>1. toClient'[c] = toClient[c]
        BY <2>3, <3>2 DEF IInv, Sent
      <4> QED BY <4>1 DEF Answered
    <3> QED BY <3>1, <3>2
  <2>5. \A c \in Clients : Awaited(c)' => Awaited(c)
    BY <1>2, <1>5
  <2> QED BY <1>1, <1>3, <2>4, <2>5, QuietDInv
<1> QED BY <1>4, <1>5, Disturbance

\* At first nobody has spoken.
LEMMA InitDInv == Init => DInv
BY DEF Init, DInv, Idle, NoStrayDequeue, Owed, Awaited, Asked, Queued, Handled, Answered, Single

\* Every step preserves DInv.
LEMMA NextDInv ==
  ASSUME IInv, Accepted, DInv, [Next]_vars
  PROVE  DInv'
<1>1. Remembered
  BY NextRemembers
<1>2. CASE UNCHANGED vars
  <2>1. \A c \in Clients : (Awaited(c)' => Awaited(c)) /\ (Answered(c)' => Answered(c))
    BY <1>2 DEF vars, leaderVars, Awaited, Asked, Queued, Handled, Answered
  <2> QED BY <1>1, <1>2, <2>1, QuietDInv DEF vars, leaderVars, DInv
<1> QED BY <1>1, <1>2, ProducerDInv, ConsumerDInv, LeaderDInv, ClientDInv, NetworkDInv DEF Next

\* Whatever the network loses, delays and repeats and whoever is expelled, every
\* DEQUEUE finds the line it is for, and no receiver comes to wait in q.pop()
\* but one to which something has been repeated (leader.cpp's consumerTask,
\* client.cpp's receiver).
THEOREM NoneStuck == Spec => []NoStrayDequeue
<1>1. IInv /\ Accepted /\ DInv /\ [Next]_vars => DInv'
  BY NextDInv
<1>2. DInv => NoStrayDequeue
  BY DEF DInv
<1> QED BY <1>1, <1>2, InitIInv, NextIInv, InitAccepted, NextAccepted, InitDInv, PTL DEF Spec

------------------------------------------------------------------------------
(* No gaps.                                                                 *)

\* d is the multicast of the message with number n.
IsNumber(d, n) == d.code \notin {LIST_OF_USERS, DEQUEUE} /\ d.seq = n

\* The numbers at a place of the buffer b, if one of before is in front of it
\* and one of after comes behind it.
NumberAt(b, before, after, i, n) ==
  IF i = 0 THEN n \in before
           ELSE IF i = Len(b) + 1 THEN n \in after ELSE IsNumber(b[i], n)

\* From any number of b on, up to the one at any place, every number comes
\* before that place, but for those in missing and those that before has
\* passed.  So the first copies of the numbers are in order and without a gap.
\* What comes behind is larger than all of them.
Gapless(b, before, after, missing) ==
  /\ \A i \in 0..Len(b), j \in 1..(Len(b) + 1), l \in Nat, m \in Nat :
       NumberAt(b, before, after, i, l) /\ NumberAt(b, before, after, j, m) =>
         \A n \in l..(m - 1) : \/ n \in missing \/ \E e \in before : n <= e
                               \/ \E k \in 1..(j - 1) : IsNumber(b[k], n)
  /\ \A i \in 0..Len(b), l \in Nat : \A m \in after :
       NumberAt(b, before, after, i, l) => l < m

\* Nothing comes behind, or more numbers may be missing.
LEMMA GaplessWeaker ==
  ASSUME NEW b, NEW before, NEW after, NEW missing, Gapless(b, before, after, missing),
         NEW a \in SUBSET after, NEW s, missing \subseteq s
  PROVE  Gapless(b, before, a, s)
<1>1. \A i, n : NumberAt(b, before, a, i, n) => NumberAt(b, before, after, i, n)
  BY DEF NumberAt
<1>2. ASSUME NEW i \in 0..Len(b), NEW j \in 1..(Len(b) + 1), NEW l \in Nat, NEW m \in Nat,
             NumberAt(b, before, a, i, l), NumberAt(b, before, a, j, m), NEW n \in l..(m - 1)
      PROVE  \/ n \in s \/ \E e \in before : n <= e
             \/ \E k \in 1..(j - 1) : IsNumber(b[k], n)
  BY <1>1, <1>2 DEF Gapless
<1>3. ASSUME NEW i \in 0..Len(b), NEW l \in Nat, NEW m \in a, NumberAt(b, before, a, i, l)
      PROVE  l < m
  BY <1>1, <1>3 DEF Gapless
<1> QED BY <1>2, <1>3 DEF Gapless

\* A client to which nothing has been sent and that has shown nothing.
LEMMA GaplessEmpty == \A after, missing : Gapless(<<>>, {}, after, missing)
<1> SUFFICES ASSUME NEW k \in 0..0, NEW a PROVE \A l \in Nat : ~NumberAt(<<>>, {}, a, k, l)
  BY DEF Gapless
<1> QED BY DEF NumberAt

\* The datagram that is sent next has the next number, or none.
LEMMA GaplessAppend ==
  ASSUME NEW S, NEW b \in Seq(S), NEW d \in S, NEW before, NEW after, NEW next, NEW missing,
         Gapless(b, before, after, missing),
         \/ next = after /\ \A n \in Nat : ~IsNumber(d, n)
         \/ \E m \in Nat : after = {m} /\ next = {m + 1} /\ IsNumber(d, m)
  PROVE  Gapless(Append(b, d), before, next, missing)
<1> DEFINE t == Append(b, d)
           z == Len(b)
<1>0. z \in Nat /\ Len(t) = z + 1 /\ t[z + 1] = d /\ \A j \in 1..z : t[j] = b[j]
  OBVIOUS
<1> HIDE DEF t
<1>1. \A i \in 0..z : \A l : NumberAt(t, before, next, i, l) <=> NumberAt(b, before, after, i, l)
  <2> SUFFICES ASSUME NEW i \in 0..z, NEW l
               PROVE  NumberAt(t, before, next, i, l) <=> NumberAt(b, before, after, i, l)
    OBVIOUS
  <2>1. i # z + 1 /\ i # (z + 1) + 1 /\ (i = 0 \/ i \in 1..z)
    BY <1>0
  <2> QED BY <1>0, <2>1 DEF NumberAt
<1>2. \A l : /\ NumberAt(t, before, next, z + 1, l) <=> IsNumber(d, l)
             /\ NumberAt(t, before, next, z + 2, l) <=> l \in next
             /\ NumberAt(b, before, after, z + 1, l) <=> l \in after
  <2>1. z + 1 # 0 /\ z + 2 # 0 /\ z + 1 # (z + 1) + 1 /\ z + 2 = (z + 1) + 1
    BY <1>0
  <2> QED BY <1>0, <2>1 DEF NumberAt
<1>3. \A i \in 0..z, l \in Nat : \A m \in after : NumberAt(b, before, after, i, l) => l < m
  BY DEF Gapless
<1>4. \A i \in 0..z, j \in 1..(z + 1), l \in Nat, m \in Nat :
        NumberAt(b, before, after, i, l) /\ NumberAt(b, before, after, j, m) =>
          \A n \in l..(m - 1) : \/ n \in missing \/ \E e \in before : n <= e
                                \/ \E k \in 1..(j - 1) : IsNumber(b[k], n)
  BY DEF Gapless
<1> HIDE DEF z
<1>5. ASSUME NEW i \in 0..(z + 1), NEW l \in Nat, NEW m \in next, NumberAt(t, before, next, i, l)
      PROVE  l < m
  <2>1. CASE i \in 0..z
    <3>1. \A o \in after : l < o
      BY <1>1, <1>3, <1>5, <2>1
    <3>2. CASE next = after
      BY <3>1, <3>2
    <3>3. ASSUME NEW o \in Nat, after = {o}, next = {o + 1} PROVE l < m
      <4>1. m = o + 1 /\ l < o
        BY <3>1, <3>3
      <4> QED BY <4>1
    <3> QED BY <3>2, <3>3
  <2>2. CASE i = z + 1
    <3>1. IsNumber(d, l)
      BY <1>2, <1>5, <2>2
    <3> QED BY <1>5, <3>1 DEF IsNumber
  <2> QED BY <1>0, <2>1, <2>2
<1>6. ASSUME NEW i \in 0..(z + 1), NEW j \in 1..(z + 2), NEW l \in Nat, NEW m \in Nat,
             NumberAt(t, before, next, i, l), NumberAt(t, before, next, j, m),
             NEW n \in l..(m - 1)
      PROVE  \/ n \in missing \/ \E e \in before : n <= e
             \/ \E k \in 1..(j - 1) : IsNumber(t[k], n)
  <2> DEFINE Found == \/ n \in missing \/ \E e \in before : n <= e
                      \/ \E k \in 1..(j - 1) : IsNumber(t[k], n)
  <2>1. ASSUME NEW h \in 1..(z + 1), h <= j, NEW o \in Nat, NumberAt(b, before, after, h, o),
               i \in 0..z, n < o
        PROVE  Found
    <3>1. NumberAt(b, before, after, i, l) /\ n \in l..(o - 1)
      BY <1>1, <1>6, <2>1
    <3>2. \/ n \in missing \/ \E e \in before : n <= e
          \/ \E k \in 1..(h - 1) : IsNumber(b[k], n)
      BY <1>4, <2>1, <3>1
    <3>3. \A k \in 1..(h - 1) : k \in 1..(j - 1) /\ k \in 1..z
      BY <1>0, <2>1
    <3> QED BY <1>0, <3>2, <3>3
  <2>2. CASE i = z + 1 /\ (j = z + 1 \/ j \in 1..z)
    <3>1. IsNumber(d, l)
      BY <1>2, <1>6, <2>2
    <3>2. PICK o \in Nat : after = {o} /\ o = l
      BY <3>1 DEF IsNumber
    <3>3. j = z + 1 => m = l
      BY <1>2, <1>6, <3>1 DEF IsNumber
    <3>4. ASSUME j \in 1..z PROVE m < l
      <4>1. j \in 0..z /\ l \in after
        BY <1>0, <3>2, <3>4
      <4>2. NumberAt(b, before, after, j, m)
        BY <1>1, <1>6, <4>1
      <4> QED BY <1>3, <4>1, <4>2
    <3> QED BY <2>2, <3>3, <3>4
  <2>3. CASE i \in 0..z /\ j \in 1..z
    <3>1. NumberAt(b, before, after, j, m)
      BY <1>1, <1>6, <2>3
    <3> QED BY <1>0, <2>1, <2>3, <3>1
  <2>4. CASE i \in 0..z /\ j = z + 1
    <3>1. IsNumber(d, m)
      BY <1>2, <1>6, <2>4
    <3>2. after = {m}
      BY <3>1 DEF IsNumber
    <3>3. NumberAt(b, before, after, z + 1, m)
      BY <1>2, <3>2
    <3> QED BY <1>0, <2>1, <2>4, <3>3
  <2>5. CASE j = z + 2 /\ next = after /\ \A o \in Nat : ~IsNumber(d, o)
    <3>1. i \in 0..z
      BY <1>0, <1>2, <1>6, <2>5
    <3>2. NumberAt(b, before, after, z + 1, m)
      BY <1>2, <1>6, <2>5
    <3> QED BY <1>0, <2>1, <2>5, <3>1, <3>2
  <2>6. ASSUME j = z + 2, NEW o \in Nat, after = {o}, next = {o + 1}, IsNumber(d, o)
        PROVE  Found
    <3>1. m = o + 1 /\ NumberAt(b, before, after, z + 1, o)
      BY <1>2, <1>6, <2>6
    <3>2. CASE n = o
      <4>1. z + 1 \in 1..(j - 1) /\ IsNumber(t[z + 1], n)
        BY <1>0, <2>6, <3>2
      <4> QED BY <4>1
    <3>3. CASE i \in 0..z /\ n < o
      <4>1. z + 1 \in 1..(z + 1) /\ z + 1 <= j
        BY <1>0, <2>6
      <4> QED BY <2>1, <3>1, <3>3, <4>1
    <3>4. i = z + 1 => l = o
      BY <1>2, <1>6, <2>6 DEF IsNumber
    <3>5. n = o \/ (i \in 0..z /\ n < o)
      BY <1>0, <3>1, <3>4
    <3> QED BY <3>2, <3>3, <3>5
  <2>7. (i \in 0..z \/ i = z + 1) /\ (j \in 1..z \/ j = z + 1 \/ j = z + 2)
    BY <1>0
  <2> HIDE DEF Found
  <2>8. Found
    BY <2>2, <2>3, <2>4, <2>5, <2>6, <2>7 DEF Found
  <2> QED BY <2>8 DEF Found
<1>7. Len(t) + 1 = z + 2
  BY <1>0
<1>8. Gapless(t, before, next, missing)
  BY <1>0, <1>5, <1>6, <1>7 DEF Gapless
<1> QED BY <1>8 DEF t

\* The datagram that is read is shown, or need not be.
LEMMA GaplessTail ==
  ASSUME NEW S, NEW b \in Seq(S), b # <<>>, NEW before, NEW after, NEW shows, NEW missing,
         before \subseteq Nat, Gapless(b, before, after, missing),
         \/ shows = before /\ \A n \in Nat : IsNumber(b[1], n) =>
                                n \in missing \/ \E e \in before : n <= e
         \/ \E m \in Nat : shows = {m} /\ IsNumber(b[1], m) /\ \A e \in before : e < m
  PROVE  Gapless(Tail(b), shows, after, missing)
<1> DEFINE t == Tail(b)
           z == Len(b)
<1>0. z \in Nat \ {0} /\ Len(t) = z - 1 /\ \A j \in 1..(z - 1) : t[j] = b[j + 1]
  OBVIOUS
<1> HIDE DEF t
<1>1. ASSUME NEW i \in 1..z, NEW l
      PROVE  NumberAt(t, shows, after, i, l) <=> NumberAt(b, before, after, i + 1, l)
  <2>1. i # 0 /\ i + 1 # 0 /\ (z - 1) + 1 = z /\ (i = z <=> i + 1 = z + 1) /\ (i # z => i \in 1..(z - 1))
    BY <1>0
  <2> QED BY <1>0, <2>1 DEF NumberAt
<1>2. ASSUME NEW l \in Nat, NumberAt(t, shows, after, 0, l)
      PROVE  \E h \in 0..z : NumberAt(b, before, after, h, l)
  <2>1. l \in shows
    BY <1>2 DEF NumberAt
  <2>2. l \in before => NumberAt(b, before, after, 0, l)
    BY DEF NumberAt
  <2>3. IsNumber(b[1], l) => NumberAt(b, before, after, 1, l)
    BY <1>0 DEF NumberAt
  <2> QED BY <1>0, <2>1, <2>2, <2>3
<1>3. ASSUME NEW i \in 0..(z - 1), NEW l \in Nat, NumberAt(t, shows, after, i, l)
      PROVE  \E h \in 0..z : NumberAt(b, before, after, h, l)
  <2>1. CASE i = 0
    BY <1>2, <1>3, <2>1
  <2>2. CASE i \in 1..(z - 1)
    BY <1>0, <1>1, <1>3, <2>2
  <2> QED BY <1>0, <2>1, <2>2
<1>4. \A i \in 0..z, l \in Nat : \A m \in after : NumberAt(b, before, after, i, l) => l < m
  BY DEF Gapless
<1>5. \A i \in 0..z, j \in 1..(z + 1), l \in Nat, m \in Nat :
        NumberAt(b, before, after, i, l) /\ NumberAt(b, before, after, j, m) =>
          \A n \in l..(m - 1) : \/ n \in missing \/ \E e \in before : n <= e
                                \/ \E k \in 1..(j - 1) : IsNumber(b[k], n)
  BY DEF Gapless
<1>6. \A n \in Nat : IsNumber(b[1], n) \/ (\E e \in before : n <= e)
                       => n \in missing \/ \E e \in shows : n <= e
  <2>1. CASE shows = before /\ \A n \in Nat : IsNumber(b[1], n) =>
                                n \in missing \/ \E e \in before : n <= e
    BY <2>1
  <2>2. ASSUME NEW m \in Nat, shows = {m}, IsNumber(b[1], m), \A e \in before : e < m
        PROVE  \A n \in Nat : IsNumber(b[1], n) \/ (\E e \in before : n <= e)
                                => n \in missing \/ \E e \in shows : n <= e
    <3>1. \A n \in Nat : IsNumber(b[1], n) => n = m
      BY <2>2 DEF IsNumber
    <3>2. \A n \in Nat : (\E e \in before : n <= e) => n <= m
      BY <2>2
    <3>3. m <= m
      BY <2>2
    <3> QED BY <2>2, <3>1, <3>2, <3>3
  <2> QED BY <2>1, <2>2
<1> HIDE DEF z
<1>7. ASSUME NEW i \in 0..(z - 1), NEW j \in 1..z, NEW l \in Nat, NEW m \in Nat,
             NumberAt(t, shows, after, i, l), NumberAt(t, shows, after, j, m),
             NEW n \in l..(m - 1)
      PROVE  \/ n \in missing \/ \E e \in shows : n <= e
             \/ \E k \in 1..(j - 1) : IsNumber(t[k], n)
  <2>1. PICK h \in 0..z : NumberAt(b, before, after, h, l)
    BY <1>3, <1>7
  <2>2. NumberAt(b, before, after, j + 1, m) /\ j + 1 \in 1..(z + 1) /\ (j + 1) - 1 = j
    BY <1>0, <1>1, <1>7
  <2>3. \/ n \in missing \/ \E e \in before : n <= e
        \/ \E k \in 1..j : IsNumber(b[k], n)
    <3>1. \/ n \in missing \/ \E e \in before : n <= e
          \/ \E k \in 1..((j + 1) - 1) : IsNumber(b[k], n)
      BY <1>5, <2>1, <2>2
    <3> QED BY <2>2, <3>1
  <2>4. \A k \in 1..j : k = 1 \/ (k - 1 \in 1..(j - 1) /\ t[k - 1] = b[k])
    BY <1>0
  <2>5. n \in Nat
    OBVIOUS
  <2> QED BY <1>6, <2>3, <2>4, <2>5
<1>8. ASSUME NEW i \in 0..(z - 1), NEW l \in Nat, NEW m \in after, NumberAt(t, shows, after, i, l)
      PROVE  l < m
  BY <1>3, <1>4, <1>8
<1>9. Len(t) + 1 = z
  BY <1>0
<1>10. Gapless(t, shows, after, missing)
  BY <1>0, <1>7, <1>8, <1>9 DEF Gapless
<1> QED BY <1>10 DEF t

\* What is repeated has been there.
LEMMA GaplessTwice ==
  ASSUME NEW S, NEW b \in Seq(S), NEW p \in DOMAIN b, NEW before, NEW after, NEW missing,
         Gapless(b, before, after, missing)
  PROVE  Gapless(Append(b, b[p]), before, after, missing)
<1> DEFINE t == Append(b, b[p])
           z == Len(b)
<1>0. /\ z \in Nat /\ p \in 1..z /\ Len(t) = z + 1 /\ t[z + 1] = b[p]
      /\ \A j \in 1..z : t[j] = b[j]
  OBVIOUS
<1> HIDE DEF t
<1>1. ASSUME NEW i \in 0..z, NEW l
      PROVE  NumberAt(t, before, after, i, l) <=> NumberAt(b, before, after, i, l)
  <2>1. i # z + 1 /\ i # (z + 1) + 1 /\ (i = 0 \/ i \in 1..z)
    BY <1>0
  <2> QED BY <1>0, <2>1 DEF NumberAt
<1>2. \A l : /\ NumberAt(t, before, after, z + 1, l) <=> NumberAt(b, before, after, p, l)
             /\ NumberAt(t, before, after, z + 2, l) <=> NumberAt(b, before, after, z + 1, l)
  <2>1. /\ z + 1 # 0 /\ z + 2 # 0 /\ z + 1 # (z + 1) + 1 /\ z + 2 = (z + 1) + 1
        /\ p # 0 /\ p # z + 1
    BY <1>0
  <2> QED BY <1>0, <2>1 DEF NumberAt
<1>3. \A i \in 0..z, l \in Nat : \A m \in after : NumberAt(b, before, after, i, l) => l < m
  BY DEF Gapless
<1>4. \A i \in 0..z, j \in 1..(z + 1), l \in Nat, m \in Nat :
        NumberAt(b, before, after, i, l) /\ NumberAt(b, before, after, j, m) =>
          \A n \in l..(m - 1) : \/ n \in missing \/ \E e \in before : n <= e
                                \/ \E k \in 1..(j - 1) : IsNumber(b[k], n)
  BY DEF Gapless
<1> HIDE DEF z
<1>5. ASSUME NEW i \in 0..(z + 1), NEW l, NumberAt(t, before, after, i, l)
      PROVE  \E h \in 0..z : NumberAt(b, before, after, h, l)
  <2>1. CASE i = z + 1
    BY <1>0, <1>2, <1>5, <2>1
  <2>2. CASE i \in 0..z
    BY <1>1, <1>5, <2>2
  <2> QED BY <1>0, <2>1, <2>2
<1>6. ASSUME NEW j \in 1..(z + 2), NEW m, NumberAt(t, before, after, j, m)
      PROVE  \E h \in 1..(z + 1) : h <= j /\ NumberAt(b, before, after, h, m)
  <2>1. CASE j = z + 2
    BY <1>0, <1>2, <1>6, <2>1
  <2>2. CASE j = z + 1
    BY <1>0, <1>2, <1>6, <2>2
  <2>3. CASE j \in 1..z
    BY <1>0, <1>1, <1>6, <2>3
  <2> QED BY <1>0, <2>1, <2>2, <2>3
<1>7. ASSUME NEW i \in 0..(z + 1), NEW j \in 1..(z + 2), NEW l \in Nat, NEW m \in Nat,
             NumberAt(t, before, after, i, l), NumberAt(t, before, after, j, m),
             NEW n \in l..(m - 1)
      PROVE  \/ n \in missing \/ \E e \in before : n <= e
             \/ \E k \in 1..(j - 1) : IsNumber(t[k], n)
  <2>1. PICK g \in 0..z : NumberAt(b, before, after, g, l)
    BY <1>5, <1>7
  <2>2. PICK h \in 1..(z + 1) : h <= j /\ NumberAt(b, before, after, h, m)
    BY <1>6, <1>7
  <2>3. \/ n \in missing \/ \E e \in before : n <= e
        \/ \E k \in 1..(h - 1) : IsNumber(b[k], n)
    BY <1>4, <2>1, <2>2
  <2>4. \A k \in 1..(h - 1) : k \in 1..(j - 1) /\ t[k] = b[k]
    BY <1>0, <2>2
  <2> QED BY <2>3, <2>4
<1>8. ASSUME NEW i \in 0..(z + 1), NEW l \in Nat, NEW m \in after, NumberAt(t, before, after, i, l)
      PROVE  l < m
  BY <1>3, <1>5, <1>8
<1>9. Len(t) + 1 = z + 2
  BY <1>0
<1>10. Gapless(t, before, after, missing)
  BY <1>0, <1>7, <1>8, <1>9 DEF Gapless
<1> QED BY <1>10 DEF t

\* The numbers that nothing is shown for.
Joins == {n \in DOMAIN log : log[n].type = JOIN}

\* What c has shown last, and what the consumer is to send it next.
Latest(c) == IF shown[c] = <<>> THEN {} ELSE {lastSeen[c]}
Coming(c) ==
  IF ~up THEN {} ELSE IF con.pc = "mcast" /\ con.at < c THEN {seqNum} ELSE {seqNum + 1}

\* The failure detector is right to leave c in the room, and does.
Steady(c) == c \notin blind /\ cst[c] # "gone" /\ "suspect" \notin Suffered(c)
Unsteady  == {c \in Clients : ~Steady(c)}

\* And c gets everything it is sent in the order in which it was sent.
Whole(c) == Steady(c) /\ Suffered(c) \subseteq {"duplicate"}

\* Who has been sent something, or is in, is in the leader's room.
Housed(c) ==
  /\ up /\ (cst[c] = "in" \/ toClient[c] # <<>>) => c \in chatRoom
  /\ cst[c] = "out" => toClient[c] = <<>>
  /\ cst[c] # "in" => shown[c] = <<>>

Unbroken(c) == Gapless(toClient[c], Latest(c), Coming(c), Joins)

\* Only who has gone asks to be deleted, and who is being welcomed is there.
Deserved ==
  /\ \A i \in DOMAIN toLeader : toLeader[i].code = DELETE => cst[toLeader[i].from] = "gone"
  /\ prod.pc = "welcome" => prod.id \in chatRoom \cup Unsteady

GInv ==
  /\ Deserved
  /\ \A c \in Clients : Steady(c) => Housed(c)
  /\ ~dangled => \A c \in Clients : Whole(c) => Unbroken(c)
  /\ NoGap

\* Nobody recovers from what made him unsteady.
LEMMA UnsteadyKept ==
  ASSUME Remembered,
         \A c \in Clients : /\ cst[c] = "gone" => cst'[c] = "gone"
                            /\ c \in blind => c \in blind' \/ cst'[c] = "gone"
  PROVE  /\ Unsteady \subseteq Unsteady'
         /\ \A c \in Clients : (Steady(c)' => Steady(c)) /\ (Whole(c)' => Whole(c))
<1>1. ASSUME NEW c \in Clients PROVE (Steady(c)' => Steady(c)) /\ (Whole(c)' => Whole(c))
  BY DEF Remembered, Steady, Whole
<1> QED BY <1>1 DEF Unsteady

\* What nobody has shown, nobody has missed.
LEMMA NoGapKept ==
  ASSUME NoGap, Remembered, UNCHANGED <<shown, lastSeen, log, blind, cst>>, dangled => dangled'
  PROVE  NoGap'
<1> SUFFICES ASSUME ~dangled', NEW c \in Clients \ blind', cst'[c] = "in", shown'[c] # <<>>,
                    Suffered(c)' \subseteq {"duplicate"}, NEW n \in shown'[c][1].seq .. lastSeen'[c]
             PROVE  log'[n].type = JOIN \/ \E i \in DOMAIN shown'[c] : shown'[c][i].seq = n
  BY DEF NoGap
<1>1. Suffered(c) \subseteq {"duplicate"}
  BY DEF Remembered
<1> QED BY <1>1 DEF NoGap

\* A message that is no multicast, or none, leaves a client's numbers alone.
LEMMA UnbrokenKept ==
  ASSUME IInv, NEW c \in Clients, Unbroken(c),
         \/ toClient'[c] = toClient[c]
         \/ \E d \in SentDatagrams(log) : /\ toClient'[c] = Append(toClient[c], d)
                                          /\ \A n \in Nat : ~IsNumber(d, n),
         Latest(c)' = Latest(c), Coming(c)' = Coming(c), Joins \subseteq Joins'
  PROVE  Unbroken(c)'
<1> DEFINE b == toClient[c]
           t == toClient'[c]
<1>1. Gapless(b, Latest(c), Coming(c), Joins) /\ b \in Seq(SentDatagrams(log))
  BY DEF Unbroken, IInv, Sent
<1>2. Gapless(t, Latest(c), Coming(c), Joins)
  BY <1>1, GaplessAppend
<1> HIDE DEF t
<1>3. Gapless(t, Latest(c)', Coming(c)', Joins')
  BY <1>2, GaplessWeaker
<1> QED BY <1>3 DEF Unbroken, t

\* Nothing has been shown to c, and nothing sent.
LEMMA UnbrokenEmpty ==
  ASSUME NEW c \in Clients, toClient'[c] = <<>>, Latest(c)' = {}
  PROVE  Unbroken(c)'
BY GaplessEmpty DEF Unbroken

\* A step of the leader that multicasts nothing and deletes nobody steady.
LEMMA QuietGInv ==
  ASSUME IInv, GInv, Remembered, UNCHANGED <<clientVars, up, log, dangled>>, Deserved',
         \A c \in Clients : Coming(c)' = Coming(c) /\ (Steady(c)' /\ c \in chatRoom => c \in chatRoom'),
         \/ UNCHANGED toClient
         \/ \E x \in Clients : \E d \in SentDatagrams(log) :
              /\ SendClient(x, d) /\ \A n \in Nat : ~IsNumber(d, n)
              /\ Steady(x) => x \in chatRoom
  PROVE  GInv'
<1> USE DEF clientVars
<1>1. \A c \in Clients : /\ (Steady(c)' => Steady(c)) /\ (Whole(c)' => Whole(c))
                         /\ Latest(c)' = Latest(c)
  BY UnsteadyKept DEF Latest
<1>2. ASSUME NEW c \in Clients
      PROVE  \/ toClient'[c] = toClient[c]
             \/ /\ \E d \in SentDatagrams(log) : /\ toClient'[c] = Append(toClient[c], d)
                                                 /\ \A n \in Nat : ~IsNumber(d, n)
                /\ cst[c] \in {"joining", "in"}
                /\ Steady(c) => c \in chatRoom
  BY DEF SendClient, IInv, Sent
<1>3. ASSUME NEW c \in Clients, Steady(c)' PROVE Housed(c)'
  <2>1. Steady(c) /\ Housed(c)
    BY <1>1, <1>3 DEF GInv
  <2>2. toClient'[c] = toClient[c]
          \/ (cst[c] \in {"joining", "in"} /\ c \in chatRoom)
    BY <1>2, <2>1
  <2> QED BY <1>3, <2>1, <2>2 DEF Housed
<1>4. ASSUME NEW c \in Clients, Whole(c)', ~dangled PROVE Unbroken(c)'
  <2>1. Unbroken(c)
    BY <1>1, <1>4 DEF GInv
  <2>2. Joins' = Joins
    BY DEF Joins
  <2> QED BY <1>1, <1>2, <2>1, <2>2, UnbrokenKept
<1>5. NoGap'
  BY NoGapKept DEF GInv
<1> QED BY <1>3, <1>4, <1>5 DEF GInv

\* When the leader dies nothing more is to come.
LEMMA LeaderDiesGInv ==
  ASSUME IInv, GInv, Remembered, LeaderDies, UNCHANGED <<log, clientVars, toClient>>,
         dangled => dangled'
  PROVE  GInv'
<1> USE DEF clientVars
<1>1. Deserved'
  BY DEF LeaderDies, Listening, Deserved
<1>2. \A c \in Clients : /\ (Steady(c)' => Steady(c)) /\ (Whole(c)' => Whole(c))
                         /\ Latest(c)' = Latest(c)
  BY UnsteadyKept DEF Latest
<1>3. ASSUME NEW c \in Clients, Steady(c)' PROVE Housed(c)'
  BY <1>2, <1>3 DEF Housed, GInv, LeaderDies
<1>4. ASSUME NEW c \in Clients, Whole(c)', ~dangled' PROVE Unbroken(c)'
  <2>1. Gapless(toClient[c], Latest(c), Coming(c), Joins)
    BY <1>2, <1>4 DEF GInv, Unbroken
  <2>2. Coming(c)' = {} /\ Joins' = Joins
    BY DEF Coming, LeaderDies, Joins
  <2>3. Gapless(toClient[c], Latest(c), {}, Joins)
    BY <2>1, GaplessWeaker
  <2> QED BY <1>2, <2>2, <2>3 DEF Unbroken
<1>5. NoGap'
  BY NoGapKept DEF GInv
<1> QED BY <1>1, <1>3, <1>4, <1>5 DEF GInv

\* The producer takes in who joins, and puts out only who has gone.
LEMMA ProducerGInv ==
  ASSUME IInv, GInv, Remembered, Producer
  PROVE  GInv'
<1> USE DEF leaderVars, clientVars
<1>0. Requested /\ Deserved
  BY DEF IInv, GInv
<1>9. UNCHANGED clientVars => \A c \in Clients : Steady(c)' => Steady(c)
  BY UnsteadyKept
<1>1. ASSUME toLeader' = Tail(toLeader), toLeader # <<>>,
             UNCHANGED <<clientVars, up, log, dangled, seqNum, toClient>>,
             con'.pc = con.pc, con'.at = con.at,
             \A c \in chatRoom : Steady(c) => c \in chatRoom',
             prod'.pc # "welcome" \/ prod'.id \in chatRoom'
      PROVE  GInv'
  <2>1. Deserved'
    <3>1. \A i \in DOMAIN toLeader' : \E j \in DOMAIN toLeader : toLeader'[i] = toLeader[j]
      BY <1>0, <1>1, HeardHolds
    <3> QED BY <1>0, <1>1, <3>1 DEF Deserved
  <2>2. \A c \in Clients : Coming(c)' = Coming(c)
    BY <1>1 DEF Coming
  <2> QED BY <1>9, <1>1, <2>1, <2>2, QuietGInv
<1>2. CASE HandleJoin
  BY <1>1, <1>2 DEF HandleJoin, Hears
<1>3. CASE IgnoreOldChat \/ HandleInvalid
  BY <1>1, <1>3 DEF IgnoreOldChat, HandleInvalid, Hears
<1>4. CASE HandleChat
  BY <1>1, <1>4 DEF HandleChat, Hears
<1>5. CASE HandleDelete
  <2> DEFINE r == Head(toLeader)
  <2>1. r.code = DELETE /\ toLeader # <<>> /\ prod.pc = "recv"
    BY <1>5 DEF HandleDelete, Hears
  <2>2. ~Steady(r.from)
    <3>1. 1 \in DOMAIN toLeader /\ r = toLeader[1]
      BY <1>0, <2>1 DEF Requested
    <3> HIDE DEF r
    <3> QED BY <1>0, <2>1, <3>1 DEF Deserved, Steady
  <2>3. con'.pc = con.pc /\ con'.at = con.at /\ chatRoom \ {r.from} \subseteq chatRoom'
    BY <1>5 DEF HandleDelete, DeleteUser, IInv, Types, ThreadType
  <2> QED BY <1>1, <1>5, <2>1, <2>2, <2>3 DEF HandleDelete
<1>6. CASE HandleDequeue
  <2>1. CASE LeaderDies
    BY <1>6, <2>1, LeaderDiesGInv DEF HandleDequeue
  <2>2. CASE ~LeaderDies
    <3>1. prod'.pc # "welcome"
      BY <1>6, <2>2 DEF HandleDequeue, Hears, IInv, Types, ThreadType
    <3> QED BY <1>1, <1>6, <2>2, <3>1 DEF HandleDequeue, Hears
  <2> QED BY <2>1, <2>2
<1>7. CASE ProducerWakes
  <2>1. Deserved' /\ \A c \in Clients : Coming(c)' = Coming(c)
    BY <1>0, <1>7 DEF ProducerWakes, Listening, Deserved, Coming
  <2> QED BY <1>7, <2>1, QuietGInv DEF ProducerWakes
<1>8. CASE WelcomeUser
  <2> DEFINE d == UserList(chatRoom)
  <2>1. prod.id \in Clients /\ chatRoom \in SUBSET Ids /\ prod.pc = "welcome"
    BY <1>8 DEF WelcomeUser, IInv, Requested, Types, LeaderType
  <2>2. d \in SentDatagrams(log) /\ \A n \in Nat : ~IsNumber(d, n)
    BY <2>1 DEF UserList, SentDatagrams, IsNumber
  <2>3. /\ SendClient(prod.id, d) /\ prod' = Listening
        /\ UNCHANGED <<up, log, dangled, chatRoom, seqNum, con, clientVars, toLeader>>
    BY <1>8 DEF WelcomeUser
  <2> HIDE DEF d
  <2>4. Deserved' /\ \A c \in Clients : Coming(c)' = Coming(c)
    BY <1>0, <2>3 DEF Listening, Deserved, Coming
  <2>5. Steady(prod.id) => prod.id \in chatRoom
    BY <1>0, <2>1 DEF Deserved, Unsteady
  <2> QED BY <2>1, <2>2, <2>3, <2>4, <2>5, QuietGInv
<1> QED BY <1>2, <1>3, <1>4, <1>5, <1>6, <1>7, <1>8 DEF Producer

\* Nobody who is steady is deleted.
LEMMA LeaderGInv ==
  ASSUME IInv, GInv, Remembered, LeaderTypes \/ LeaderQuits \/ \E c \in Clients : Suspect(c)
  PROVE  GInv'
<1> USE DEF clientVars
<1>0. Deserved /\ toLeader \in Seq(SentRequests)
  BY DEF GInv, IInv, Requested
<1>4. UNCHANGED clientVars => Unsteady \subseteq Unsteady'
  BY UnsteadyKept
<1>1. CASE LeaderTypes
  <2> DEFINE r == Request(CHAT, Leader, typed + 1)
  <2>1. /\ toLeader' = Append(toLeader, r) \/ toLeader' = toLeader
        /\ UNCHANGED <<up, log, dangled, chatRoom, seqNum, con, prod, clientVars, toClient>>
    BY <1>1 DEF LeaderTypes, SendLeader
  <2>2. r.code # DELETE
    BY DEF Request, CHAT, DELETE
  <2> HIDE DEF r
  <2>3. \A i \in DOMAIN toLeader' : toLeader'[i].code = DELETE =>
          i \in DOMAIN toLeader /\ toLeader'[i] = toLeader[i]
    BY <1>0, <2>1, <2>2
  <2>4. Deserved' /\ \A c \in Clients : Coming(c)' = Coming(c)
    BY <1>0, <1>4, <2>1, <2>3 DEF Deserved, Coming
  <2> QED BY <2>1, <2>4, QuietGInv
<1>2. CASE LeaderQuits
  BY <1>2, LeaderDiesGInv DEF LeaderQuits
<1>3. ASSUME NEW x \in Clients, Suspect(x) PROVE GInv'
  <2>1. UNCHANGED <<log, dangled, clientVars, toClient>>
    BY <1>3 DEF Suspect
  <2>2. ~Steady(x)'
    <3>1. cst[x] = "gone" \/ x \in blind \/ Fault("suspect", x)
      BY <1>3 DEF Suspect
    <3>2. Fault("suspect", x) => "suspect" \in Suffered(x)'
      BY Suffering DEF IInv, Types, Ids
    <3> QED BY <2>1, <3>1, <3>2 DEF Steady
  <2>3. CASE LeaderDies
    BY <2>1, <2>3, LeaderDiesGInv
  <2>4. CASE DeleteUser(x) /\ UNCHANGED <<up, seqNum, prod, toLeader>>
    <3>1. con'.pc = con.pc /\ con'.at = con.at /\ chatRoom' = chatRoom \ {x}
      BY <2>4 DEF DeleteUser, IInv, Types, ThreadType
    <3>2. x \in Unsteady'
      BY <2>2 DEF Unsteady
    <3>3. Deserved'
      BY <1>0, <1>4, <2>1, <2>4, <3>1, <3>2 DEF Deserved
    <3>4. \A c \in Clients : Coming(c)' = Coming(c)
      BY <2>4, <3>1 DEF Coming
    <3> QED BY <2>1, <2>2, <2>4, <3>1, <3>3, <3>4, QuietGInv
  <2> QED BY <1>3, <2>3, <2>4 DEF Suspect
<1> QED BY <1>1, <1>2, <1>3

\* Whom the consumer's loop passes over has been sent nothing.
LEMMA PassedOver ==
  ASSUME IInv, GInv, NEW c \in Clients, Steady(c), c \notin chatRoom, up,
         toClient'[c] = toClient[c], UNCHANGED shown
  PROVE  Unbroken(c)'
<1>1. toClient[c] = <<>> /\ shown[c] = <<>>
  BY DEF GInv, Housed
<1> QED BY <1>1, UnbrokenEmpty DEF Latest

\* The loop over the room sends a message to everybody in it, in the order of
\* their Ids: to whoever it has come by, and to nobody else yet.
LEMMA NextRecipientGInv ==
  ASSUME IInv, GInv, Remembered, NextRecipient
  PROVE  GInv'
<1> USE DEF clientVars
<1>0. /\ up /\ con.pc = "mcast" /\ con.at \in Nat /\ seqNum \in DOMAIN log
      /\ con.msg = log[seqNum]
      /\ UNCHANGED <<up, chatRoom, prod, log, dangled, seqNum, clientVars, toLeader>>
  <2>1. con.at \in Ids \cup {0}
    BY DEF IInv, Types, ThreadType
  <2>2. up /\ con.pc = "mcast" /\ seqNum \in DOMAIN log /\ con.msg = log[seqNum]
    BY DEF NextRecipient, IInv, Numbered
  <2>3. UNCHANGED <<up, chatRoom, prod, log, dangled, seqNum, clientVars, toLeader>>
    BY DEF NextRecipient
  <2>4. \A i \in Ids \cup {0} : i \in Nat
    BY SequencerAssumption DEF Ids
  <2> QED BY <2>1, <2>2, <2>3, <2>4
<1>1. Clients \subseteq Nat \ {0} /\ \A c \in Clients : c # Leader
  BY SequencerAssumption
<1>2. Deserved' /\ NoGap'
  BY <1>0, UnsteadyKept, NoGapKept DEF GInv, Deserved
<1>3. \A c \in Clients : /\ (Steady(c)' => Steady(c)) /\ (Whole(c)' => Whole(c))
                         /\ Latest(c)' = Latest(c)
  BY <1>0, UnsteadyKept DEF Latest
<1>4. Joins' = Joins
  BY <1>0 DEF Joins
<1>5. \A c \in Clients : Coming(c) = IF con.at < c THEN {seqNum} ELSE {seqNum + 1}
  BY <1>0 DEF Coming
<1>6. ASSUME NEW x \in Others, con.at < x, \A d \in Others : d > con.at => x <= d, SendTo(x)
      PROVE  GInv'
  <2> DEFINE d == Multicast(con.msg, seqNum)
  <2>1. x \in Clients /\ x \in chatRoom
    BY DEF Others, IInv, Types, LeaderType, Ids
  <2>2. SendClient(x, d) /\ con'.pc = con.pc /\ con'.at = x
    BY <1>6 DEF SendTo, IInv, Types, ThreadType
  <2>3. d \in SentDatagrams(log)
    BY <1>0 DEF SentDatagrams
  <2>4. IsNumber(d, seqNum) /\ seqNum \in Nat
    <3>1. con.msg.type \in MessageTypes /\ seqNum \in Nat
      <4>1. log \in Seq(TypedMessages)
        BY DEF IInv, Typed
      <4>2. con.msg \in TypedMessages
        BY <1>0, <4>1
      <4> QED BY <1>0, <4>1, <4>2 DEF TypedMessages
    <3> QED BY <3>1 DEF Multicast, IsNumber, MessageTypes, LIST_OF_USERS, DEQUEUE,
                        JOIN, ADD_USER, DELETE, CHAT
  <2> HIDE DEF d
  <2>5. \A c \in Clients : Coming(c)' = IF x < c THEN {seqNum} ELSE {seqNum + 1}
    BY <1>0, <2>2 DEF Coming
  <2>6. \A c \in Clients \ {x} : toClient'[c] = toClient[c]
    BY <2>2 DEF SendClient, IInv, Sent
  <2>7. ASSUME NEW c \in Clients, Steady(c)' PROVE Housed(c)'
    <3>1. Housed(c) /\ (cst[c] = "out" => toClient'[c] = toClient[c])
      BY <1>3, <2>2, <2>7 DEF GInv, SendClient
    <3> QED BY <1>0, <2>1, <2>6, <3>1 DEF Housed
  <2>8. ASSUME NEW c \in Clients, Whole(c)', ~dangled PROVE Unbroken(c)'
    <3>0. Steady(c) /\ Unbroken(c) /\ Housed(c)
      BY <1>3, <2>8 DEF GInv, Whole
    <3>1. CASE c = x /\ cst[x] \in {"joining", "in"}
      <4> DEFINE b == toClient[x]
      <4>1. b \in Seq(SentDatagrams(log)) /\ toClient'[x] = Append(b, d)
        BY <2>2, <3>1 DEF SendClient, IInv, Sent
      <4>2. Gapless(b, Latest(x), {seqNum}, Joins)
        BY <1>5, <1>6, <3>0, <3>1 DEF Unbroken
      <4> HIDE DEF b
      <4>3. Gapless(Append(b, d), Latest(x), {seqNum + 1}, Joins)
        BY <2>3, <2>4, <4>1, <4>2, GaplessAppend
      <4>4. Coming(x)' = {seqNum + 1}
        BY <1>1, <2>1, <2>5
      <4> QED BY <1>3, <1>4, <2>1, <3>1, <4>1, <4>3, <4>4 DEF Unbroken
    <3>2. CASE c = x /\ cst[x] \notin {"joining", "in"}
      <4>1. cst[x] = "out" /\ toClient'[x] = toClient[x]
        BY <2>1, <2>2, <3>0, <3>2 DEF SendClient, Steady, IInv, Types, ClientType
      <4>2. toClient'[c] = <<>> /\ Latest(c)' = {}
        BY <1>3, <3>0, <3>2, <4>1 DEF Housed, Latest
      <4> QED BY <4>2, UnbrokenEmpty
    <3>3. CASE con.at < c /\ c < x
      <4>1. c \notin chatRoom
        BY <1>1, <1>6, <2>1, <3>3 DEF Others
      <4> QED BY <1>0, <1>1, <2>1, <2>6, <3>0, <3>3, <4>1, PassedOver
    <3>4. CASE c # x /\ ~(con.at < c /\ c < x)
      <4>1. Coming(c)' = Coming(c)
        <5>1. c \in Nat /\ x \in Nat /\ con.at \in Nat
          BY <1>0, <1>1, <2>1
        <5>2. (con.at < c) <=> (x < c)
          BY <1>6, <3>4, <5>1
        <5> QED BY <1>5, <2>5, <5>2
      <4> QED BY <1>3, <1>4, <2>6, <3>0, <3>4, <4>1, UnbrokenKept
    <3> QED BY <3>1, <3>2, <3>3, <3>4
  <2> QED BY <1>0, <1>2, <2>7, <2>8 DEF GInv
<1>7. ASSUME \A d \in Others : ~(d > con.at), EndLoop, UNCHANGED toClient
      PROVE  GInv'
  <2>1. con'.pc = "tail"
    BY <1>7 DEF EndLoop, IInv, Types, ThreadType
  <2>2. \A c \in Clients : Coming(c)' = {seqNum + 1}
    BY <1>0, <2>1 DEF Coming
  <2>3. ASSUME NEW c \in Clients, Steady(c)' PROVE Housed(c)'
    BY <1>0, <1>3, <1>7, <2>3 DEF GInv, Housed
  <2>4. ASSUME NEW c \in Clients, Whole(c)', ~dangled PROVE Unbroken(c)'
    <3>0. Steady(c) /\ Unbroken(c)
      BY <1>3, <2>4 DEF GInv, Whole
    <3>1. CASE con.at < c
      <4>1. c \notin chatRoom
        BY <1>0, <1>1, <1>7, <3>1 DEF Others
      <4> QED BY <1>0, <1>7, <3>0, <4>1, PassedOver
    <3>2. CASE ~(con.at < c)
      BY <1>3, <1>4, <1>5, <1>7, <2>2, <3>0, <3>2, UnbrokenKept
    <3> QED BY <3>1, <3>2
  <2> QED BY <1>0, <1>2, <2>3, <2>4 DEF GInv
<1>8. ASSUME NEW x \in {c \in Others : c > con.at},
             \A d \in {c \in Others : c > con.at} : x <= d, SendTo(x)
      PROVE  GInv'
  <2>1. x \in Nat /\ x \in Others /\ x > con.at
    BY <1>0, <1>1 DEF Others, IInv, Types, LeaderType, Ids
  <2> QED BY <1>0, <1>6, <1>8, <2>1
<1> QED BY <1>7, <1>8 DEF NextRecipient

\* The next message has the number that everybody is to be sent next.
LEMMA PopGInv ==
  ASSUME IInv, GInv, Remembered, PopMessage
  PROVE  GInv'
<1> USE DEF clientVars
<1>0. /\ up /\ con.pc = "pop" /\ pq # <<>> /\ seqNum' = seqNum + 1 /\ log' = Append(log, pq[1])
      /\ con'.pc = "mcast" /\ con'.at = 0
      /\ UNCHANGED <<up, chatRoom, prod, dangled, clientVars, toLeader, toClient>>
  BY DEF PopMessage
<1>1. /\ log \in Seq(TypedMessages) /\ pq[1] \in TypedMessages
      /\ Clients \subseteq Nat \ {0}
  BY <1>0, SequencerAssumption DEF IInv, Typed
<1>2. Deserved'
  BY <1>0, UnsteadyKept DEF GInv, Deserved
<1>3. \A n \in DOMAIN log : n \in DOMAIN log' /\ log'[n] = log[n]
  BY <1>0, <1>1
<1>4. Joins \subseteq Joins'
  BY <1>3 DEF Joins
<1>5. \A c \in Clients : /\ (Steady(c)' => Steady(c)) /\ (Whole(c)' => Whole(c))
                         /\ Latest(c)' = Latest(c) /\ Coming(c)' = Coming(c)
  <2>1. ASSUME NEW c \in Clients PROVE Coming(c)' = Coming(c)
    <3>1. 0 < c
      BY <1>1
    <3>2. Coming(c)' = {seqNum'}
      BY <1>0, <3>1 DEF Coming
    <3>3. Coming(c) = {seqNum + 1}
      BY <1>0 DEF Coming
    <3> QED BY <1>0, <3>2, <3>3
  <2> QED BY <1>0, <2>1, UnsteadyKept DEF Latest
<1>6. \A c \in Clients : Steady(c)' => Housed(c)'
  BY <1>0, <1>5 DEF GInv, Housed
<1>7. ASSUME NEW c \in Clients, Whole(c)', ~dangled PROVE Unbroken(c)'
  <2>1. Unbroken(c)
    BY <1>5, <1>7 DEF GInv
  <2> QED BY <1>0, <1>4, <1>5, <2>1, UnbrokenKept
<1>8. ASSUME NEW c \in Clients \ blind, cst[c] = "in", shown[c] # <<>>
      PROVE  shown[c][1].seq .. lastSeen[c] \subseteq DOMAIN log
  <2>1. shown[c] \in Seq(Lines(log)) /\ lastSeen[c] = Abstract!LastOn(shown[c])
    BY <1>8 DEF IInv, Displayed
  <2>2. 1 \in DOMAIN shown[c] /\ Len(shown[c]) \in DOMAIN shown[c]
    BY <1>8, <2>1
  <2>3. shown[c][1] \in Lines(log) /\ shown[c][Len(shown[c])] \in Lines(log)
    BY <2>1, <2>2
  <2>4. \A d \in Lines(log) : d.seq \in DOMAIN log
    BY DEF Lines
  <2>5. shown[c][1].seq \in DOMAIN log /\ lastSeen[c] \in DOMAIN log
    BY <1>8, <2>1, <2>3, <2>4 DEF Abstract!LastOn
  <2> HIDE DEF Lines
  <2> QED BY <1>1, <2>5
<1>9. NoGap'
  <2>1. UNCHANGED <<dangled, blind, cst, shown, lastSeen>>
    BY <1>0
  <2> SUFFICES ASSUME ~dangled, NEW c \in Clients \ blind, cst[c] = "in", shown[c] # <<>>,
                      Suffered(c)' \subseteq {"duplicate"}, NEW n \in shown[c][1].seq .. lastSeen[c]
               PROVE  log'[n].type = JOIN \/ \E i \in DOMAIN shown[c] : shown[c][i].seq = n
    BY <2>1 DEF NoGap
  <2>2. Suffered(c) \subseteq {"duplicate"}
    BY DEF Remembered
  <2>3. log[n].type = JOIN \/ \E i \in DOMAIN shown[c] : shown[c][i].seq = n
    BY <2>2 DEF GInv, NoGap
  <2> QED BY <1>3, <1>8, <2>3
<1> QED BY <1>0, <1>2, <1>6, <1>7, <1>9 DEF GInv

\* The rest of the consumer: a dangling iterator excuses it.
LEMMA ConsumerGInv ==
  ASSUME IInv, GInv, Remembered, Consumer
  PROVE  GInv'
<1> USE DEF clientVars
<1>1. CASE AdvanceErased
  <2>1. CASE LeaderDies /\ UNCHANGED toClient
    BY <1>1, <2>1, LeaderDiesGInv DEF AdvanceErased
  <2>2. CASE /\ (\E c \in Others : SendTo(c)) \/ (EndLoop /\ UNCHANGED toClient)
             /\ UNCHANGED <<up, chatRoom, prod, toLeader>>
    <3>1. dangled' /\ UNCHANGED <<log, clientVars>>
      BY <1>1 DEF AdvanceErased
    <3>5. Unsteady \subseteq Unsteady' /\ \A c \in Clients : Steady(c)' => Steady(c)
      BY <3>1, UnsteadyKept
    <3>2. Deserved'
      BY <2>2, <3>1, <3>5 DEF GInv, Deserved
    <3>3. ASSUME NEW c \in Clients
          PROVE  toClient'[c] = toClient[c] \/ (c \in chatRoom /\ cst[c] \in {"joining", "in"})
      BY <2>2 DEF SendTo, SendClient, Others, IInv, Sent
    <3>4. ASSUME NEW c \in Clients, Steady(c)' PROVE Housed(c)'
      <4>1. Housed(c)
        BY <3>5, <3>4 DEF GInv
      <4> QED BY <2>2, <3>1, <3>3, <4>1 DEF Housed
    <3> QED BY <3>1, <3>2, <3>4 DEF GInv, NoGap
  <2> QED BY <1>1, <2>1, <2>2 DEF AdvanceErased
<1>2. CASE FinishMessage
  <2>1. /\ con' = Idle /\ con.pc = "tail"
        /\ UNCHANGED <<up, chatRoom, prod, log, dangled, seqNum, clientVars>>
    BY <1>2 DEF FinishMessage
  <2>2. toLeader \in Seq(SentRequests)
    BY DEF IInv, Requested
  <2>3. Deserved'
    <3> DEFINE r == Request(DEQUEUE, Leader, 0)
    <3>1. toLeader' = Append(toLeader, r) \/ toLeader' = toLeader
      BY <1>2 DEF FinishMessage, SendLeader
    <3>2. r.code # DELETE
      BY DEF Request, DEQUEUE, DELETE
    <3> HIDE DEF r
    <3>3. \A i \in DOMAIN toLeader' : toLeader'[i].code = DELETE =>
            i \in DOMAIN toLeader /\ toLeader'[i] = toLeader[i]
      BY <2>2, <3>1, <3>2
    <3>4. Unsteady \subseteq Unsteady'
      BY <2>1, UnsteadyKept
    <3> QED BY <2>1, <3>3, <3>4 DEF GInv, Deserved
  <2>4. \A c \in Clients : Coming(c)' = Coming(c)
    BY <2>1 DEF Coming, Idle
  <2>5. Dequeue \in SentDatagrams(log) /\ \A n \in Nat : ~IsNumber(Dequeue, n)
    BY DEF Dequeue, SentDatagrams, IsNumber
  <2>6. UNCHANGED toClient
          \/ \E x \in Clients : SendClient(x, Dequeue) /\ x \in chatRoom
    <3>1. con.msg.from \in Ids
      BY DEF IInv, Types, ThreadType, Messages
    <3> QED BY <1>2, <3>1 DEF FinishMessage, Ids
  <2> QED BY <2>1, <2>3, <2>4, <2>5, <2>6, QuietGInv
<1> QED BY <1>1, <1>2, PopGInv, NextRecipientGInv DEF Consumer

\* From the first message it shows to the last, c has shown every one.
ShownAll(c) ==
  \A n \in shown[c][1].seq .. lastSeen[c] :
    log[n].type = JOIN \/ \E i \in DOMAIN shown[c] : shown[c][i].seq = n

\* A client's own step leaves the other clients as they are.
LEMMA ClientStepGInv ==
  ASSUME IInv, GInv, Remembered, NEW c \in Clients, UNCHANGED leaderVars,
         \A e \in Clients \ {c} :
           /\ cst'[e] = cst[e] /\ toClient'[e] = toClient[e] /\ lastSeen'[e] = lastSeen[e]
           /\ shown'[e] = shown[e] /\ ((e \in blind') <=> (e \in blind)),
         cst[c] = "gone" => cst'[c] = "gone",
         c \in blind => c \in blind' \/ cst'[c] = "gone",
         \/ UNCHANGED toLeader
         \/ \E r : SendLeader(r) /\ (r.code = DELETE => r.from = c /\ cst'[c] = "gone"),
         Steady(c)' => Housed(c)', Whole(c)' /\ ~dangled => Unbroken(c)',
         Whole(c)' /\ ~dangled /\ cst'[c] = "in" /\ shown'[c] # <<>> => ShownAll(c)'
  PROVE  GInv'
<1> USE DEF leaderVars
<1>1. \A e \in Clients : cst[e] = "gone" => cst'[e] = "gone"
  OBVIOUS
<1>2. /\ \A e \in Clients : (Steady(e)' => Steady(e)) /\ (Whole(e)' => Whole(e))
      /\ Unsteady \subseteq Unsteady'
  BY UnsteadyKept
<1>3. Deserved'
  <2>1. toLeader \in Seq(SentRequests) /\ Deserved
    BY DEF IInv, Requested, GInv
  <2>2. ASSUME NEW i \in DOMAIN toLeader', toLeader'[i].code = DELETE
        PROVE  cst'[toLeader'[i].from] = "gone"
    <3>1. CASE i \in DOMAIN toLeader /\ toLeader'[i] = toLeader[i]
      <4>1. cst[toLeader[i].from] = "gone"
        BY <2>1, <2>2, <3>1 DEF Deserved
      <4>2. toLeader[i].from \in Clients
        <5>1. toLeader[i] \in SentRequests
          BY <2>1, <3>1
        <5> QED BY <2>2, <3>1, <5>1 DEF SentRequests, DELETE, CHAT, DEQUEUE
      <4> QED BY <1>1, <3>1, <4>1, <4>2
    <3>2. ASSUME NEW r, SendLeader(r), toLeader'[i] # toLeader[i] \/ i \notin DOMAIN toLeader
          PROVE  toLeader'[i] = r
      BY <2>1, <2>2, <3>2 DEF SendLeader
    <3> QED BY <2>2, <3>1, <3>2
  <2> QED BY <1>2, <2>1, <2>2 DEF Deserved
<1>4. ASSUME NEW e \in Clients, Steady(e)' PROVE Housed(e)'
  <2>1. CASE e # c
    BY <1>2, <1>4, <2>1 DEF GInv, Housed
  <2> QED BY <1>4, <2>1
<1>5. ASSUME NEW e \in Clients, Whole(e)', ~dangled PROVE Unbroken(e)'
  <2>1. CASE e # c
    <3>1. Unbroken(e)
      BY <1>2, <1>5 DEF GInv
    <3>2. Latest(e)' = Latest(e) /\ Coming(e)' = Coming(e) /\ Joins' = Joins
      BY <2>1 DEF Latest, Coming, Joins
    <3> QED BY <2>1, <3>1, <3>2, UnbrokenKept
  <2> QED BY <1>5, <2>1
<1>6. NoGap'
  <2> SUFFICES ASSUME ~dangled, NEW e \in Clients, e \notin blind', cst'[e] = "in",
                      shown'[e] # <<>>, Suffered(e)' \subseteq {"duplicate"}
               PROVE  ShownAll(e)'
    BY DEF NoGap, ShownAll
  <2>1. CASE e = c
    BY <2>1 DEF Steady, Whole
  <2>2. CASE e # c
    <3>1. Suffered(e) \subseteq {"duplicate"}
      BY DEF Remembered
    <3> QED BY <2>2, <3>1 DEF GInv, NoGap, ShownAll
  <2> QED BY <2>1, <2>2
<1> QED BY <1>3, <1>4, <1>5, <1>6 DEF GInv

\* A client that leaves, or is blind, misses nothing.
LEMMA UnsteadyGInv ==
  ASSUME IInv, GInv, Remembered, NEW c \in Clients, UNCHANGED <<leaderVars, shown>>,
         Leaves(c) \/ (Receives(c) /\ blind' = blind \cup {c} /\ cst[c] # "gone"
                       /\ cst' = [cst EXCEPT ![c] = "in"] /\ UNCHANGED lastSeen),
         UNCHANGED toLeader \/ (Leaves(c) /\ SendLeader(Request(DELETE, c, 0)))
  PROVE  GInv'
<1>1. \A e \in Clients \ {c} :
        /\ cst'[e] = cst[e] /\ toClient'[e] = toClient[e] /\ lastSeen'[e] = lastSeen[e]
        /\ shown'[e] = shown[e] /\ ((e \in blind') <=> (e \in blind))
  BY DEF Leaves, Receives, IInv, Types, ClientType, Sent
<1>2. ~Steady(c)' /\ ~Whole(c)'
  BY DEF Leaves, Steady, Whole, IInv, Types, ClientType
<1>3. (cst[c] = "gone" => cst'[c] = "gone") /\ (Leaves(c) => cst'[c] = "gone")
      /\ (c \in blind => c \in blind' \/ cst'[c] = "gone")
  BY DEF Leaves, IInv, Types, ClientType
<1>4. Request(DELETE, c, 0).from = c
  BY DEF Request
<1> QED BY <1>1, <1>2, <1>3, <1>4, ClientStepGInv

\* The head of c's socket, if it is a multicast, and what is behind it.
LEMMA NextNumber ==
  ASSUME IInv, NEW c \in Clients, Receives(c)
  PROVE  LET b == toClient[c] IN
         /\ b \in Seq(SentDatagrams(log)) /\ b # <<>> /\ b[1] = Head(b) /\ toClient'[c] = Tail(b)
         /\ NextCode(c) = b[1].code
         /\ \A n : IsNumber(b[1], n) =>
              n \in DOMAIN log /\ b[1].msg = log[n] /\ b[1].code = log[n].type
         /\ \A e \in Clients \ {c} : toClient'[e] = toClient[e]
<1> DEFINE b == toClient[c]
<1>1. /\ b \in Seq(SentDatagrams(log)) /\ b # <<>> /\ b[1] = Head(b) /\ toClient'[c] = Tail(b)
      /\ \A e \in Clients \ {c} : toClient'[e] = toClient[e]
  BY DEF Receives, IInv, Sent
<1>2. b[1] \in SentDatagrams(log)
  BY <1>1
<1>3. ASSUME NEW n, IsNumber(b[1], n)
      PROVE  n \in DOMAIN log /\ b[1].msg = log[n] /\ b[1].code = log[n].type
  BY <1>2, <1>3 DEF SentDatagrams, IsNumber, Multicast
<1> QED BY <1>1, <1>3 DEF NextCode

\* What is read without being shown is no multicast, or a line that nobody shows.
LEMMA ReadsGInv ==
  ASSUME IInv, GInv, Remembered, NEW c \in Clients, Receives(c),
         NextCode(c) \in {LIST_OF_USERS, DEQUEUE, JOIN},
         cst[c] \in {"joining", "in"}, cst' = [cst EXCEPT ![c] = "in"],
         UNCHANGED <<leaderVars, lastSeen, shown, blind>>,
         UNCHANGED toLeader \/ SendLeader(Request(RESOLVE_LEADER, c, 0))
  PROVE  GInv'
<1> USE DEF leaderVars
<1> DEFINE b == toClient[c]
<1>1. /\ b \in Seq(SentDatagrams(log)) /\ b # <<>> /\ toClient'[c] = Tail(b)
      /\ NextCode(c) = b[1].code
      /\ \A n : IsNumber(b[1], n) => n \in DOMAIN log /\ b[1].code = log[n].type
      /\ \A e \in Clients \ {c} : toClient'[e] = toClient[e]
  BY NextNumber
<1>2. cst'[c] = "in" /\ cst[c] # "gone" /\ \A e \in Clients \ {c} : cst'[e] = cst[e]
  BY DEF IInv, Types, ClientType
<1>3. (Steady(c)' => Steady(c)) /\ (Whole(c)' => Whole(c))
  BY <1>2, UnsteadyKept
<1>7. ASSUME Steady(c)' PROVE Housed(c)'
  BY <1>1, <1>2, <1>3, <1>7 DEF GInv, Housed
<1>4. ASSUME Whole(c)', ~dangled PROVE Unbroken(c)'
  <2>1. Gapless(b, Latest(c), Coming(c), Joins)
    BY <1>3, <1>4 DEF GInv, Unbroken
  <2>2. \A n \in Nat : IsNumber(b[1], n) => n \in Joins
    BY <1>1 DEF Joins, IsNumber
  <2>3. Latest(c) \subseteq Nat
    BY DEF Latest, IInv, Types, ClientType
  <2> HIDE DEF b
  <2>4. Gapless(Tail(b), Latest(c), Coming(c), Joins)
    BY <1>1, <2>1, <2>2, <2>3, GaplessTail
  <2>5. Latest(c)' = Latest(c) /\ Coming(c)' = Coming(c) /\ Joins' = Joins
    BY DEF Latest, Coming, Joins
  <2> QED BY <1>1, <2>4, <2>5 DEF Unbroken
<1>5. ASSUME Whole(c)', ~dangled, shown'[c] # <<>> PROVE ShownAll(c)'
  <2>1. cst[c] = "in" /\ c \notin blind /\ Suffered(c) \subseteq {"duplicate"}
    BY <1>3, <1>5 DEF GInv, Housed, Steady, Whole
  <2> QED BY <1>5, <2>1 DEF GInv, NoGap, ShownAll
<1>6. Request(RESOLVE_LEADER, c, 0).code # DELETE
  BY DEF Request, RESOLVE_LEADER, DELETE
<1> HIDE DEF b
<1> QED BY <1>1, <1>2, <1>7, <1>4, <1>5, <1>6, ClientStepGInv

\* What is shown is the number that follows, but for lines that nobody shows.
LEMMA DisplayGInv ==
  ASSUME IInv, GInv, Remembered, NEW c \in Clients, Receives(c), Display(c, Head(toClient[c])),
         NextCode(c) \notin {LIST_OF_USERS, DEQUEUE}, cst[c] = "in",
         UNCHANGED <<leaderVars, cst, blind, toLeader>>
  PROVE  GInv'
<1> USE DEF leaderVars
<1> DEFINE b == toClient[c]
           s == shown[c]
           q == b[1].seq
<1>1. /\ b \in Seq(SentDatagrams(log)) /\ b # <<>> /\ toClient'[c] = Tail(b)
      /\ b[1] = Head(b) /\ IsNumber(b[1], q) /\ q \in DOMAIN log
      /\ \A e \in Clients \ {c} : toClient'[e] = toClient[e]
  BY NextNumber DEF IsNumber
<1>2. log \in Seq(TypedMessages) /\ q \in Nat \ {0} /\ lastSeen[c] \in Nat
  BY <1>1 DEF IInv, Typed, Types, ClientType
<1>3. /\ shown \in [Clients -> Seq(Lines(log))] /\ lastSeen \in [Clients -> Nat]
      /\ lastSeen[c] = Abstract!LastOn(s)
  BY DEF IInv, Displayed, Types, ClientType
<1>4. \A e \in Clients \ {c} : lastSeen'[e] = lastSeen[e] /\ shown'[e] = shown[e]
  BY <1>3 DEF Display
<1>5. Latest(c) \subseteq Nat /\ \A l \in Latest(c) : l = lastSeen[c]
  BY <1>2 DEF Latest
<1>6. /\ Coming(c)' = Coming(c) /\ Joins' = Joins
      /\ (Steady(c)' => Steady(c)) /\ (Whole(c)' => Whole(c))
  BY UnsteadyKept DEF Coming, Joins
<1>7. ASSUME Steady(c)' PROVE Housed(c)'
  BY <1>1, <1>6, <1>7 DEF GInv, Housed
<1>8. ASSUME Whole(c)', ~dangled
      PROVE  /\ Gapless(b, Latest(c), Coming(c), Joins)
             /\ s # <<>> => ShownAll(c)
  BY <1>6, <1>8 DEF GInv, Unbroken, NoGap, ShownAll, Steady, Whole
<1>9. CASE q > lastSeen[c]
  <2> DEFINE line == [seq |-> q, msg |-> b[1].msg]
             t == Append(s, line)
  <2>1. lastSeen'[c] = q /\ shown'[c] = t
    BY <1>1, <1>3, <1>9 DEF Display
  <2>2. Latest(c)' = {q}
    <3>1. t # <<>>
      BY <1>3
    <3> QED BY <2>1, <3>1 DEF Latest
  <2>3. ASSUME Whole(c)', ~dangled PROVE Unbroken(c)'
    <3>1. Gapless(b, Latest(c), Coming(c), Joins)
      BY <1>8, <2>3
    <3>2. \A e \in Latest(c) : e < q
      BY <1>5, <1>9
    <3> HIDE DEF b, q
    <3>3. Gapless(Tail(b), {q}, Coming(c), Joins)
      BY <1>1, <1>2, <1>5, <3>1, <3>2, GaplessTail
    <3> QED BY <1>1, <1>6, <2>2, <3>3 DEF Unbroken
  <2>4. ASSUME Whole(c)', ~dangled PROVE ShownAll(c)'
    <3>1. /\ Len(s) \in Nat /\ DOMAIN s = 1..Len(s) /\ DOMAIN t = 1..(Len(s) + 1)
          /\ t[Len(s) + 1] = line /\ \A i \in 1..Len(s) : t[i] = s[i]
      BY <1>3
    <3>2. \E i \in DOMAIN t : t[i].seq = q
      BY <3>1
    <3>3. CASE s = <<>>
      <4>1. t[1].seq = q
        BY <3>1, <3>3
      <4>2. \A n \in t[1].seq .. q : n = q
        BY <1>2, <4>1
      <4> QED BY <2>1, <3>2, <4>2 DEF ShownAll
    <3>4. CASE s # <<>>
      <4>1. ASSUME NEW n \in (lastSeen[c] + 1)..(q - 1) PROVE log[n].type = JOIN
        <5>1. NumberAt(b, Latest(c), Coming(c), 0, lastSeen[c])
          BY <3>4 DEF NumberAt, Latest
        <5>2. NumberAt(b, Latest(c), Coming(c), 1, q) /\ 0 \in 0..Len(b) /\ 1 \in 1..(Len(b) + 1)
          <6>1. Len(b) \in Nat /\ Len(b) # 0
            BY <1>1
          <6> QED BY <1>1, <6>1 DEF NumberAt
        <5>3. Gapless(b, Latest(c), Coming(c), Joins)
          BY <1>8, <2>4
        <5>4. n \in lastSeen[c]..(q - 1) /\ \A e \in Latest(c) : ~(n <= e)
          BY <1>2, <1>5
        <5> HIDE DEF b, q, s
        <5>5. \/ n \in Joins \/ \E e \in Latest(c) : n <= e
              \/ \E k \in 1..(1 - 1) : IsNumber(b[k], n)
          BY <1>2, <5>1, <5>2, <5>3, <5>4 DEF Gapless
        <5> QED BY <5>4, <5>5 DEF Joins
      <4>2. ShownAll(c) /\ t[1] = s[1]
        <5>1. 1 \in 1..Len(s)
          BY <1>3, <3>4
        <5> QED BY <1>8, <2>4, <3>1, <3>4, <5>1
      <4>3. s[1].seq \in Nat
        <5>1. s[1] \in Lines(log)
          BY <1>3, <3>4
        <5>2. \A d \in Lines(log) : d.seq \in Nat
          BY <1>2 DEF Lines
        <5> QED BY <5>1, <5>2
      <4> HIDE DEF t, s, q
      <4>4. ASSUME NEW n \in t[1].seq .. q
            PROVE  log[n].type = JOIN \/ \E i \in DOMAIN t : t[i].seq = n
        <5>1. n \in s[1].seq .. lastSeen[c] \/ n \in (lastSeen[c] + 1)..(q - 1) \/ n = q
          BY <1>2, <4>2, <4>3
        <5>2. CASE n \in s[1].seq .. lastSeen[c]
          <6>1. log[n].type = JOIN \/ \E i \in DOMAIN s : s[i].seq = n
            BY <4>2, <5>2 DEF ShownAll, s
          <6>2. \A i \in DOMAIN s : i \in DOMAIN t /\ t[i] = s[i]
            BY <3>1
          <6> QED BY <6>1, <6>2
        <5> QED BY <3>2, <4>1, <5>1, <5>2
      <4> QED BY <2>1, <4>4 DEF ShownAll
    <3> QED BY <3>3, <3>4
  <2> HIDE DEF b, q, s
  <2> QED BY <1>1, <1>4, <1>6, <1>7, <2>3, <2>4, ClientStepGInv
<1>10. CASE ~(q > lastSeen[c])
  <2>1. UNCHANGED <<lastSeen, shown>>
    BY <1>1, <1>10 DEF Display
  <2>2. ASSUME Whole(c)', ~dangled PROVE Unbroken(c)'
    <3>1. Gapless(b, Latest(c), Coming(c), Joins) /\ Latest(c)' = Latest(c)
      BY <1>8, <2>1, <2>2 DEF Latest
    <3>2. \A n \in Nat : IsNumber(b[1], n) => \E l \in Latest(c) : n <= l
      <4>1. s # <<>>
        BY <1>2, <1>3, <1>10 DEF Abstract!LastOn
      <4>2. lastSeen[c] \in Latest(c) /\ q <= lastSeen[c]
        BY <1>2, <1>10, <4>1 DEF Latest
      <4> QED BY <4>2 DEF IsNumber
    <3> HIDE DEF b, q
    <3>3. Gapless(Tail(b), Latest(c), Coming(c), Joins)
      BY <1>1, <1>5, <3>1, <3>2, GaplessTail
    <3> QED BY <1>1, <1>6, <3>1, <3>3 DEF Unbroken
  <2>3. ASSUME Whole(c)', ~dangled, shown'[c] # <<>> PROVE ShownAll(c)'
    BY <1>8, <2>1, <2>3 DEF ShownAll
  <2> HIDE DEF b, q, s
  <2> QED BY <1>1, <1>4, <1>6, <1>7, <2>2, <2>3, ClientStepGInv
<1> QED BY <1>9, <1>10

\* A client joins a chat of which it has heard nothing.
LEMMA JoinGInv ==
  ASSUME IInv, GInv, Remembered, NEW c \in Clients, Join(c)
  PROVE  GInv'
<1>1. /\ cst[c] = "out" /\ cst' = [cst EXCEPT ![c] = "joining"]
      /\ SendLeader(Request(JOIN, c, 1))
      /\ UNCHANGED <<leaderVars, lastSeen, blind, shown, toClient>>
  BY DEF Join
<1>2. cst'[c] = "joining" /\ \A e \in Clients \ {c} : cst'[e] = cst[e]
  BY <1>1 DEF IInv, Types, ClientType
<1>3. Steady(c)' => Steady(c)
  BY <1>1, <1>2, UnsteadyKept
<1>4. ASSUME Steady(c)' PROVE Housed(c)' /\ Unbroken(c)'
  <2>1. toClient[c] = <<>> /\ shown[c] = <<>>
    BY <1>1, <1>3, <1>4 DEF GInv, Housed
  <2>2. Latest(c)' = {}
    BY <1>1, <2>1 DEF Latest
  <2> QED BY <1>1, <1>2, <2>1, <2>2, UnbrokenEmpty DEF Housed
<1>5. Request(JOIN, c, 1).code # DELETE
  BY DEF Request, JOIN, DELETE
<1> QED BY <1>1, <1>2, <1>4, <1>5, ClientStepGInv DEF Whole

\* The rest of what a client does.
LEMMA ClientGInv ==
  ASSUME IInv, GInv, Remembered, NEW c \in Clients, ClientStep(c)
  PROVE  GInv'
<1> USE DEF clientVars
<1>1. CASE ReadList(c)
  BY <1>1, ReadsGInv DEF ReadList
<1>2. CASE MissList(c)
  BY <1>2, UnsteadyGInv DEF MissList
<1>3. CASE JoinTimeout(c) \/ ExitChatroom(c) \/ Crash(c)
  BY <1>3, UnsteadyGInv DEF JoinTimeout, ExitChatroom, Crash
<1>4. CASE SendChat(c)
  <2>1. UNCHANGED <<leaderVars, cst, lastSeen, blind, shown, toClient>>
        /\ SendLeader(Request(CHAT, c, 2)) /\ cst[c] = "in"
    BY <1>4 DEF SendChat
  <2>2. Request(CHAT, c, 2).code # DELETE
    BY DEF Request, CHAT, DELETE
  <2>3. /\ (Steady(c)' => Steady(c)) /\ (Whole(c)' => Whole(c))
        /\ Coming(c)' = Coming(c) /\ Latest(c)' = Latest(c) /\ Joins' = Joins
    BY <2>1, UnsteadyKept DEF leaderVars, Coming, Latest, Joins
  <2>4. Steady(c)' => Housed(c)'
    BY <2>1, <2>3 DEF leaderVars, GInv, Housed
  <2>5. Whole(c)' /\ ~dangled => Unbroken(c)'
    BY <2>1, <2>3, UnbrokenKept DEF GInv
  <2>6. Whole(c)' /\ ~dangled /\ shown'[c] # <<>> => ShownAll(c)'
    BY <2>1, <2>3 DEF leaderVars, GInv, NoGap, ShownAll, Steady, Whole
  <2> QED BY <2>1, <2>2, <2>3, <2>4, <2>5, <2>6, ClientStepGInv
<1>5. CASE ReceiveDequeue(c) \/ ReceiveJoin(c) \/ ReceiveList(c)
  <2>1. /\ Receives(c) /\ cst[c] = "in" /\ UNCHANGED <<leaderVars, cst, lastSeen, shown, blind>>
        /\ NextCode(c) \in {LIST_OF_USERS, DEQUEUE, JOIN}
        /\ UNCHANGED toLeader \/ SendLeader(Request(RESOLVE_LEADER, c, 0))
    BY <1>5 DEF ReceiveDequeue, ReceiveJoin, ReceiveList, Hearing
  <2>2. cst' = [cst EXCEPT ![c] = "in"]
    BY <2>1 DEF IInv, Types, ClientType
  <2> QED BY <2>1, <2>2, ReadsGInv
<1>6. CASE ReceiveChat(c) \/ ReceiveAddUser(c) \/ ReceiveDelete(c)
  <2>1. /\ Receives(c) /\ cst[c] = "in" /\ UNCHANGED <<leaderVars, cst, blind, toLeader>>
        /\ Display(c, Head(toClient[c]))
    BY <1>6 DEF ReceiveChat, ReceiveAddUser, ReceiveDelete, Hearing
  <2>2. NextCode(c) \notin {LIST_OF_USERS, DEQUEUE}
    BY <1>6 DEF ReceiveChat, ReceiveAddUser, ReceiveDelete, IsChat,
                CHAT, ADD_USER, DELETE, LIST_OF_USERS, DEQUEUE
  <2> QED BY <2>1, <2>2, DisplayGInv
<1> QED BY <1>1, <1>2, <1>3, <1>4, <1>5, <1>6, JoinGInv DEF ClientStep, Joiner, Receiver

\* What the network loses or delays for c keeps nothing from the others, and
\* what it repeats keeps nothing from c.
LEMMA NetworkGInv ==
  ASSUME IInv, GInv, Remembered, Lose \/ Delay \/ Duplicate
  PROVE  GInv'
<1> USE DEF leaderVars, clientVars
<1>1. UNCHANGED <<leaderVars, clientVars>> /\ Deserved
  BY Disturbance DEF GInv
<1>2. /\ Unsteady \subseteq Unsteady'
      /\ \A c \in Clients : (Steady(c)' => Steady(c)) /\ (Whole(c)' => Whole(c))
  BY <1>1, UnsteadyKept
<1>3. \A c \in Clients : Coming(c)' = Coming(c) /\ Latest(c)' = Latest(c) /\ Joins' = Joins
  BY <1>1 DEF Coming, Latest, Joins
<1>4. ASSUME NEW kind, NEW i \in DOMAIN toLeader, UNCHANGED toClient,
             toLeader' = Outcome(kind, toLeader, i)
      PROVE  GInv'
  <2>1. \A j \in DOMAIN toLeader' : \E k \in DOMAIN toLeader : toLeader'[j] = toLeader[k]
    BY <1>4, OutcomeHolds DEF IInv, Requested
  <2>2. Deserved'
    BY <1>1, <1>2, <2>1 DEF Deserved
  <2> QED BY <1>1, <1>3, <1>4, <2>2, QuietGInv
<1>5. ASSUME NEW kind \in {"lose", "delay", "duplicate"}, NEW x \in Clients,
             NEW i \in DOMAIN toClient[x], UNCHANGED toLeader, Fault(kind, x),
             toClient' = [toClient EXCEPT ![x] = Outcome(kind, toClient[x], i)]
      PROVE  GInv'
  <2>1. toClient[x] \in Seq(SentDatagrams(log)) /\ toClient[x] # <<>>
    BY <1>5 DEF IInv, Sent
  <2>2. /\ toClient'[x] = Outcome(kind, toClient[x], i)
        /\ \A c \in Clients \ {x} : toClient'[c] = toClient[c]
    BY <1>5 DEF IInv, Sent
  <2>3. Deserved'
    BY <1>1, <1>2, <1>5 DEF Deserved
  <2>4. ASSUME NEW c \in Clients, Steady(c)' PROVE Housed(c)'
    <3>1. toClient'[c] # <<>> => toClient[c] # <<>>
      BY <2>1, <2>2
    <3>2. cst[c] = "out" => toClient'[c] = toClient[c]
      BY <1>2, <2>1, <2>2, <2>4 DEF GInv, Housed
    <3> QED BY <1>1, <1>2, <2>4, <3>1, <3>2 DEF GInv, Housed
  <2>5. ASSUME NEW c \in Clients, Whole(c)', ~dangled PROVE Unbroken(c)'
    <3>1. Unbroken(c)
      BY <1>2, <2>5 DEF GInv
    <3>2. CASE c = x
      <4>1. kind = "duplicate"
        <5>1. kind \in Suffered(x)'
          BY <1>5, Suffering DEF IInv, Types, Ids
        <5> QED BY <2>5, <3>2, <5>1 DEF Whole
      <4>2. toClient'[x] = Append(toClient[x], toClient[x][i])
        BY <2>2, <4>1 DEF Outcome, Twice
      <4>3. Gapless(Append(toClient[x], toClient[x][i]), Latest(x), Coming(x), Joins)
        BY <1>5, <2>1, <3>1, <3>2, GaplessTwice DEF Unbroken
      <4> QED BY <1>3, <3>2, <4>2, <4>3 DEF Unbroken
    <3>3. CASE c # x
      BY <1>3, <2>2, <3>1, <3>3, UnbrokenKept
    <3> QED BY <3>2, <3>3
  <2>6. NoGap'
    BY <1>1, NoGapKept DEF GInv
  <2> QED BY <1>1, <2>3, <2>4, <2>5, <2>6 DEF GInv
<1> QED BY <1>4, <1>5, Disturbance

\* At first nobody has been sent anything.
LEMMA InitGInv == Init => GInv
<1> SUFFICES ASSUME Init PROVE GInv
  OBVIOUS
<1>1. Deserved /\ NoGap
  BY DEF Init, Deserved, Listening, NoGap
<1>2. ASSUME NEW c \in Clients PROVE Housed(c) /\ Unbroken(c)
  <2>1. toClient[c] = <<>> /\ Latest(c) = {}
    BY DEF Init, Latest
  <2> QED BY <2>1, GaplessEmpty DEF Init, Housed, Unbroken
<1> QED BY <1>1, <1>2 DEF GInv

\* Every step preserves GInv.
LEMMA NextGInv ==
  ASSUME IInv, GInv, [Next]_vars
  PROVE  GInv'
<1>1. Remembered
  BY NextRemembers
<1>2. CASE UNCHANGED vars
  <2>1. Unsteady \subseteq Unsteady'
    BY <1>1, <1>2, UnsteadyKept DEF vars, clientVars
  <2>2. Deserved' /\ \A c \in Clients : Coming(c)' = Coming(c)
    BY <1>2, <2>1 DEF vars, leaderVars, clientVars, GInv, Deserved, Coming
  <2> QED BY <1>1, <1>2, <2>2, QuietGInv DEF vars, leaderVars
<1> QED BY <1>1, <1>2, ProducerGInv, ConsumerGInv, LeaderGInv, ClientGInv, NetworkGInv DEF Next

\* Whoever joins, speaks, crashes, leaves and is expelled meanwhile, and whatever
\* is lost, late or repeated on its way to the leader and to others, a client in
\* the room to which everything comes in order, be it more than once, and that
\* is not suspected misses nothing from its first message on, unless the
\* consumer's iterator has gone astray (leader.cpp's consumerTask, client.cpp's
\* receiver).
THEOREM NothingMissed == Spec => []NoGap
<1>1. IInv /\ GInv /\ [Next]_vars => GInv'
  BY NextGInv
<1>2. GInv => NoGap
  BY DEF GInv
<1> QED BY <1>1, <1>2, InitIInv, NextIInv, InitGInv, PTL DEF Spec
=============================================================================
