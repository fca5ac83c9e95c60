----------------------------- MODULE ClientProofs -----------------------------
(****************************************************************************)
(* What a client of Sequencer shows and whom it knows, for any number of    *)
(* clients, whatever happens to others.                                     *)
(*                                                                          *)
(* A line leaves its sender's queue only after its sender has shown it: the *)
(* consumer sends the DEQUEUE after the loop that has sent the line         *)
(* (Placed), the socket keeps the two in order (Preceded), and the line is  *)
(* shown when its first copy is read, because no later number has been      *)
(* (Fresh), which follows from the order of first copies (Gapless).         *)
(*                                                                          *)
(* A member of the chat knows everybody in the room, or has the ADD_USER    *)
(* coming: every list that it has, or may yet join with, was the whole room *)
(* when it was sent, and who comes into the room later is announced (KInv). *)
(****************************************************************************)
EXTENDS DeliveryProofs

------------------------------------------------------------------------------
(* Displayed before dequeued.                                               *)

IsLine(m, c) == IsChat(m.type) /\ m.from = c /\ m.mid = 2
CarriesLine(d, c) == IsChat(d.code) /\ d.msg.from = c /\ d.msg.mid = 2

\* c has shown its line, or its line is in c's socket.
Displays(c) == \E m \in Shown(c) : m.from = c /\ m.mid = 2
Placed(c) == Displays(c) \/ \E i \in DOMAIN toClient[c] : CarriesLine(toClient[c][i], c)

\* The consumer has c's line, and has sent it to c.
Passed(c) == /\ con.pc \in {"mcast", "tail"} /\ IsLine(con.msg, c)
             /\ con.pc = "tail" \/ con.at >= c

\* A DEQUEUE comes to c behind its line.
Preceded(c) ==
  \A i \in DOMAIN toClient[c] : toClient[c][i].code = DEQUEUE =>
    Displays(c) \/ \E j \in 1..(i - 1) : CarriesLine(toClient[c][j], c)

\* When c's line comes, c has shown it, or nothing later.
Fresh(c) ==
  \A i \in DOMAIN toClient[c] : CarriesLine(toClient[c][i], c) =>
    Displays(c) \/ toClient[c][i].seq > lastSeen[c]

LineKept(c) ==
  /\ Passed(c) => Placed(c)
  /\ Preceded(c) /\ Fresh(c)
  /\ c \in spoke /\ cq[c] = 0 => Displays(c)

LInv == dangled \/ \A c \in Clients : Whole(c) => LineKept(c)

\* What comes to c's socket comes behind what is in it.
LEMMA SocketKeepsLine ==
  ASSUME NEW S, NEW c \in Clients, toClient[c] \in Seq(S),
         shown'[c] = shown[c], lastSeen'[c] = lastSeen[c],
         \/ toClient'[c] = toClient[c]
         \/ \E d \in S : toClient'[c] = Append(toClient[c], d)
  PROVE  /\ Displays(c)' = Displays(c)
         /\ Placed(c) => Placed(c)'
         /\ (\A i \in DOMAIN toClient'[c] : i \in DOMAIN toClient[c] \/ toClient'[c][i].code # DEQUEUE)
              /\ Preceded(c) => Preceded(c)'
         /\ (\A i \in DOMAIN toClient'[c] :
               i \in DOMAIN toClient[c] \/ ~CarriesLine(toClient'[c][i], c)
                 \/ Displays(c) \/ toClient'[c][i].seq > lastSeen[c])
              /\ Fresh(c) => Fresh(c)'
<1> DEFINE b == toClient[c]
           t == toClient'[c]
<1>1. Displays(c)' = Displays(c)
  BY DEF Displays, Shown
<1>2. \A i \in DOMAIN b : i \in DOMAIN t /\ t[i] = b[i] /\ \A j \in 1..(i - 1) : j \in DOMAIN b
  OBVIOUS
<1> HIDE DEF b, t
<1>3. Placed(c) => Placed(c)'
  BY <1>1, <1>2 DEF Placed, b, t
<1>4. ASSUME \A i \in DOMAIN t : i \in DOMAIN b \/ t[i].code # DEQUEUE, Preceded(c)
      PROVE  Preceded(c)'
  <2> SUFFICES ASSUME NEW i \in DOMAIN t, t[i].code = DEQUEUE, ~Displays(c)
               PROVE  \E j \in 1..(i - 1) : CarriesLine(t[j], c)
    BY <1>1 DEF Preceded, t
  <2>1. i \in DOMAIN b /\ b[i].code = DEQUEUE
    BY <1>2, <1>4
  <2>2. PICK j \in 1..(i - 1) : CarriesLine(b[j], c)
    BY <1>4, <2>1 DEF Preceded, b
  <2> QED BY <1>2, <2>1, <2>2
<1>5. ASSUME \A i \in DOMAIN t : i \in DOMAIN b \/ ~CarriesLine(t[i], c)
                                   \/ Displays(c) \/ t[i].seq > lastSeen[c],
             Fresh(c)
      PROVE  Fresh(c)'
  <2> SUFFICES ASSUME NEW i \in DOMAIN t, CarriesLine(t[i], c), ~Displays(c)
               PROVE  t[i].seq > lastSeen[c]
    BY <1>1 DEF Fresh, t
  <2>1. CASE i \in DOMAIN b
    BY <1>2, <1>5, <2>1 DEF Fresh, b
  <2> QED BY <1>5, <2>1
<1> QED BY <1>1, <1>3, <1>4, <1>5 DEF b, t

\* A list of users, or nothing, changes nothing.
LEMMA LineStays ==
  ASSUME IInv, NEW c \in Clients, LineKept(c), Passed(c)' => Passed(c),
         lastSeen'[c] = lastSeen[c], shown'[c] = shown[c], cq'[c] = cq[c],
         c \in spoke' => c \in spoke,
         \/ toClient'[c] = toClient[c]
         \/ \E d \in SentDatagrams(log) : /\ toClient'[c] = Append(toClient[c], d)
                                          /\ d.code = LIST_OF_USERS
  PROVE  LineKept(c)'
<1> DEFINE b == toClient[c]
           t == toClient'[c]
<1>1. b \in Seq(SentDatagrams(log))
  BY DEF IInv, Sent
<1>2. \A i \in DOMAIN t : i \in DOMAIN b \/ t[i].code = LIST_OF_USERS
  BY <1>1
<1>3. \A i \in DOMAIN t : i \in DOMAIN b \/ (t[i].code # DEQUEUE /\ ~CarriesLine(t[i], c))
  BY <1>2 DEF CarriesLine, IsChat, LIST_OF_USERS, DEQUEUE, CHAT
<1>4. /\ Displays(c)' = Displays(c) /\ (Placed(c) => Placed(c)')
      /\ (Preceded(c) => Preceded(c)') /\ (Fresh(c) => Fresh(c)')
  BY <1>1, <1>3, SocketKeepsLine
<1> QED BY <1>4 DEF LineKept

\* A leader's step that sends nothing, or a list of users.
LEMMA QuietLInv ==
  ASSUME IInv, LInv, Remembered, UNCHANGED clientVars, dangled => dangled',
         \A c \in Clients : Passed(c)' => Passed(c),
         \/ UNCHANGED toClient
         \/ \E x \in Clients : \E d \in SentDatagrams(log) :
              SendClient(x, d) /\ d.code = LIST_OF_USERS
  PROVE  LInv'
<1> SUFFICES ASSUME ~dangled, NEW c \in Clients, Whole(c)' PROVE LineKept(c)'
  BY DEF LInv
<1>1. \/ toClient'[c] = toClient[c]
      \/ \E d \in SentDatagrams(log) : /\ toClient'[c] = Append(toClient[c], d)
                                       /\ d.code = LIST_OF_USERS
  BY DEF SendClient, IInv, Sent
<1>2. Whole(c)
  BY UnsteadyKept DEF clientVars
<1> QED BY <1>1, <1>2, LineStays DEF clientVars, LInv

\* The dead send nothing.
LEMMA LeaderDiesLInv ==
  ASSUME IInv, LInv, Remembered, LeaderDies, UNCHANGED <<clientVars, toClient>>,
         dangled => dangled'
  PROVE  LInv'
<1>1. \A c \in Clients : ~Passed(c)'
  BY DEF LeaderDies, Passed, Idle
<1> QED BY <1>1, QuietLInv

\* The producer, the leader's user and the failure detector multicast nothing.
LEMMA LeaderLInv ==
  ASSUME IInv, LInv, Remembered,
         Producer \/ LeaderTypes \/ LeaderQuits \/ \E c \in Clients : Suspect(c)
  PROVE  LInv'
<1> USE DEF leaderVars
<1>1. ASSUME con'.pc = con.pc, con'.at = con.at, con'.msg = con.msg
      PROVE  \A c \in Clients : Passed(c)' => Passed(c)
  BY <1>1 DEF Passed
<1>2. ASSUME NEW x \in Clients, DeleteUser(x)
      PROVE  con'.pc = con.pc /\ con'.at = con.at /\ con'.msg = con.msg
  BY <1>2 DEF DeleteUser, IInv, Types, ThreadType
<1>3. CASE HandleJoin \/ IgnoreOldChat \/ HandleInvalid \/ HandleChat \/ ProducerWakes \/ LeaderTypes
  <2>1. UNCHANGED <<con, dangled, clientVars, toClient>>
    BY <1>3 DEF HandleJoin, IgnoreOldChat, HandleInvalid, HandleChat, ProducerWakes, LeaderTypes
  <2> QED BY <1>1, <2>1, QuietLInv
<1>4. CASE HandleDelete
  <2>1. Head(toLeader).from \in Clients
    <3>1. toLeader # <<>> /\ toLeader \in Seq(SentRequests) /\ Head(toLeader).code = DELETE
      BY <1>4 DEF HandleDelete, Hears, IInv, Requested
    <3>2. Head(toLeader) \in SentRequests
      BY <3>1
    <3> QED BY <3>1, <3>2 DEF SentRequests, DELETE, CHAT, DEQUEUE
  <2>2. UNCHANGED <<dangled, clientVars, toClient>>
    BY <1>4 DEF HandleDelete
  <2>3. con'.pc = con.pc /\ con'.at = con.at /\ con'.msg = con.msg
    BY <1>2, <1>4, <2>1 DEF HandleDelete
  <2> QED BY <1>1, <2>2, <2>3, QuietLInv
<1>5. CASE HandleDequeue
  <2>1. CASE LeaderDies
    BY <1>5, <2>1, LeaderDiesLInv DEF HandleDequeue
  <2>2. CASE ~LeaderDies
    <3>1. UNCHANGED <<con, dangled, clientVars, toClient>>
      BY <1>5, <2>2 DEF HandleDequeue
    <3> QED BY <1>1, <3>1, QuietLInv
  <2> QED BY <2>1, <2>2
<1>6. CASE WelcomeUser
  <2> DEFINE d == UserList(chatRoom)
  <2>1. prod.id \in Clients /\ chatRoom \in SUBSET Ids
    BY <1>6 DEF WelcomeUser, IInv, Requested, Types, LeaderType
  <2>2. d \in SentDatagrams(log) /\ d.code = LIST_OF_USERS
    BY <2>1 DEF UserList, SentDatagrams
  <2>3. SendClient(prod.id, d) /\ UNCHANGED <<con, dangled, clientVars>>
    BY <1>6 DEF WelcomeUser
  <2> HIDE DEF d
  <2> QED BY <1>1, <2>1, <2>2, <2>3, QuietLInv
<1>7. CASE LeaderQuits
  BY <1>7, LeaderDiesLInv DEF LeaderQuits
<1>8. ASSUME NEW x \in Clients, Suspect(x) PROVE LInv'
  <2>1. CASE LeaderDies
    BY <1>8, <2>1, LeaderDiesLInv DEF Suspect
  <2>2. CASE DeleteUser(x)
    <3>1. UNCHANGED <<dangled, clientVars, toClient>>
      BY <1>8 DEF Suspect
    <3> QED BY <1>1, <1>2, <2>2, <3>1, QuietLInv
  <2> QED BY <1>8, <2>1, <2>2 DEF Suspect
<1> QED BY <1>3, <1>4, <1>5, <1>6, <1>7, <1>8 DEF Producer

\* Whoever awaits its line is in the room, if it is steady.
LEMMA PassedIsThere ==
  ASSUME IInv, DInv, GInv, up, NEW c \in Clients, Steady(c),
         con.pc \in {"mcast", "tail"}, IsLine(con.msg, c)
  PROVE  cst[c] = "in" /\ c \in chatRoom
<1>1. c \in spoke
  BY DEF IsLine, Handled, Awaited, DInv, Owed, Steady
<1>2. cst[c] = "in"
  BY <1>1 DEF DInv
<1> QED BY <1>2 DEF GInv, Housed

\* What comes next to c is later than all it has shown.
LEMMA ComingIsLater ==
  ASSUME IInv, NEW c \in Clients, Steady(c), Unbroken(c), NEW m \in Coming(c), m \in Nat \ {0}
  PROVE  m > lastSeen[c]
<1>1. /\ lastSeen[c] \in Nat /\ toClient[c] \in Seq(SentDatagrams(log))
      /\ shown[c] = <<>> => lastSeen[c] = 0
  <2>1. lastSeen[c] \in Nat /\ toClient[c] \in Seq(SentDatagrams(log))
    BY DEF IInv, Types, ClientType, Sent
  <2>2. lastSeen[c] = Abstract!LastOn(shown[c])
    BY DEF IInv, Displayed, Steady
  <2> QED BY <2>1, <2>2 DEF Abstract!LastOn
<1>2. CASE shown[c] = <<>>
  BY <1>1, <1>2
<1>3. CASE shown[c] # <<>>
  <2>1. NumberAt(toClient[c], Latest(c), Coming(c), 0, lastSeen[c]) /\ 0 \in 0..Len(toClient[c])
    BY <1>1, <1>3 DEF NumberAt, Latest
  <2>2. lastSeen[c] < m
    BY <1>1, <2>1 DEF Unbroken, Gapless
  <2> QED BY <1>1, <2>2
<1> QED BY <1>2, <1>3

\* The loop sends a line to its sender when it comes to him.
LEMMA NextRecipientLInv ==
  ASSUME IInv, DInv, GInv, LInv, Remembered, NextRecipient
  PROVE  LInv'
<1> SUFFICES ASSUME ~dangled, NEW c \in Clients, Whole(c)' PROVE LineKept(c)'
  BY DEF LInv, NextRecipient
<1>0. /\ up /\ con.pc = "mcast" /\ con.at \in Nat /\ seqNum \in DOMAIN log
      /\ con.msg = log[seqNum] /\ seqNum \in Nat \ {0}
      /\ UNCHANGED <<up, log, dangled, seqNum, clientVars>>
  <2>1. con.at \in Ids \cup {0}
    BY DEF IInv, Types, ThreadType
  <2>2. up /\ con.pc = "mcast" /\ seqNum \in DOMAIN log /\ con.msg = log[seqNum]
    BY DEF NextRecipient, IInv, Numbered
  <2>3. UNCHANGED <<up, log, dangled, seqNum, clientVars>>
    BY DEF NextRecipient
  <2>4. \A i \in Ids \cup {0} : i \in Nat
    BY SequencerAssumption DEF Ids
  <2>5. log \in Seq(TypedMessages)
    BY DEF IInv, Typed
  <2> QED BY <2>1, <2>2, <2>3, <2>4, <2>5
<1>1. Whole(c) /\ Steady(c) /\ LineKept(c) /\ Unbroken(c)
  BY <1>0, UnsteadyKept DEF LInv, GInv, Whole, clientVars
<1>2. /\ lastSeen'[c] = lastSeen[c] /\ shown'[c] = shown[c] /\ cq'[c] = cq[c]
      /\ spoke' = spoke /\ c \in Nat /\ c # Leader
  BY <1>0, SequencerAssumption DEF clientVars
<1>3. toClient[c] \in Seq(SentDatagrams(log))
  BY DEF IInv, Sent
<1>4. IsLine(con.msg, c) => cst[c] = "in" /\ c \in Others
  BY <1>0, <1>1, <1>2, PassedIsThere DEF Others
<1>5. ASSUME NEW x \in Others, con.at < x, \A d \in Others : d > con.at => x <= d, SendTo(x)
      PROVE  LineKept(c)'
  <2> DEFINE d == Multicast(con.msg, seqNum)
  <2>1. x \in Clients /\ x \in Nat
    BY SequencerAssumption DEF Others, IInv, Types, LeaderType, Ids
  <2>2. SendClient(x, d) /\ con'.pc = "mcast" /\ con'.at = x /\ con'.msg = con.msg
    BY <1>0, <1>5 DEF SendTo, IInv, Types, ThreadType
  <2>3. d \in SentDatagrams(log)
    BY <1>0 DEF SentDatagrams
  <2>4. d.seq = seqNum /\ d.code # DEQUEUE /\ (IsLine(con.msg, c) => CarriesLine(d, c))
    <3>1. con.msg.type \in MessageTypes
      <4>1. con.msg \in TypedMessages
        BY <1>0 DEF IInv, Typed
      <4> QED BY <4>1 DEF TypedMessages
    <3> QED BY <3>1 DEF Multicast, MessageTypes, DEQUEUE, JOIN, ADD_USER, DELETE, CHAT,
                        IsLine, CarriesLine
  <2> HIDE DEF d
  <2>5. CASE c = x /\ cst[x] \in {"joining", "in"}
    <3> DEFINE b == toClient[c]
               t == toClient'[c]
    <3>1. b \in Seq(SentDatagrams(log)) /\ t = Append(b, d)
      BY <2>2, <2>5 DEF SendClient, IInv, Sent
    <3>2. Len(b) + 1 \in DOMAIN t /\ \A i \in DOMAIN t : i \in DOMAIN b \/ t[i] = d
      BY <3>1
    <3>3. d.seq > lastSeen[c]
      <4>1. seqNum \in Coming(c)
        BY <1>0, <1>5, <2>5 DEF Coming
      <4> QED BY <1>0, <1>1, <2>4, <4>1, ComingIsLater
    <3>4. t[Len(b) + 1] = d
      BY <3>1
    <3>5. /\ Displays(c)' = Displays(c)
          /\ (Preceded(c) => Preceded(c)') /\ (Fresh(c) => Fresh(c)')
      BY <1>2, <2>3, <2>4, <3>1, <3>2, <3>3, SocketKeepsLine
    <3>6. Passed(c)' => Placed(c)'
      BY <2>2, <2>4, <3>2, <3>4 DEF Passed, Placed
    <3> QED BY <1>1, <1>2, <3>5, <3>6 DEF LineKept
  <2>6. CASE c = x /\ cst[x] \notin {"joining", "in"}
    <3>1. toClient'[c] = toClient[c]
      BY <2>2, <2>6 DEF SendClient
    <3>2. ~Passed(c)'
      BY <1>4, <2>2, <2>6 DEF Passed
    <3> QED BY <1>1, <1>2, <3>1, <3>2, LineStays
  <2>7. CASE c # x
    <3>1. toClient'[c] = toClient[c]
      BY <2>2, <2>7 DEF SendClient, IInv, Sent
    <3>2. Passed(c)' => Passed(c)
      <4> SUFFICES ASSUME Passed(c)', ~(con.at >= c) PROVE FALSE
        BY <1>0, <2>2 DEF Passed
      <4>1. IsLine(con.msg, c) /\ x >= c
        BY <2>2 DEF Passed
      <4>2. c \in Others /\ c > con.at
        BY <1>0, <1>2, <1>4, <4>1
      <4>3. x <= c
        BY <1>5, <4>2
      <4> QED BY <1>2, <2>1, <2>7, <4>1, <4>3
    <3> QED BY <1>1, <1>2, <3>1, <3>2, LineStays
  <2> QED BY <2>5, <2>6, <2>7
<1>6. ASSUME \A d \in Others : ~(d > con.at), EndLoop, UNCHANGED toClient
      PROVE  LineKept(c)'
  <2>1. con'.pc = "tail" /\ con'.msg = con.msg
    BY <1>6 DEF EndLoop, IInv, Types, ThreadType
  <2>2. Passed(c)' => Passed(c)
    <3> SUFFICES ASSUME Passed(c)' PROVE con.at >= c
      BY <1>0, <2>1 DEF Passed
    <3>1. c \in Others
      BY <1>4, <2>1 DEF Passed
    <3> QED BY <1>0, <1>2, <1>6, <3>1
  <2> QED BY <1>1, <1>2, <1>6, <2>2, LineStays
<1>7. ASSUME NEW x \in {e \in Others : e > con.at},
             \A d \in {e \in Others : e > con.at} : x <= d, SendTo(x)
      PROVE  LineKept(c)'
  <2>1. x \in Nat /\ x \in Others /\ x > con.at
    BY SequencerAssumption DEF Others, IInv, Types, LeaderType, Ids
  <2> QED BY <1>0, <1>5, <1>7, <2>1
<1> QED BY <1>6, <1>7 DEF NextRecipient

\* After the loop the line has been sent to its sender, and the DEQUEUE follows.
LEMMA FinishLInv ==
  ASSUME IInv, DInv, LInv, Remembered, FinishMessage
  PROVE  LInv'
<1> SUFFICES ASSUME ~dangled, NEW c \in Clients, Whole(c)' PROVE LineKept(c)'
  BY DEF LInv, FinishMessage
<1>0. /\ con.pc = "tail" /\ con' = Idle /\ seqNum \in DOMAIN log /\ con.msg = log[seqNum]
      /\ UNCHANGED <<log, dangled, clientVars>>
  BY DEF FinishMessage, DInv
<1>1. LineKept(c) /\ ~Passed(c)'
  BY <1>0, UnsteadyKept DEF LInv, clientVars, Passed, Idle
<1>2. lastSeen'[c] = lastSeen[c] /\ shown'[c] = shown[c] /\ cq'[c] = cq[c] /\ spoke' = spoke
  BY <1>0 DEF clientVars
<1>3. CASE toClient'[c] = toClient[c]
  BY <1>1, <1>2, <1>3, LineStays
<1>4. CASE toClient'[c] # toClient[c]
  <2> DEFINE b == toClient[c]
             t == toClient'[c]
  <2>1. b \in Seq(SentDatagrams(log)) /\ toClient \in [Clients -> Seq(SentDatagrams(log))]
    BY DEF IInv, Sent
  <2>2. con.msg.from = c /\ DequeueWanted(con.msg) /\ SendClient(c, Dequeue)
    <3>1. SendClient(con.msg.from, Dequeue) /\ DequeueWanted(con.msg)
      BY <1>4 DEF FinishMessage
    <3>2. con.msg.from = c
      BY <1>4, <2>1, <3>1 DEF SendClient
    <3> QED BY <3>1, <3>2
  <2>3. t = Append(b, Dequeue)
    BY <1>4, <2>1, <2>2 DEF SendClient
  <2>4. IsLine(con.msg, c)
    <3>1. con.msg \in Numberable
      BY <1>0 DEF DInv
    <3>2. IsChat(con.msg.type)
      BY <2>2 DEF DequeueWanted, IsChat, CHAT
    <3> QED BY <2>2, <3>1, <3>2 DEF Numberable, IsLine, IsChat
  <2>5. Placed(c)
    BY <1>0, <1>1, <2>4 DEF LineKept, Passed
  <2>6. Dequeue \in SentDatagrams(log) /\ ~CarriesLine(Dequeue, c)
    BY DEF Dequeue, SentDatagrams, CarriesLine, IsChat, DEQUEUE, CHAT
  <2>7. \A i \in DOMAIN t : i \in DOMAIN b \/ t[i] = Dequeue
    BY <2>1, <2>3
  <2>8. Displays(c)' = Displays(c) /\ (Fresh(c) => Fresh(c)')
    BY <1>2, <2>1, <2>3, <2>6, <2>7, SocketKeepsLine
  <2> HIDE DEF b, t
  <2>9. \A i \in DOMAIN t : \/ i \in DOMAIN b /\ t[i] = b[i]
                            \/ i = Len(b) + 1
    BY <2>1, <2>3 DEF b
  <2>10. \A i \in DOMAIN b : i \in 1..Len(b) /\ t[i] = b[i]
    BY <2>1, <2>3 DEF b
  <2>11. Preceded(c)'
    <3> SUFFICES ASSUME NEW i \in DOMAIN t, t[i].code = DEQUEUE, ~Displays(c)
                 PROVE  \E j \in 1..(i - 1) : CarriesLine(t[j], c)
      BY <2>8 DEF Preceded, t
    <3>1. CASE i \in DOMAIN b /\ t[i] = b[i]
      <4>1. PICK j \in 1..(i - 1) : CarriesLine(b[j], c)
        BY <1>1, <3>1 DEF LineKept, Preceded, b
      <4>2. j \in DOMAIN b
        BY <2>1, <3>1 DEF b
      <4> QED BY <2>10, <4>1, <4>2
    <3>2. CASE i = Len(b) + 1
      <4>1. PICK j \in DOMAIN b : CarriesLine(b[j], c)
        BY <2>5 DEF Placed, b
      <4>2. j \in 1..(i - 1)
        BY <2>1, <3>2 DEF b
      <4> QED BY <2>10, <4>1, <4>2
    <3> QED BY <2>9, <3>1, <3>2
  <2> QED BY <1>1, <1>2, <2>8, <2>11 DEF LineKept
<1> QED BY <1>3, <1>4

\* The rest of the consumer.
LEMMA ConsumerLInv ==
  ASSUME IInv, DInv, GInv, LInv, Remembered, Consumer
  PROVE  LInv'
<1>1. CASE PopMessage
  <2>1. con'.pc = "mcast" /\ con'.at = 0 /\ UNCHANGED <<dangled, clientVars, toClient>>
    BY <1>1 DEF PopMessage
  <2>2. \A c \in Clients : ~(0 >= c)
    BY SequencerAssumption
  <2>3. \A c \in Clients : ~Passed(c)'
    BY <2>1, <2>2 DEF Passed
  <2> QED BY <2>1, <2>3, QuietLInv
<1>2. CASE AdvanceErased
  BY <1>2 DEF AdvanceErased, LInv
<1> QED BY <1>1, <1>2, NextRecipientLInv, FinishLInv DEF Consumer

------------------------------------------------------------------------------
\* A client's own step leaves the others' lines as they are.
LEMMA ClientStepLInv ==
  ASSUME IInv, LInv, Remembered, NEW c \in Clients, UNCHANGED leaderVars,
         \A e \in Clients \ {c} :
           /\ cst'[e] = cst[e] /\ toClient'[e] = toClient[e] /\ lastSeen'[e] = lastSeen[e]
           /\ shown'[e] = shown[e] /\ cq'[e] = cq[e]
           /\ ((e \in blind') <=> (e \in blind)) /\ ((e \in spoke') <=> (e \in spoke)),
         cst[c] = "gone" => cst'[c] = "gone",
         c \in blind => c \in blind' \/ cst'[c] = "gone",
         ~dangled /\ Whole(c) /\ LineKept(c) /\ Whole(c)' => LineKept(c)'
  PROVE  LInv'
<1> USE DEF leaderVars
<1>1. \A e \in Clients : Whole(e)' => Whole(e)
  BY UnsteadyKept
<1> SUFFICES ASSUME ~dangled, NEW e \in Clients, Whole(e)' PROVE LineKept(e)'
  BY DEF LInv
<1>2. Whole(e) /\ LineKept(e)
  BY <1>1 DEF LInv
<1>3. e # c => (Passed(e)' => Passed(e))
  BY DEF Passed
<1> QED BY <1>2, <1>3, LineStays

\* Who has left, or is blind, has no claim to what he shows.
LEMMA UnsteadyLInv ==
  ASSUME IInv, LInv, Remembered, NEW c \in Clients, UNCHANGED <<leaderVars, shown>>,
         Leaves(c) \/ (Receives(c) /\ blind' = blind \cup {c} /\ cst[c] # "gone"
                       /\ cst' = [cst EXCEPT ![c] = "in"] /\ UNCHANGED <<lastSeen, cq, spoke>>)
  PROVE  LInv'
<1>1. \A e \in Clients \ {c} :
        /\ cst'[e] = cst[e] /\ toClient'[e] = toClient[e] /\ lastSeen'[e] = lastSeen[e]
        /\ shown'[e] = shown[e] /\ cq'[e] = cq[e]
        /\ ((e \in blind') <=> (e \in blind)) /\ ((e \in spoke') <=> (e \in spoke))
  BY DEF Leaves, Receives, IInv, Types, ClientType, Sent
<1>2. /\ ~Whole(c)' /\ (cst[c] = "gone" => cst'[c] = "gone")
      /\ c \in blind => c \in blind' \/ cst'[c] = "gone"
  BY DEF Leaves, Whole, Steady, IInv, Types, ClientType
<1> QED BY <1>1, <1>2, ClientStepLInv

\* c's line has the highest number that may be in its socket before its first
\* copy: what is shown is that line, or comes before it.
LEMMA LineComesNext ==
  ASSUME IInv, NEW c \in Clients, Unbroken(c), LineKept(c), ~Displays(c),
         toClient[c] # <<>>, toClient[c][1].code \notin {LIST_OF_USERS, DEQUEUE},
         NEW i \in DOMAIN toClient[c], CarriesLine(toClient[c][i], c)
  PROVE  LET b == toClient[c] IN
         b[i].seq > b[1].seq \/ (b[i].seq = b[1].seq /\ b[i].msg = b[1].msg)
<1> DEFINE b == toClient[c]
           n == b[i].seq
           q == b[1].seq
<1>1. /\ b \in Seq(SentDatagrams(log)) /\ Len(b) \in Nat \ {0} /\ DOMAIN b = 1..Len(b)
      /\ Gapless(b, Latest(c), Coming(c), Joins)
  BY DEF IInv, Sent, Unbroken
<1>2. b[i].code \notin {LIST_OF_USERS, DEQUEUE}
  BY DEF CarriesLine, IsChat, LIST_OF_USERS, DEQUEUE, CHAT
<1>3. \A k \in DOMAIN b : b[k].code \notin {LIST_OF_USERS, DEQUEUE} =>
        /\ b[k].seq \in DOMAIN log /\ b[k].msg = log[b[k].seq]
        /\ b[k].code = log[b[k].seq].type
  <2> SUFFICES ASSUME NEW k \in DOMAIN b, b[k].code \notin {LIST_OF_USERS, DEQUEUE}
               PROVE  /\ b[k].seq \in DOMAIN log /\ b[k].msg = log[b[k].seq]
                      /\ b[k].code = log[b[k].seq].type
    OBVIOUS
  <2>1. b[k] \in SentDatagrams(log)
    BY <1>1
  <2> HIDE DEF b
  <2> QED BY <2>1 DEF SentDatagrams, Multicast
<1>4. n \in DOMAIN log /\ q \in DOMAIN log /\ b[i].msg = log[n] /\ b[1].msg = log[q] /\ IsChat(log[n].type)
  <2>1. 1 \in DOMAIN b
    BY <1>1
  <2>2. IsChat(b[i].code)
    BY DEF CarriesLine
  <2> HIDE DEF b
  <2> QED BY <1>2, <1>3, <2>1, <2>2 DEF b
<1>5. n \in Nat /\ q \in Nat
  BY <1>4 DEF IInv, Typed
<1>6. ~(n < q)
  <2> SUFFICES ASSUME n < q PROVE FALSE
    OBVIOUS
  <2>1. NumberAt(b, Latest(c), Coming(c), i, n) /\ NumberAt(b, Latest(c), Coming(c), 1, q)
    BY <1>1, <1>2 DEF NumberAt, IsNumber
  <2>2. i \in 0..Len(b) /\ 1 \in 1..(Len(b) + 1) /\ n \in n..(q - 1)
    BY <1>1, <1>5
  <2> HIDE DEF b, n, q
  <2>3. \/ n \in Joins \/ \E e \in Latest(c) : n <= e
        \/ \E k \in 1..(1 - 1) : IsNumber(b[k], n)
    BY <1>1, <1>5, <2>1, <2>2 DEF Gapless
  <2>4. n \notin Joins
    BY <1>4 DEF Joins, IsChat, JOIN, CHAT
  <2>5. PICK e \in Latest(c) : n <= e
    BY <2>3, <2>4
  <2>6. e = lastSeen[c] /\ lastSeen[c] \in Nat
    BY DEF Latest, IInv, Types, ClientType
  <2>7. n > lastSeen[c]
    BY DEF LineKept, Fresh, n, b
  <2> QED BY <1>5, <2>5, <2>6, <2>7
<1> HIDE DEF n, q
<1>7. n > q \/ n = q
  BY <1>5, <1>6
<1> QED BY <1>4, <1>7 DEF n, q

\* What is read and is neither a DEQUEUE nor c's line, or is shown, leaves the
\* rest of the socket as it must be.
LEMMA ReadsLInv ==
  ASSUME IInv, GInv, LInv, Remembered, NEW c \in Clients, Receives(c),
         cst[c] # "gone" /\ cst' = [cst EXCEPT ![c] = "in"],
         UNCHANGED <<leaderVars, cq, spoke, blind>>,
         LET d == Head(toClient[c]) IN
         \/ /\ d.code # DEQUEUE /\ ~IsChat(d.code)
            /\ UNCHANGED <<lastSeen, shown>>
         \/ /\ d.code \notin {LIST_OF_USERS, DEQUEUE}
            /\ Display(c, d)
  PROVE  LInv'
<1> USE DEF leaderVars
<1> DEFINE b == toClient[c]
           t == Tail(b)
           d == b[1]
<1>1. /\ b \in Seq(SentDatagrams(log)) /\ b # <<>> /\ d = Head(b) /\ toClient'[c] = t
      /\ \A e \in Clients \ {c} : toClient'[e] = toClient[e]
  BY NextNumber
<1>2. shown \in [Clients -> Seq(Lines(log))] /\ lastSeen \in [Clients -> Nat]
  BY DEF IInv, Displayed, Types, ClientType
<1>3. \A e \in Clients \ {c} :
        cst'[e] = cst[e] /\ lastSeen'[e] = lastSeen[e] /\ shown'[e] = shown[e]
  BY <1>1, <1>2 DEF Display, IInv, Types, ClientType
<1>4. SUFFICES ASSUME ~dangled, Whole(c), LineKept(c), Whole(c)' PROVE LineKept(c)'
  BY <1>1, <1>3, ClientStepLInv
<1>5. Unbroken(c) /\ Passed(c)' = Passed(c)
  BY <1>4 DEF GInv, Passed
<1>6. /\ Len(b) \in Nat \ {0} /\ DOMAIN b = 1..Len(b) /\ DOMAIN t = 1..(Len(b) - 1)
      /\ \A i \in 1..(Len(b) - 1) : t[i] = b[i + 1]
  BY <1>1
<1>7. Displays(c) => Displays(c)'
  <2>1. shown[c] \in Seq(Lines(log))
        /\ (shown'[c] = shown[c] \/ \E line : shown'[c] = Append(shown[c], line))
    BY <1>1, <1>2 DEF Display
  <2>2. \A i \in DOMAIN shown[c] : i \in DOMAIN shown'[c] /\ shown'[c][i] = shown[c][i]
    BY <2>1
  <2> QED BY <2>2 DEF Displays, Shown
<1> HIDE DEF t, d
<1>8. ASSUME d.code \notin {LIST_OF_USERS, DEQUEUE}, Display(c, d), d.seq > lastSeen[c]
      PROVE  lastSeen'[c] = d.seq /\ (d.msg.from = c /\ d.msg.mid = 2 => Displays(c)')
  <2>1. /\ lastSeen'[c] = d.seq
        /\ shown'[c] = Append(shown[c], [seq |-> d.seq, msg |-> d.msg])
    BY <1>2, <1>8 DEF Display
  <2>2. LET s == shown'[c] IN Len(shown[c]) + 1 \in DOMAIN s /\ s[Len(shown[c]) + 1].msg = d.msg
    BY <1>2, <2>1
  <2> QED BY <2>1, <2>2 DEF Displays, Shown
<1>9. CarriesLine(d, c) => Displays(c)'
  <2> SUFFICES ASSUME CarriesLine(d, c), ~Displays(c) PROVE Displays(c)'
    BY <1>7
  <2>1. d.seq > lastSeen[c]
    BY <1>4, <1>6 DEF LineKept, Fresh, d
  <2>2. d.code \notin {LIST_OF_USERS, DEQUEUE} /\ Display(c, d)
    BY <1>1 DEF CarriesLine
  <2> QED BY <1>8, <2>1, <2>2 DEF CarriesLine
<1>10. Placed(c) => Placed(c)'
  <2> SUFFICES ASSUME ~Displays(c)', NEW i \in DOMAIN b, CarriesLine(b[i], c)
               PROVE  \E j \in DOMAIN t : CarriesLine(t[j], c)
    BY <1>1, <1>7 DEF Placed
  <2>1. i # 1
    BY <1>9 DEF d
  <2>2. i - 1 \in DOMAIN t /\ t[i - 1] = b[i]
    BY <1>6, <2>1
  <2> QED BY <2>2
<1>11. Preceded(c)'
  <2> SUFFICES ASSUME ~Displays(c)', NEW i \in DOMAIN t, t[i].code = DEQUEUE
               PROVE  \E j \in 1..(i - 1) : CarriesLine(t[j], c)
    BY <1>1 DEF Preceded
  <2>1. i + 1 \in DOMAIN b /\ b[i + 1].code = DEQUEUE /\ i \in Nat
    BY <1>6
  <2>2. PICK j \in 1..i : CarriesLine(b[j], c)
    <3>1. \E j \in 1..((i + 1) - 1) : CarriesLine(b[j], c)
      BY <1>4, <1>7, <2>1 DEF LineKept, Preceded
    <3> QED BY <2>1, <3>1
  <2>3. j # 1
    BY <1>9, <2>2 DEF d
  <2>4. j - 1 \in 1..(i - 1) /\ t[j - 1] = b[j]
    BY <1>6, <2>1, <2>3
  <2> QED BY <2>2, <2>4
<1>12. Fresh(c)'
  <2> SUFFICES ASSUME ~Displays(c)', NEW i \in DOMAIN t, CarriesLine(t[i], c)
               PROVE  t[i].seq > lastSeen'[c]
    BY <1>1 DEF Fresh
  <2>1. i + 1 \in DOMAIN b /\ t[i] = b[i + 1] /\ ~Displays(c)
    BY <1>6, <1>7
  <2>2. b[i + 1].seq > lastSeen[c]
    BY <1>4, <2>1 DEF LineKept, Fresh
  <2>3. CASE lastSeen'[c] = lastSeen[c]
    BY <2>1, <2>2, <2>3
  <2>4. CASE lastSeen'[c] # lastSeen[c]
    <3>1. d.code \notin {LIST_OF_USERS, DEQUEUE} /\ Display(c, d) /\ d.seq > lastSeen[c]
      BY <1>1, <2>4 DEF Display
    <3>2. \/ b[i + 1].seq > d.seq
          \/ b[i + 1].seq = d.seq /\ b[i + 1].msg = d.msg
      BY <1>1, <1>4, <1>5, <2>1, <3>1, LineComesNext DEF d
    <3>3. ~(b[i + 1].msg = d.msg)
      BY <1>8, <2>1, <3>1 DEF CarriesLine
    <3> QED BY <1>8, <2>1, <3>1, <3>2, <3>3
  <2> QED BY <2>3, <2>4
<1> QED BY <1>4, <1>5, <1>7, <1>10, <1>11, <1>12 DEF LineKept

\* When the DEQUEUE is read, the line has been shown.
LEMMA ReceiveDequeueLInv ==
  ASSUME IInv, LInv, Remembered, NEW c \in Clients, ReceiveDequeue(c)
  PROVE  LInv'
<1> USE DEF leaderVars
<1> DEFINE b == toClient[c]
           t == Tail(b)
<1>0. /\ Receives(c) /\ NextCode(c) = DEQUEUE /\ cst[c] = "in"
      /\ UNCHANGED <<leaderVars, cst, lastSeen, spoke, blind, shown>>
      /\ \A e \in Clients \ {c} : cq'[e] = cq[e]
  BY DEF ReceiveDequeue, Hearing, IInv, Types, ClientType
<1>1. /\ b \in Seq(SentDatagrams(log)) /\ b # <<>> /\ b[1].code = DEQUEUE /\ toClient'[c] = t
      /\ \A e \in Clients \ {c} : toClient'[e] = toClient[e]
  BY <1>0, NextNumber
<1>2. SUFFICES ASSUME LineKept(c) PROVE LineKept(c)'
  BY <1>0, <1>1, ClientStepLInv
<1>3. Displays(c)
  <2>1. 1 \in DOMAIN b /\ \A j \in 1..(1 - 1) : FALSE
    BY <1>1
  <2> QED BY <1>1, <1>2, <2>1 DEF LineKept, Preceded
<1>4. Displays(c)'
  BY <1>0, <1>3 DEF Displays, Shown
<1> QED BY <1>4 DEF LineKept, Placed, Preceded, Fresh

\* The rest of what a client does.
LEMMA ClientLInv ==
  ASSUME IInv, GInv, LInv, Remembered, NEW c \in Clients, ClientStep(c)
  PROVE  LInv'
<1> USE DEF clientVars
<1>1. CASE Join(c) \/ SendChat(c)
  <2>1. /\ UNCHANGED <<leaderVars, lastSeen, blind, shown, toClient>>
        /\ \A e \in Clients \ {c} : cst'[e] = cst[e] /\ cq'[e] = cq[e]
        /\ spoke \subseteq spoke' /\ spoke' \subseteq spoke \cup {c}
        /\ c \in spoke' /\ cq'[c] = 0 => c \in spoke /\ cq[c] = 0
        /\ cst[c] # "gone"
    BY <1>1 DEF Join, SendChat, IInv, Types, ClientType
  <2>2. Passed(c)' = Passed(c) /\ Displays(c)' = Displays(c)
    BY <2>1 DEF leaderVars, Passed, Displays, Shown
  <2>3. Placed(c)' = Placed(c) /\ Preceded(c)' = Preceded(c) /\ Fresh(c)' = Fresh(c)
    BY <2>1, <2>2 DEF Placed, Preceded, Fresh
  <2>4. LineKept(c) => LineKept(c)'
    BY <2>1, <2>2, <2>3 DEF LineKept
  <2>5. \A e \in Clients \ {c} : ((e \in blind') <=> (e \in blind)) /\ ((e \in spoke') <=> (e \in spoke))
    BY <2>1
  <2> QED BY <2>1, <2>4, <2>5, ClientStepLInv
<1>2. CASE ReadList(c)
  <2>1. /\ Receives(c) /\ NextCode(c) = LIST_OF_USERS /\ cst[c] = "joining"
        /\ cst' = [cst EXCEPT ![c] = "in"]
        /\ UNCHANGED <<leaderVars, lastSeen, cq, spoke, blind, shown>>
    BY <1>2 DEF ReadList
  <2>2. Head(toClient[c]).code # DEQUEUE /\ ~IsChat(Head(toClient[c]).code)
    BY <2>1 DEF NextCode, LIST_OF_USERS, DEQUEUE, IsChat, CHAT
  <2>3. cst[c] # "gone"
    BY <2>1
  <2> QED BY <2>1, <2>2, <2>3, ReadsLInv
<1>3. CASE MissList(c)
  <2>1. Leaves(c) \/ (Receives(c) /\ blind' = blind \cup {c} /\ cst[c] # "gone"
                      /\ cst' = [cst EXCEPT ![c] = "in"] /\ UNCHANGED <<lastSeen, cq, spoke>>)
    BY <1>3 DEF MissList
  <2>2. UNCHANGED <<leaderVars, shown>>
    BY <1>3 DEF MissList
  <2> QED BY <2>1, <2>2, UnsteadyLInv
<1>4. CASE JoinTimeout(c) \/ ExitChatroom(c) \/ Crash(c)
  BY <1>4, UnsteadyLInv DEF JoinTimeout, ExitChatroom, Crash
<1>5. CASE ReceiveDequeue(c)
  BY <1>5, ReceiveDequeueLInv
<1>6. CASE ReceiveJoin(c) \/ ReceiveList(c)
  <2>1. /\ Receives(c) /\ NextCode(c) \in {JOIN, LIST_OF_USERS} /\ cst[c] = "in"
        /\ UNCHANGED <<leaderVars, cst, lastSeen, cq, spoke, blind, shown>>
    BY <1>6 DEF ReceiveJoin, ReceiveList, Hearing
  <2>2. cst' = [cst EXCEPT ![c] = "in"]
    BY <2>1 DEF IInv, Types, ClientType
  <2>3. Head(toClient[c]).code # DEQUEUE /\ ~IsChat(Head(toClient[c]).code)
    BY <2>1 DEF NextCode, JOIN, LIST_OF_USERS, DEQUEUE, IsChat, CHAT
  <2> QED BY <2>1, <2>2, <2>3, ReadsLInv
<1>7. CASE ReceiveChat(c) \/ ReceiveAddUser(c) \/ ReceiveDelete(c)
  <2>1. /\ Receives(c) /\ cst[c] = "in" /\ UNCHANGED <<leaderVars, cst, cq, spoke, blind>>
        /\ Display(c, Head(toClient[c]))
    BY <1>7 DEF ReceiveChat, ReceiveAddUser, ReceiveDelete, Hearing
  <2>2. Head(toClient[c]).code \notin {LIST_OF_USERS, DEQUEUE}
    BY <1>7 DEF ReceiveChat, ReceiveAddUser, ReceiveDelete, NextCode, IsChat,
                CHAT, ADD_USER, DELETE, LIST_OF_USERS, DEQUEUE
  <2>3. cst' = [cst EXCEPT ![c] = "in"]
    BY <2>1 DEF IInv, Types, ClientType
  <2> QED BY <2>1, <2>2, <2>3, ReadsLInv
<1> QED BY <1>1, <1>2, <1>3, <1>4, <1>5, <1>6, <1>7 DEF ClientStep, Joiner, Receiver

\* What is repeated was in its place the first time.
LEMMA NetworkLInv ==
  ASSUME IInv, LInv, Remembered, Lose \/ Delay \/ Duplicate
  PROVE  LInv'
<1> USE DEF leaderVars
<1>1. UNCHANGED <<leaderVars, clientVars>>
  BY Disturbance
<1>2. \A c \in Clients : Passed(c)' => Passed(c)
  BY <1>1 DEF Passed
<1>3. CASE UNCHANGED toClient
  BY <1>1, <1>2, <1>3, QuietLInv
<1>4. ASSUME NEW kind, NEW x \in Clients, NEW i \in DOMAIN toClient[x], Fault(kind, x),
             kind \in {"lose", "delay", "duplicate"},
             toClient' = [toClient EXCEPT ![x] = Outcome(kind, toClient[x], i)]
      PROVE  LInv'
  <2> SUFFICES ASSUME ~dangled, NEW c \in Clients, Whole(c)' PROVE LineKept(c)'
    BY <1>1 DEF LInv
  <2>1. LineKept(c)
    BY <1>1, UnsteadyKept DEF LInv, clientVars
  <2>2. CASE c # x
    <3>1. toClient'[c] = toClient[c]
      BY <1>4, <2>2 DEF IInv, Sent
    <3> QED BY <1>1, <1>2, <2>1, <3>1, LineStays DEF clientVars
  <2>3. CASE c = x
    <3> DEFINE b == toClient[c]
               t == toClient'[c]
    <3>1. kind = "duplicate"
      <4>1. kind \in Suffered(x)'
        BY <1>4, Suffering DEF IInv, Types, Ids
      <4> QED BY <1>4, <2>3, <4>1 DEF Whole
    <3>2. b \in Seq(SentDatagrams(log)) /\ i \in DOMAIN b /\ t = Append(b, b[i])
      BY <1>4, <2>3, <3>1 DEF IInv, Sent, Outcome, Twice
    <3>3. /\ b[i] \in SentDatagrams(log)
          /\ \A j \in DOMAIN b : t[j] = b[j]
          /\ \A j \in DOMAIN t : j \in DOMAIN b \/ (j = Len(b) + 1 /\ t[j] = b[i])
      BY <3>2
    <3> HIDE DEF t
    <3>4. \A j \in DOMAIN t : j \in DOMAIN b \/ ~CarriesLine(t[j], c)
                                \/ Displays(c) \/ t[j].seq > lastSeen[c]
      BY <2>1, <3>2, <3>3 DEF LineKept, Fresh
    <3>5. UNCHANGED <<shown, lastSeen, cq, spoke>>
      BY <1>1 DEF clientVars
    <3>6. /\ Displays(c)' = Displays(c) /\ (Placed(c) => Placed(c)')
          /\ (Fresh(c) => Fresh(c)')
      BY <3>2, <3>3, <3>4, <3>5, SocketKeepsLine DEF t
    <3>7. Preceded(c)'
      <4> SUFFICES ASSUME NEW j \in DOMAIN t, t[j].code = DEQUEUE, ~Displays(c)
                   PROVE  \E k \in 1..(j - 1) : CarriesLine(t[k], c)
        BY <3>6 DEF Preceded, t
      <4>1. PICK h \in DOMAIN b : h <= j /\ t[j] = b[h]
        <5>1. CASE j \in DOMAIN b
          BY <3>2, <3>3, <5>1
        <5>2. CASE j \notin DOMAIN b
          BY <3>2, <3>3, <5>2
        <5> QED BY <5>1, <5>2
      <4>2. PICK k \in 1..(h - 1) : CarriesLine(b[k], c)
        BY <2>1, <4>1 DEF LineKept, Preceded
      <4>3. k \in DOMAIN b /\ k \in 1..(j - 1)
        BY <3>2, <3>3, <4>1
      <4> QED BY <3>3, <4>2, <4>3
    <3> QED BY <1>2, <2>1, <3>5, <3>6, <3>7 DEF LineKept
  <2> QED BY <2>2, <2>3
<1> QED BY <1>3, <1>4, Disturbance

\* At first nothing has been sent.
LEMMA InitLInv == Init => LInv
<1> SUFFICES ASSUME Init, NEW c \in Clients PROVE LineKept(c)
  BY DEF LInv
<1>1. toClient[c] = <<>> /\ con = Idle /\ spoke = {}
  BY DEF Init
<1>2. ~Passed(c) /\ Preceded(c) /\ Fresh(c)
  BY <1>1 DEF Passed, Idle, Preceded, Fresh
<1> QED BY <1>1, <1>2 DEF LineKept

\* Every step preserves LInv.
LEMMA NextLInv ==
  ASSUME IInv, DInv, GInv, LInv, [Next]_vars
  PROVE  LInv'
<1>1. Remembered
  BY NextRemembers
<1>2. CASE UNCHANGED vars
  <2>1. \A c \in Clients : Passed(c)' => Passed(c)
    BY <1>2 DEF vars, leaderVars, Passed
  <2> QED BY <1>1, <1>2, <2>1, QuietLInv DEF vars, leaderVars
<1> QED BY <1>1, <1>2, LeaderLInv, ConsumerLInv, ClientLInv, NetworkLInv DEF Next

\* Whatever happens to others and to the requests, if everything comes to a
\* client in order, be it more than once, and it is not suspected, its line
\* leaves its queue only after it has shown the line in its place, unless the
\* consumer's iterator has gone astray (leader.cpp's consumerTask, client.cpp's
\* receiver).
THEOREM ShownWhenDequeued == Spec => []DequeuedIsShown
<1>1. IInv /\ DInv /\ GInv /\ LInv /\ [Next]_vars => LInv'
  BY NextLInv
<1>2. IInv /\ Accepted /\ DInv /\ [Next]_vars => DInv'
  BY NextDInv
<1>3. IInv /\ GInv /\ [Next]_vars => GInv'
  BY NextGInv
<1>4. DInv /\ LInv => DequeuedIsShown
  <2> SUFFICES ASSUME DInv, LInv, ~dangled, NEW c \in spoke \ blind, cq[c] = 0,
                      Suffered(c) \subseteq {"duplicate"}
               PROVE  Displays(c)
    BY DEF DequeuedIsShown, Displays
  <2>1. c \in Clients /\ Whole(c)
    BY DEF DInv, Whole, Steady
  <2> QED BY <2>1 DEF LInv, LineKept
<1> QED BY <1>1, <1>2, <1>3, <1>4, InitIInv, NextIInv, InitAccepted, NextAccepted,
           InitDInv, InitGInv, InitLInv, PTL DEF Spec

------------------------------------------------------------------------------
(* Everybody in the room is known.                                          *)

\* The users that c lists, or that it may yet join with.
Lists(c) ==
  IF cst[c] = "in" THEN {roster[c]}
  ELSE {toClient[c][i].users : i \in {j \in DOMAIN toClient[c] : toClient[c][j].code = LIST_OF_USERS}}

\* c gets everything it is sent, in whatever order.
Told(c) == Steady(c) /\ Suffered(c) \subseteq {"delay", "duplicate"}

Present(x) == x \in chatRoom /\ (x \in Clients => Steady(x))

\* Only who is not steady is deleted.
Parted(m, who) == m.type = DELETE => m.from \in who
Departed ==
  /\ \A i \in DOMAIN pq : Parted(pq[i], Unsteady)
  /\ \A n \in DOMAIN log : Parted(log[n], Unsteady)

KInv ==
  /\ Departed
  /\ up /\ ~dangled => \A c \in Clients : Told(c) =>
       \A users \in Lists(c) : \A x \in Ids : Present(x) => x \in users \/ Announced(x, c)

\* A push keeps what is queued, and adds its message.
LEMMA PushHolds ==
  ASSUME NEW S, pq \in Seq(S), NEW m, pq' = PushHeap(pq, m)
  PROVE  /\ \A i \in DOMAIN pq' : pq'[i] = m \/ \E j \in DOMAIN pq : pq'[i] = pq[j]
         /\ \A j \in DOMAIN pq : \E i \in DOMAIN pq' : pq'[i] = pq[j]
         /\ \E i \in DOMAIN pq' : pq'[i] = m
<1> DEFINE T == S \cup {m}
           g == Append(pq, m)
           n == Len(pq) + 1
<1>1. pq \in Seq(T) /\ m \in T
  BY SeqMonotonic
<1>2. g[n] = m /\ n \in DOMAIN g /\ \A j \in DOMAIN pq : j \in DOMAIN g /\ g[j] = pq[j]
  OBVIOUS
<1> HIDE DEF T, g, n
<1>3. \A i \in DOMAIN pq' : pq'[i] = m \/ \E j \in DOMAIN pq : pq'[i] = pq[j]
  <2>1. \A k \in T : pq' = PushHeap(pq, k) =>
          \A i \in DOMAIN pq' : pq'[i] = k \/ \E j \in DOMAIN pq : pq'[i] = pq[j]
    BY <1>1, QueueHolds
  <2> QED BY <1>1, <2>1
<1>4. PICK p \in Bijection(DOMAIN pq', DOMAIN g) : \A i \in DOMAIN pq' : pq'[i] = g[p[i]]
  <2>1. Shuffles(PushHeap(pq, m), Append(pq, m))
    BY <1>1, PushShuffles
  <2> QED BY <2>1 DEF Shuffles, g
<1>5. \A j \in DOMAIN g : \E i \in DOMAIN pq' : pq'[i] = g[j]
  BY <1>4, Fun_BijectionProperties
<1> QED BY <1>2, <1>3, <1>5

\* A pop keeps what is queued behind the root.
LEMMA PopHolds ==
  ASSUME NEW S, pq \in Seq(S), pq # <<>>, pq' = PopHeap(pq)
  PROVE  \A j \in DOMAIN pq : j = 1 \/ \E i \in DOMAIN pq' : pq'[i] = pq[j]
<1> DEFINE g == Tail(pq)
<1>1. \A j \in DOMAIN pq : j = 1 \/ (j - 1 \in DOMAIN g /\ g[j - 1] = pq[j])
  <2>1. Len(pq) \in Nat \ {0} /\ DOMAIN pq = 1..Len(pq) /\ Len(g) = Len(pq) - 1
        /\ \A i \in 1..(Len(pq) - 1) : g[i] = pq[i + 1]
    OBVIOUS
  <2>0. DOMAIN g = 1..Len(g)
    <3>1. g \in Seq(S)
      OBVIOUS
    <3> HIDE DEF g
    <3> QED BY <3>1
  <2> HIDE DEF g
  <2>2. ASSUME NEW j \in DOMAIN pq, j # 1 PROVE j - 1 \in DOMAIN g /\ g[j - 1] = pq[j]
    <3>1. j - 1 \in 1..(Len(pq) - 1) /\ (j - 1) + 1 = j
      BY <2>1, <2>2
    <3>2. g[j - 1] = pq[(j - 1) + 1]
      BY <2>1, <3>1
    <3> QED BY <2>1, <2>0, <3>1, <3>2
  <2> QED BY <2>2
<1> HIDE DEF g
<1>2. PICK p \in Bijection(DOMAIN pq', DOMAIN g) : \A i \in DOMAIN pq' : pq'[i] = g[p[i]]
  <2>1. Shuffles(PopHeap(pq), Tail(pq))
    BY PopShuffles
  <2> QED BY <2>1 DEF Shuffles, g
<1>3. \A j \in DOMAIN g : \E i \in DOMAIN pq' : pq'[i] = g[j]
  BY <1>2, Fun_BijectionProperties
<1> QED BY <1>1, <1>3

\* Who has a list has it still when something is sent to it, or gets one now.
LEMMA SendLists ==
  ASSUME IInv, NEW c \in Clients, UNCHANGED <<cst, roster>>,
         \/ toClient'[c] = toClient[c]
         \/ \E d : /\ toClient'[c] = Append(toClient[c], d)
                   /\ d.code = LIST_OF_USERS => d.users = chatRoom'
  PROVE  \A users \in Lists(c)' : users \in Lists(c) \/ users = chatRoom'
<1> DEFINE b == toClient[c]
           t == toClient'[c]
<1>1. CASE cst[c] = "in" \/ t = b
  BY <1>1 DEF Lists
<1>2. ASSUME cst[c] # "in", NEW d, t = Append(b, d), d.code = LIST_OF_USERS => d.users = chatRoom',
             NEW users \in Lists(c)'
      PROVE  users \in Lists(c) \/ users = chatRoom'
  <2>1. PICK i \in DOMAIN t : t[i].code = LIST_OF_USERS /\ users = t[i].users
    BY <1>2 DEF Lists
  <2>2. t[i] = d \/ (i \in DOMAIN b /\ t[i] = b[i])
    BY <1>2, <2>1 DEF IInv, Sent
  <2> HIDE DEF t
  <2> QED BY <1>2, <2>1, <2>2 DEF Lists
<1> QED BY <1>1, <1>2

\* Who has a list is in the room.
LEMMA ListedIsThere ==
  ASSUME IInv, GInv, up, NEW c \in Clients, Steady(c), Lists(c) # {}
  PROVE  c \in chatRoom /\ cst[c] \in {"joining", "in"}
<1>1. Housed(c) /\ cst[c] \in {"out", "joining", "in"}
  BY DEF GInv, Steady, IInv, Types, ClientType
<1>2. cst[c] = "in" \/ toClient[c] # <<>>
  BY DEF Lists
<1> QED BY <1>1, <1>2 DEF Housed

\* Who is not told, or not present, does not come back by the leader's steps or
\* the network's.
LEMMA PresentKept ==
  ASSUME Remembered, UNCHANGED clientVars
  PROVE  /\ Unsteady \subseteq Unsteady'
         /\ \A c \in Clients : (Told(c)' => Told(c)) /\ (Steady(c)' => Steady(c))
         /\ \A x \in Ids : Present(x)' /\ x \in chatRoom => Present(x)
<1>1. /\ Unsteady \subseteq Unsteady'
      /\ \A c \in Clients : Steady(c)' => Steady(c)
  BY UnsteadyKept DEF clientVars
<1>2. \A c \in Clients : Told(c)' => Told(c)
  BY <1>1 DEF Told, Remembered
<1> QED BY <1>1, <1>2 DEF Present

\* Whoever had to be deleted has to be still.
LEMMA StillDeparted ==
  ASSUME Departed, Unsteady \subseteq Unsteady',
         \A i \in DOMAIN pq' : Parted(pq'[i], Unsteady') \/ \E j \in DOMAIN pq : pq'[i] = pq[j],
         \A n \in DOMAIN log' : Parted(log'[n], Unsteady') \/ \E k \in DOMAIN log : log'[n] = log[k]
  PROVE  Departed'
<1>1. \A m : Parted(m, Unsteady) => Parted(m, Unsteady')
  BY DEF Parted
<1> QED BY <1>1 DEF Departed

\* What the leader announces and whom it lists, and what the network does to it.
LEMMA QuietKInv ==
  ASSUME KInv, Remembered, UNCHANGED <<clientVars, log>>, up' => up, ~dangled' => ~dangled,
         \A i \in DOMAIN pq' : Parted(pq'[i], Unsteady') \/ \E j \in DOMAIN pq : pq'[i] = pq[j],
         up' /\ ~dangled' => \A c \in Clients : Told(c)' =>
           /\ \A users \in Lists(c)' : users \in Lists(c) \/ users = chatRoom'
           /\ Lists(c) # {} => \A x \in Ids :
                /\ Present(x)' => Present(x) \/ Announced(x, c)'
                /\ Announced(x, c) => Announced(x, c)'
  PROVE  KInv'
<1>1. Departed'
  BY PresentKept, StillDeparted DEF KInv
<1>2. ASSUME up', ~dangled', NEW c \in Clients, Told(c)', NEW users \in Lists(c)',
             NEW x \in Ids, Present(x)'
      PROVE  x \in users \/ Announced(x, c)'
  <2>1. CASE users = chatRoom'
    BY <1>2, <2>1 DEF Present
  <2>2. CASE users \in Lists(c)
    <3>1. Told(c)
      BY <1>2, PresentKept
    <3> QED BY <1>2, <2>2, <3>1 DEF KInv
  <2> QED BY <1>2, <2>1, <2>2
<1> QED BY <1>1, <1>2 DEF KInv

\* An announcement that is not yet made stays to be made.
LEMMA AnnouncedStays ==
  ASSUME IInv, NEW c \in Clients, NEW x,
         toClient'[c] = toClient[c] \/ \E d : toClient'[c] = Append(toClient[c], d),
         prod.pc = "welcome" /\ prod.id = x => Announced(x, c)',
         \A j \in DOMAIN pq : pq[j].type = ADD_USER /\ pq[j].from = x =>
           Announced(x, c)' \/ \E i \in DOMAIN pq' : pq'[i] = pq[j],
         con.pc = "mcast" /\ con.msg.type = ADD_USER /\ con.msg.from = x /\ con.at < c =>
           Announced(x, c)' \/ (con'.pc = con.pc /\ con'.msg = con.msg /\ con'.at = con.at)
  PROVE  Announced(x, c) => Announced(x, c)'
<1>1. \A i \in DOMAIN toClient[c] : i \in DOMAIN toClient'[c] /\ toClient'[c][i] = toClient[c][i]
  BY DEF IInv, Sent
<1>2. CASE \E j \in DOMAIN pq : pq[j].type = ADD_USER /\ pq[j].from = x
  BY <1>2 DEF Announced
<1>3. CASE con.pc = "mcast" /\ con.msg.type = ADD_USER /\ con.msg.from = x /\ con.at < c
  BY <1>3 DEF Announced
<1>4. CASE \E i \in DOMAIN toClient[c] :
             toClient[c][i].code = ADD_USER /\ toClient[c][i].msg.from = x
  BY <1>1, <1>4 DEF Announced
<1> QED BY <1>2, <1>3, <1>4 DEF Announced

\* Nothing more to announce when the leader is dead.
LEMMA LeaderDiesKInv ==
  ASSUME KInv, Remembered, LeaderDies, UNCHANGED <<clientVars, log>>
  PROVE  KInv'
<1>1. pq' = <<>> /\ ~up'
  BY DEF LeaderDies
<1>2. Departed'
  BY <1>1, PresentKept, StillDeparted DEF KInv
<1> QED BY <1>1, <1>2 DEF KInv

\* Who gets into the room without a JOIN is not steady, or the leader.
LEMMA ChatIsHeard ==
  ASSUME IInv, DInv, GInv, Remembered, HandleChat, NEW x \in Ids, Present(x)'
  PROVE  Present(x)
<1> DEFINE r == Head(toLeader)
<1>1. /\ up /\ toLeader # <<>> /\ r.code = CHAT /\ ~Seen(r)
      /\ chatRoom' = chatRoom \cup {r.from}
      /\ UNCHANGED <<clientVars, up>>
  BY DEF HandleChat, Hears
<1>2. x \in chatRoom => Present(x)
  BY <1>1, PresentKept
<1>3. x = Leader => x \in chatRoom
  BY DEF IInv, Types, LeaderType
<1>4. CASE x # Leader /\ x = r.from
  <2>1. x \in Clients /\ Steady(x)
    BY <1>1, <1>4, PresentKept DEF Ids, Present
  <2>2. 1 \in DOMAIN toLeader /\ r = toLeader[1] /\ r \in SentRequests
    BY <1>1 DEF IInv, Requested
  <2>3. r.mid = 2
    BY <1>1, <1>4, <2>2 DEF SentRequests, CHAT, JOIN, DELETE, RESOLVE_LEADER
  <2>4. lastMsgId[x] < 2
    <3>1. lastMsgId[x] \in Nat
      BY DEF IInv, Types, LeaderType
    <3> QED BY <1>1, <1>4, <2>3, <3>1 DEF Seen
  <2> HIDE DEF r
  <2>5. Asked(x)
    BY <1>1, <1>4, <2>2, <2>4 DEF Asked
  <2>6. x \in spoke
    BY <2>1, <2>5 DEF Awaited, DInv, Owed, Steady
  <2>7. x \in chatRoom
    BY <1>1, <2>1, <2>6 DEF DInv, GInv, Housed
  <2> QED BY <1>2, <2>7
<1> QED BY <1>1, <1>2, <1>3, <1>4 DEF Present

\* The producer announces whom it takes in, and lists the room to him.
LEMMA ProducerKInv ==
  ASSUME IInv, DInv, GInv, KInv, Remembered, Producer
  PROVE  KInv'
<1> USE DEF leaderVars
<1> DEFINE r == Head(toLeader)
<1>0. pq \in Seq(TypedMessages) /\ toLeader \in Seq(SentRequests)
  BY DEF IInv, Typed, Requested
<1>1. ASSUME prod.pc # "welcome", UNCHANGED <<clientVars, up, log, dangled, toClient>>,
             con'.pc = con.pc, con'.at = con.at, con'.msg = con.msg,
             pq' = pq \/ \E m : pq' = PushHeap(pq, m) /\ Parted(m, Unsteady'),
             \A x \in Ids : Present(x)' => Present(x) \/ \A c \in Clients : Announced(x, c)'
      PROVE  KInv'
  <2>1. /\ \A i \in DOMAIN pq' : Parted(pq'[i], Unsteady') \/ \E j \in DOMAIN pq : pq'[i] = pq[j]
        /\ \A j \in DOMAIN pq : \E i \in DOMAIN pq' : pq'[i] = pq[j]
    BY <1>0, <1>1, PushHolds
  <2>2. ASSUME NEW c \in Clients, NEW x \in Ids PROVE Announced(x, c) => Announced(x, c)'
    BY <1>1, <2>1, AnnouncedStays
  <2>3. \A c \in Clients : Lists(c)' = Lists(c)
    BY <1>1 DEF clientVars, Lists
  <2> QED BY <1>1, <2>1, <2>2, <2>3, QuietKInv
<1>2. CASE HandleJoin
  <2>1. /\ prod.pc = "recv" /\ toLeader # <<>> /\ chatRoom' = chatRoom \cup {r.from}
        /\ prod' = [pc |-> "welcome", id |-> r.from]
        /\ UNCHANGED <<clientVars, up, log, dangled, toClient, con, pq>>
    BY <1>2 DEF HandleJoin, Hears
  <2> HIDE DEF r
  <2>2. \A x \in Ids : x = r.from => \A c \in Clients : Announced(x, c)'
    BY <2>1 DEF Announced
  <2>3. \A x \in Ids : Present(x)' => Present(x) \/ x = r.from
    BY <2>1, PresentKept DEF Present
  <2> QED BY <1>1, <2>1, <2>2, <2>3
<1>3. CASE IgnoreOldChat \/ HandleInvalid \/ ProducerWakes
  <2>1. /\ prod.pc # "welcome"
        /\ UNCHANGED <<chatRoom, clientVars, up, log, dangled, toClient, con, pq>>
    BY <1>3 DEF IgnoreOldChat, HandleInvalid, ProducerWakes, Hears
  <2>2. \A x \in Ids : Present(x)' => Present(x)
    BY <2>1, PresentKept DEF Present
  <2> QED BY <1>1, <2>1, <2>2
<1>4. CASE HandleChat
  <2>1. /\ prod.pc = "recv"
        /\ UNCHANGED <<clientVars, up, log, dangled, toClient, con>>
    BY <1>4 DEF HandleChat, Hears
  <2>2. \E m : pq' = PushHeap(pq, m) /\ Parted(m, Unsteady')
    <3>1. PICK p \in IF r.from \in chatRoom THEN {priority[r.from]} ELSE UninitPriority :
            pq' = PushHeap(pq, [type |-> p + 1, from |-> r.from, mid |-> r.mid])
      BY <1>4 DEF HandleChat
    <3>2. p + 1 # DELETE
      <4>1. r.from \in chatRoom /\ up => priority[r.from] >= CHAT \/ priority[r.from] = 1
        BY DEF IInv, Prioritized
      <4>2. up
        BY <1>4 DEF HandleChat, Hears
      <4>3. CASE r.from \in chatRoom
        <5>1. priority[r.from] \in Nat
          BY <4>3 DEF IInv, Types, LeaderType
        <5> QED BY <3>1, <4>1, <4>2, <4>3, <5>1 DEF CHAT, DELETE
      <4>4. CASE r.from \notin chatRoom
        <5>0. p \in UninitPriority
          BY <3>1, <4>4
        <5>1. p \in Nat /\ (p = 0 \/ p >= DEQUEUE)
          BY <5>0, SequencerAssumption
        <5> QED BY <5>1 DEF DELETE, DEQUEUE
      <4> QED BY <4>3, <4>4
    <3> DEFINE m == [type |-> p + 1, from |-> r.from, mid |-> r.mid]
    <3>3. Parted(m, Unsteady')
      BY <3>2 DEF Parted
    <3> HIDE DEF m
    <3> QED BY <3>1, <3>3 DEF m
  <2> QED BY <1>1, <1>4, <2>1, <2>2, ChatIsHeard
<1>5. CASE HandleDelete
  <2>1. /\ r.code = DELETE /\ toLeader # <<>> /\ prod.pc = "recv"
        /\ UNCHANGED <<clientVars, up, log, dangled, toClient>>
    BY <1>5 DEF HandleDelete, Hears
  <2>2. r.from \in Unsteady'
    <3>1. 1 \in DOMAIN toLeader /\ r = toLeader[1] /\ r \in SentRequests
      BY <1>0, <2>1
    <3>2. r.from \in Clients
      BY <2>1, <3>1 DEF SentRequests, DELETE, CHAT, DEQUEUE
    <3> HIDE DEF r
    <3>3. r.from \in Unsteady
      BY <2>1, <3>1, <3>2 DEF GInv, Deserved, Unsteady, Steady
    <3> QED BY <2>1, <3>3, PresentKept
  <2>3. /\ con'.pc = con.pc /\ con'.at = con.at /\ con'.msg = con.msg
        /\ chatRoom' \subseteq chatRoom
        /\ pq' = pq \/ pq' = PushHeap(pq, [type |-> DELETE, from |-> r.from, mid |-> 0])
    BY <1>5 DEF HandleDelete, DeleteUser, IInv, Types, ThreadType
  <2>4. Parted([type |-> DELETE, from |-> r.from, mid |-> 0], Unsteady')
    BY <2>2 DEF Parted
  <2>5. \A x \in Ids : Present(x)' => Present(x)
    BY <2>1, <2>3, PresentKept DEF Present
  <2> QED BY <1>1, <2>1, <2>3, <2>4, <2>5
<1>6. CASE HandleDequeue
  <2>1. CASE LeaderDies
    BY <1>6, <2>1, LeaderDiesKInv DEF HandleDequeue
  <2>2. CASE ~LeaderDies
    <3>1. /\ prod.pc # "welcome"
          /\ UNCHANGED <<chatRoom, clientVars, up, log, dangled, toClient, con, pq>>
      BY <1>6, <2>2 DEF HandleDequeue, Hears
    <3>2. \A x \in Ids : Present(x)' => Present(x)
      BY <3>1, PresentKept DEF Present
    <3> QED BY <1>1, <3>1, <3>2
  <2> QED BY <2>1, <2>2
<1>7. CASE WelcomeUser
  <2> DEFINE m == [type |-> ADD_USER, from |-> prod.id, mid |-> 0]
             d == UserList(chatRoom)
  <2>1. /\ SendClient(prod.id, d) /\ pq' = PushHeap(pq, m)
        /\ UNCHANGED <<chatRoom, clientVars, up, log, dangled, con>>
    BY <1>7 DEF WelcomeUser
  <2>2. Parted(m, Unsteady')
    BY DEF Parted, ADD_USER, DELETE
  <2>3. /\ \A i \in DOMAIN pq' : pq'[i] = m \/ \E j \in DOMAIN pq : pq'[i] = pq[j]
        /\ \A j \in DOMAIN pq : \E i \in DOMAIN pq' : pq'[i] = pq[j]
        /\ \E i \in DOMAIN pq' : pq'[i] = m
    BY <1>0, <2>1, PushHolds
  <2>4. \A x \in Ids : x = prod.id => \A c \in Clients : Announced(x, c)'
    <3>1. m.type = ADD_USER /\ m.from = prod.id
      OBVIOUS
    <3> HIDE DEF m
    <3> QED BY <2>3, <3>1 DEF Announced
  <2>5. \A x \in Ids : Present(x)' => Present(x)
    BY <2>1, PresentKept DEF Present
  <2>6. d.users = chatRoom'
    BY <2>1 DEF UserList
  <2> HIDE DEF m, d
  <2>7. ASSUME NEW c \in Clients
        PROVE  toClient'[c] = toClient[c] \/ toClient'[c] = Append(toClient[c], d)
    BY <2>1 DEF SendClient, IInv, Sent
  <2>8. ASSUME NEW c \in Clients, NEW x \in Ids PROVE Announced(x, c) => Announced(x, c)'
    BY <2>1, <2>3, <2>4, <2>7, AnnouncedStays
  <2>9. \A i \in DOMAIN pq' : Parted(pq'[i], Unsteady') \/ \E j \in DOMAIN pq : pq'[i] = pq[j]
    BY <2>2, <2>3
  <2>10. \A c \in Clients : \A users \in Lists(c)' : users \in Lists(c) \/ users = chatRoom'
    BY <2>1, <2>6, <2>7, SendLists DEF clientVars
  <2> QED BY <2>1, <2>5, <2>8, <2>9, <2>10, QuietKInv
<1> QED BY <1>2, <1>3, <1>4, <1>5, <1>6, <1>7 DEF Producer

\* Nobody who is steady, and stays so, is deleted.
LEMMA LeaderKInv ==
  ASSUME IInv, KInv, Remembered, LeaderTypes \/ LeaderQuits \/ \E c \in Clients : Suspect(c)
  PROVE  KInv'
<1>0. pq \in Seq(TypedMessages)
  BY DEF IInv, Typed
<1>1. CASE LeaderTypes
  <2>1. UNCHANGED <<up, chatRoom, pq, con, prod, log, dangled, clientVars, toClient>>
    BY <1>1 DEF LeaderTypes
  <2>2. \A x \in Ids : Present(x)' => Present(x)
    BY <2>1, PresentKept DEF Present
  <2>3. \A c \in Clients, x \in Ids : Announced(x, c)' = Announced(x, c)
    BY <2>1 DEF Announced
  <2>4. \A c \in Clients : Lists(c)' = Lists(c)
    BY <2>1 DEF clientVars, Lists
  <2> QED BY <2>1, <2>2, <2>3, <2>4, QuietKInv
<1>2. CASE LeaderQuits
  BY <1>2, LeaderDiesKInv DEF LeaderQuits
<1>3. ASSUME NEW y \in Clients, Suspect(y) PROVE KInv'
  <2>1. UNCHANGED <<log, dangled, clientVars, toClient>>
    BY <1>3 DEF Suspect
  <2>0. ~Steady(y)'
    <3>1. cst[y] = "gone" \/ y \in blind \/ Fault("suspect", y)
      BY <1>3 DEF Suspect
    <3>2. Fault("suspect", y) => "suspect" \in Suffered(y)'
      BY Suffering DEF IInv, Types, Ids
    <3> QED BY <2>1, <3>1, <3>2 DEF Steady, clientVars
  <2>2. CASE LeaderDies
    BY <2>1, <2>2, LeaderDiesKInv
  <2>3. CASE DeleteUser(y) /\ UNCHANGED <<up, prod>>
    <3> DEFINE m == [type |-> DELETE, from |-> y, mid |-> 0]
    <3>1. /\ con'.pc = con.pc /\ con'.at = con.at /\ con'.msg = con.msg
          /\ chatRoom' = chatRoom \ {y} /\ pq' = PushHeap(pq, m)
      BY <2>3 DEF DeleteUser, IInv, Types, ThreadType
    <3>2. Parted(m, Unsteady')
      BY <2>0 DEF Parted, Unsteady
    <3> HIDE DEF m
    <3>3. /\ \A i \in DOMAIN pq' : Parted(pq'[i], Unsteady') \/ \E j \in DOMAIN pq : pq'[i] = pq[j]
          /\ \A j \in DOMAIN pq : \E i \in DOMAIN pq' : pq'[i] = pq[j]
      BY <1>0, <3>1, <3>2, PushHolds
    <3>4. \A x \in Ids : Present(x)' => Present(x)
      BY <2>0, <2>1, <3>1, PresentKept DEF Present
    <3>5. ASSUME NEW c \in Clients, NEW x \in Ids PROVE Announced(x, c) => Announced(x, c)'
      <4>1. prod.pc = "welcome" /\ prod.id = x => Announced(x, c)'
        BY <2>3 DEF Announced
      <4> QED BY <2>1, <3>1, <3>3, <4>1, AnnouncedStays
    <3>6. \A c \in Clients : Lists(c)' = Lists(c)
      BY <2>1 DEF clientVars, Lists
    <3> QED BY <2>1, <2>3, <3>3, <3>4, <3>5, <3>6, QuietKInv
  <2> QED BY <1>3, <2>2, <2>3 DEF Suspect
<1> QED BY <1>1, <1>2, <1>3

\* What is announced in the loop is sent to all in the room.
LEMMA NextRecipientKInv ==
  ASSUME IInv, GInv, KInv, Remembered, NextRecipient
  PROVE  KInv'
<1>0. /\ up /\ con.pc = "mcast" /\ con.at \in Nat /\ seqNum \in DOMAIN log
      /\ con.msg = log[seqNum]
      /\ UNCHANGED <<up, chatRoom, pq, prod, log, dangled, clientVars>>
  <2>1. con.at \in Ids \cup {0}
    BY DEF IInv, Types, ThreadType
  <2>2. up /\ con.pc = "mcast" /\ seqNum \in DOMAIN log /\ con.msg = log[seqNum]
    BY DEF NextRecipient, IInv, Numbered
  <2>3. UNCHANGED <<up, chatRoom, pq, prod, log, dangled, clientVars>>
    BY DEF NextRecipient
  <2>4. \A i \in Ids \cup {0} : i \in Nat
    BY SequencerAssumption DEF Ids
  <2> QED BY <2>1, <2>2, <2>3, <2>4
<1>1. \A x \in Ids : Present(x)' => Present(x)
  BY <1>0, PresentKept DEF Present
<1>2. \A c \in Clients, x \in Ids :
        prod.pc = "welcome" /\ prod.id = x => Announced(x, c)'
  BY <1>0 DEF Announced
<1>3. con.msg.type # LIST_OF_USERS
  <2>1. con.msg \in TypedMessages
    BY <1>0 DEF IInv, Typed
  <2> QED BY <2>1 DEF TypedMessages, MessageTypes, LIST_OF_USERS, JOIN, ADD_USER, DELETE, CHAT
<1>4. \A c \in Clients : c \in Nat /\ c # Leader
  BY SequencerAssumption
<1>5. ASSUME NEW c \in Clients, Told(c)', Lists(c) # {}
      PROVE  c \in Others /\ cst[c] \in {"joining", "in"}
  BY <1>0, <1>4, <1>5, ListedIsThere, PresentKept DEF Others, Told
<1>6. ASSUME NEW y \in Others, con.at < y, \A d \in Others : d > con.at => y <= d, SendTo(y)
      PROVE  KInv'
  <2> DEFINE d == Multicast(con.msg, seqNum)
  <2>1. y \in Clients /\ y \in Nat
    BY SequencerAssumption DEF Others, IInv, Types, LeaderType, Ids
  <2>2. SendClient(y, d) /\ con'.pc = "mcast" /\ con'.at = y /\ con'.msg = con.msg
    BY <1>0, <1>6 DEF SendTo, IInv, Types, ThreadType
  <2>3. d.code = con.msg.type /\ d.msg = con.msg
    BY DEF Multicast
  <2> HIDE DEF d
  <2>4. toClient \in [Clients -> Seq(SentDatagrams(log))]
    BY DEF IInv, Sent
  <2>5. ASSUME NEW c \in Clients
        PROVE  toClient'[c] = toClient[c] \/ toClient'[c] = Append(toClient[c], d)
    BY <2>2, <2>4 DEF SendClient
  <2>6. ASSUME NEW c \in Clients, Told(c)', Lists(c) # {}, NEW x \in Ids
        PROVE  Announced(x, c) => Announced(x, c)'
    <3> SUFFICES ASSUME con.msg.type = ADD_USER, con.msg.from = x, con.at < c
                 PROVE  Announced(x, c)'
      BY <1>0, <1>2, <2>5, AnnouncedStays
    <3>1. y <= c
      BY <1>0, <1>4, <1>5, <1>6, <2>6
    <3>2. CASE y < c
      BY <2>2, <3>2 DEF Announced
    <3>3. CASE y = c
      <4>1. toClient'[c] = Append(toClient[c], d)
        BY <1>5, <2>2, <2>4, <2>6, <3>3 DEF SendClient
      <4>2. Len(toClient[c]) + 1 \in DOMAIN toClient'[c] /\ toClient'[c][Len(toClient[c]) + 1] = d
        BY <2>4, <4>1
      <4> QED BY <2>3, <4>2 DEF Announced
    <3> QED BY <1>4, <2>1, <3>1, <3>2, <3>3
  <2>7. \A c \in Clients : \A users \in Lists(c)' : users \in Lists(c) \/ users = chatRoom'
    BY <1>0, <1>3, <2>3, <2>5, SendLists DEF clientVars
  <2> QED BY <1>0, <1>1, <2>6, <2>7, QuietKInv
<1>7. ASSUME \A d \in Others : ~(d > con.at), EndLoop, UNCHANGED toClient
      PROVE  KInv'
  <2>1. ASSUME NEW c \in Clients, Told(c)', Lists(c) # {}, NEW x \in Ids
        PROVE  Announced(x, c) => Announced(x, c)'
    <3>1. ~(con.at < c)
      BY <1>0, <1>4, <1>5, <1>7, <2>1
    <3> QED BY <1>0, <1>2, <1>7, <3>1, AnnouncedStays
  <2>2. \A c \in Clients : Lists(c)' = Lists(c)
    BY <1>0, <1>7 DEF clientVars, Lists
  <2> QED BY <1>0, <1>1, <2>1, <2>2, QuietKInv
<1>8. ASSUME NEW y \in {e \in Others : e > con.at},
             \A d \in {e \in Others : e > con.at} : y <= d, SendTo(y)
      PROVE  KInv'
  <2>1. y \in Nat /\ y \in Others /\ y > con.at
    BY SequencerAssumption DEF Others, IInv, Types, LeaderType, Ids
  <2> QED BY <1>0, <1>6, <1>8, <2>1
<1> QED BY <1>7, <1>8 DEF NextRecipient

\* The rest of the consumer.
LEMMA ConsumerKInv ==
  ASSUME IInv, GInv, KInv, Remembered, Consumer
  PROVE  KInv'
<1> USE DEF clientVars
<1>0. pq \in Seq(TypedMessages) /\ log \in Seq(TypedMessages)
  BY DEF IInv, Typed
<1>1. CASE PopMessage
  <2>1. /\ up /\ con.pc = "pop" /\ pq # <<>> /\ log' = Append(log, pq[1]) /\ pq' = PopHeap(pq)
        /\ con'.pc = "mcast" /\ con'.at = 0 /\ con'.msg = pq[1]
        /\ UNCHANGED <<up, chatRoom, prod, dangled, clientVars, toClient>>
    BY <1>1 DEF PopMessage
  <2>2. \A i \in DOMAIN pq' : \E j \in DOMAIN pq : pq'[i] = pq[j]
    BY <1>0, <2>1, QueueHolds
  <2>3. \A n \in DOMAIN log' : \/ Parted(log'[n], Unsteady')
                               \/ \E k \in DOMAIN log : log'[n] = log[k]
    <3>1. 1 \in DOMAIN pq /\ Parted(pq[1], Unsteady')
      BY <1>0, <2>1, PresentKept DEF KInv, Departed, Parted
    <3> DEFINE m == pq[1]
    <3>2. log' = Append(log, m) /\ Parted(m, Unsteady')
      BY <2>1, <3>1
    <3> HIDE DEF m
    <3>3. \A n \in DOMAIN log' : log'[n] = m \/ (n \in DOMAIN log /\ log'[n] = log[n])
      BY <1>0, <3>2
    <3> QED BY <3>2, <3>3
  <2>4. Departed'
    BY <2>1, <2>2, <2>3, PresentKept, StillDeparted DEF KInv
  <2>5. ASSUME ~dangled', NEW c \in Clients, Told(c)', NEW users \in Lists(c)',
               NEW x \in Ids, Present(x)'
        PROVE  x \in users \/ Announced(x, c)'
    <3>1. Told(c) /\ Present(x) /\ users \in Lists(c)
      BY <2>1, <2>5, PresentKept DEF Present, Lists
    <3>2. Announced(x, c) => Announced(x, c)'
      <4>1. \A j \in DOMAIN pq : j = 1 \/ \E i \in DOMAIN pq' : pq'[i] = pq[j]
        BY <1>0, <2>1, PopHolds
      <4>2. 0 < c
        BY SequencerAssumption
      <4>3. pq[1].type = ADD_USER /\ pq[1].from = x => Announced(x, c)'
        BY <2>1, <4>2 DEF Announced
      <4>4. prod.pc = "welcome" /\ prod.id = x => Announced(x, c)'
        BY <2>1 DEF Announced
      <4> QED BY <2>1, <4>1, <4>3, <4>4, AnnouncedStays
    <3>3. x \in users \/ Announced(x, c)
      BY <2>1, <2>5, <3>1 DEF KInv
    <3> QED BY <3>2, <3>3
  <2> QED BY <2>4, <2>5 DEF KInv
<1>2. CASE AdvanceErased
  <2>1. dangled' /\ UNCHANGED <<log, clientVars>> /\ (pq' = pq \/ pq' = <<>>)
    BY <1>2 DEF AdvanceErased, LeaderDies
  <2>2. Departed'
    BY <2>1, PresentKept, StillDeparted DEF KInv
  <2> QED BY <2>1, <2>2 DEF KInv
<1>3. CASE FinishMessage
  <2>1. /\ con.pc = "tail"
        /\ UNCHANGED <<up, chatRoom, pq, prod, log, dangled, clientVars>>
    BY <1>3 DEF FinishMessage
  <2>2. ASSUME NEW c \in Clients
        PROVE  toClient'[c] = toClient[c] \/ toClient'[c] = Append(toClient[c], Dequeue)
    BY <1>3 DEF FinishMessage, SendClient, IInv, Sent
  <2>3. Dequeue.code # LIST_OF_USERS
    BY DEF Dequeue, DEQUEUE, LIST_OF_USERS
  <2>4. \A x \in Ids : Present(x)' => Present(x)
    BY <2>1, PresentKept DEF Present
  <2>5. ASSUME NEW c \in Clients, NEW x \in Ids PROVE Announced(x, c) => Announced(x, c)'
    <3>1. prod.pc = "welcome" /\ prod.id = x => Announced(x, c)'
      BY <2>1 DEF Announced
    <3> QED BY <2>1, <2>2, <3>1, AnnouncedStays
  <2>6. \A c \in Clients : \A users \in Lists(c)' : users \in Lists(c) \/ users = chatRoom'
    BY <2>1, <2>2, <2>3, SendLists
  <2> QED BY <2>1, <2>4, <2>5, <2>6, QuietKInv
<1> QED BY <1>1, <1>2, <1>3, NextRecipientKInv DEF Consumer

------------------------------------------------------------------------------
\* A client's own step leaves what the others know as it is.
LEMMA ClientStepKInv ==
  ASSUME IInv, KInv, Remembered, NEW c \in Clients, UNCHANGED leaderVars,
         \A e \in Clients \ {c} :
           /\ cst'[e] = cst[e] /\ roster'[e] = roster[e] /\ toClient'[e] = toClient[e]
           /\ ((e \in blind') <=> (e \in blind)),
         cst[c] = "gone" => cst'[c] = "gone",
         c \in blind => c \in blind' \/ cst'[c] = "gone",
         up /\ ~dangled /\ Told(c)' => \A users \in Lists(c)' : \E old \in Lists(c) :
           \A x \in Ids : Present(x) /\ (x \in old \/ Announced(x, c))
                            => x \in users \/ Announced(x, c)'
  PROVE  KInv'
<1> USE DEF leaderVars
<1>1. /\ Unsteady \subseteq Unsteady'
      /\ \A e \in Clients : Steady(e)' => Steady(e)
  BY UnsteadyKept
<1>2. \A e \in Clients : Told(e)' => Told(e)
  BY <1>1 DEF Told, Remembered
<1>3. Departed'
  BY <1>1, StillDeparted DEF KInv
<1>4. \A x \in Ids : Present(x)' => Present(x)
  BY <1>1 DEF Present
<1>5. ASSUME up, ~dangled, NEW e \in Clients, Told(e)', NEW users \in Lists(e)',
             NEW x \in Ids, Present(x)'
      PROVE  x \in users \/ Announced(x, e)'
  <2>1. Told(e) /\ Present(x)
    BY <1>2, <1>4, <1>5
  <2>2. CASE e = c
    <3>1. PICK old \in Lists(c) : x \in old \/ Announced(x, c) => x \in users \/ Announced(x, c)'
      BY <1>5, <2>1, <2>2
    <3>2. x \in old \/ Announced(x, c)
      BY <1>5, <2>1, <2>2, <3>1 DEF KInv
    <3> QED BY <2>2, <3>1, <3>2
  <2>3. CASE e # c
    <3>1. Lists(e)' = Lists(e)
      BY <2>3 DEF Lists
    <3>2. Announced(x, e) => Announced(x, e)'
      BY <2>3 DEF Announced
    <3> QED BY <1>5, <2>1, <3>1, <3>2 DEF KInv
  <2> QED BY <2>2, <2>3
<1> QED BY <1>3, <1>5 DEF KInv

\* Nothing is said of who leaves, or misses the list.
LEMMA UnsteadyKInv ==
  ASSUME IInv, KInv, Remembered, NEW c \in Clients, UNCHANGED leaderVars,
         Leaves(c) \/ (Receives(c) /\ blind' = blind \cup {c} /\ cst' = [cst EXCEPT ![c] = "in"]
                       /\ cst[c] # "gone" /\ UNCHANGED roster)
  PROVE  KInv'
<1>1. \A e \in Clients \ {c} :
        /\ cst'[e] = cst[e] /\ roster'[e] = roster[e] /\ toClient'[e] = toClient[e]
        /\ ((e \in blind') <=> (e \in blind))
  BY DEF Leaves, Receives, IInv, Types, ClientType, Sent
<1>2. ~Told(c)'
  BY DEF Leaves, Told, Steady, IInv, Types, ClientType
<1>3. /\ cst[c] = "gone" => cst'[c] = "gone"
      /\ c \in blind => c \in blind' \/ cst'[c] = "gone"
  BY DEF Leaves, IInv, Types, ClientType
<1> QED BY <1>1, <1>2, <1>3, ClientStepKInv

\* What is read and is no notice about x leaves x announced.
LEMMA ReadsStillAnnounced ==
  ASSUME IInv, NEW c \in Clients, Receives(c), UNCHANGED leaderVars, NEW x,
         NextCode(c) = ADD_USER => Head(toClient[c]).msg.from # x
  PROVE  Announced(x, c) => Announced(x, c)'
<1> USE DEF leaderVars
<1> DEFINE b == toClient[c]
           t == Tail(b)
<1>1. /\ b \in Seq(SentDatagrams(log)) /\ b # <<>> /\ b[1] = Head(b) /\ toClient'[c] = t
  BY NextNumber
<1>2. ASSUME NEW i \in DOMAIN b, b[i].code = ADD_USER, b[i].msg.from = x
      PROVE  \E j \in DOMAIN t : t[j].code = ADD_USER /\ t[j].msg.from = x
  <2>1. i # 1
    BY <1>1, <1>2 DEF NextCode
  <2>2. i - 1 \in DOMAIN t /\ t[i - 1] = b[i]
    <3>1. /\ DOMAIN b = 1..Len(b) /\ Len(b) \in Nat \ {0} /\ DOMAIN t = 1..(Len(b) - 1)
          /\ \A j \in 1..(Len(b) - 1) : t[j] = b[j + 1]
      BY <1>1
    <3> HIDE DEF b, t
    <3>2. i - 1 \in 1..(Len(b) - 1) /\ (i - 1) + 1 = i
      BY <2>1, <3>1
    <3> QED BY <3>1, <3>2
  <2> QED BY <1>2, <2>2
<1> QED BY <1>1, <1>2 DEF Announced

\* What a client in the room reads keeps it up to date.
LEMMA ReceiverKInv ==
  ASSUME IInv, KInv, Remembered, NEW c \in Clients, Receiver(c)
  PROVE  KInv'
<1> DEFINE d == Head(toClient[c])
<1>1. Receives(c) /\ cst[c] = "in" /\ UNCHANGED <<leaderVars, cst, blind>>
  BY DEF Receiver, ReceiveChat, ReceiveAddUser, ReceiveDelete, ReceiveDequeue,
         ReceiveJoin, ReceiveList, Hearing, clientVars
<1>2. \/ NextCode(c) # ADD_USER /\ UNCHANGED roster
      \/ NextCode(c) = ADD_USER /\ roster' = [roster EXCEPT ![c] = @ \cup {d.msg.from}]
      \/ NextCode(c) = DELETE /\ roster' = [roster EXCEPT ![c] = @ \ {d.msg.from}]
  BY DEF Receiver, ReceiveChat, ReceiveAddUser, ReceiveDelete, ReceiveDequeue, clientVars,
         ReceiveJoin, ReceiveList, IsChat, CHAT, ADD_USER, JOIN, DEQUEUE, LIST_OF_USERS
<1>3. roster \in [Clients -> SUBSET Ids]
  BY DEF IInv, Types, ClientType
<1>4. \A e \in Clients \ {c} : toClient'[e] = toClient[e] /\ roster'[e] = roster[e]
  BY <1>1, <1>2, <1>3, NextNumber
<1>5. NextCode(c) = DELETE => d.msg.from \in Unsteady
  <2> SUFFICES ASSUME NextCode(c) = DELETE PROVE d.msg.from \in Unsteady
    OBVIOUS
  <2>1. toClient[c][1] = d /\ d.code = DELETE
    BY <1>1, NextNumber DEF NextCode
  <2> HIDE DEF d
  <2>2. IsNumber(d, d.seq)
    BY <2>1 DEF IsNumber, DELETE, LIST_OF_USERS, DEQUEUE
  <2>3. d.seq \in DOMAIN log /\ d.msg = log[d.seq] /\ d.code = log[d.seq].type
    BY <1>1, <2>1, <2>2, NextNumber
  <2> QED BY <2>1, <2>3 DEF KInv, Departed, Parted
<1>6. Lists(c) = {roster[c]} /\ Lists(c)' = {roster'[c]}
  BY <1>1 DEF Lists
<1>7. ASSUME NEW x \in Ids, Present(x), x \in roster[c] \/ Announced(x, c)
      PROVE  x \in roster'[c] \/ Announced(x, c)'
  <2>1. NextCode(c) = DELETE => d.msg.from # x
    BY <1>5, <1>7 DEF Present, Unsteady
  <2>2. CASE x \in roster[c]
    BY <1>2, <1>3, <2>1, <2>2 DEF ADD_USER, DELETE
  <2>3. CASE NextCode(c) = ADD_USER /\ d.msg.from = x
    BY <1>2, <1>3, <2>3 DEF ADD_USER, DELETE
  <2>4. CASE Announced(x, c) /\ ~(NextCode(c) = ADD_USER /\ d.msg.from = x)
    BY <1>1, <2>4, ReadsStillAnnounced
  <2> QED BY <1>7, <2>2, <2>3, <2>4
<1> QED BY <1>1, <1>4, <1>6, <1>7, ClientStepKInv

\* The rest of what a client does.
LEMMA ClientKInv ==
  ASSUME IInv, GInv, KInv, Remembered, NEW c \in Clients, ClientStep(c)
  PROVE  KInv'
<1>1. CASE Join(c)
  <2>1. /\ cst[c] = "out" /\ UNCHANGED <<leaderVars, roster, blind, toClient>>
        /\ cst'[c] = "joining" /\ \A e \in Clients \ {c} : cst'[e] = cst[e]
    BY <1>1 DEF Join, IInv, Types, ClientType
  <2>2. Told(c)' => Lists(c)' = {}
    <3>1. Steady(c)' => Steady(c)
      BY <2>1 DEF Steady, Remembered
    <3>2. Steady(c) => toClient[c] = <<>>
      BY <2>1 DEF GInv, Housed
    <3> QED BY <2>1, <3>1, <3>2 DEF Told, Lists
  <2> QED BY <2>1, <2>2, ClientStepKInv
<1>2. CASE ReadList(c)
  <2>1. /\ Receives(c) /\ NextCode(c) = LIST_OF_USERS /\ cst[c] = "joining"
        /\ cst'[c] = "in" /\ \A e \in Clients \ {c} : cst'[e] = cst[e] /\ roster'[e] = roster[e]
        /\ roster'[c] = Head(toClient[c]).users
        /\ UNCHANGED <<leaderVars, blind>>
    BY <1>2 DEF ReadList, IInv, Types, ClientType
  <2>2. \A e \in Clients \ {c} : toClient'[e] = toClient[e]
    BY <2>1, NextNumber
  <2>3. Lists(c)' = {roster'[c]} /\ roster'[c] \in Lists(c)
    <3>1. 1 \in DOMAIN toClient[c] /\ toClient[c][1] = Head(toClient[c])
      BY <2>1, NextNumber
    <3> QED BY <2>1, <3>1 DEF Lists, NextCode
  <2>4. \A x \in Ids : Announced(x, c) => Announced(x, c)'
    BY <2>1, ReadsStillAnnounced DEF LIST_OF_USERS, ADD_USER
  <2> QED BY <2>1, <2>2, <2>3, <2>4, ClientStepKInv
<1>3. CASE MissList(c)
  BY <1>3, UnsteadyKInv DEF MissList
<1>4. CASE JoinTimeout(c) \/ ExitChatroom(c) \/ Crash(c)
  BY <1>4, UnsteadyKInv DEF JoinTimeout, ExitChatroom, Crash
<1>5. CASE SendChat(c)
  <2>1. UNCHANGED <<leaderVars, cst, roster, blind, toClient>>
    BY <1>5 DEF SendChat
  <2>2. Lists(c)' = Lists(c) /\ \A x \in Ids : Announced(x, c)' = Announced(x, c)
    BY <2>1 DEF leaderVars, Lists, Announced
  <2> QED BY <2>1, <2>2, ClientStepKInv
<1> QED BY <1>1, <1>2, <1>3, <1>4, <1>5, ReceiverKInv DEF ClientStep, Joiner

\* What is late or repeated is still there.
LEMMA OutcomeKeeps ==
  ASSUME NEW S, NEW b \in Seq(S), NEW i \in DOMAIN b, NEW kind \in {"delay", "duplicate"}
  PROVE  \A j \in DOMAIN b : \E k \in DOMAIN Outcome(kind, b, i) : Outcome(kind, b, i)[k] = b[j]
<1> DEFINE w == Without(b, i)
           n == Len(b)
<1>1. n \in Nat /\ DOMAIN b = 1..n /\ i \in 1..n
  OBVIOUS
<1>2. CASE kind = "delay"
  <2> DEFINE l == Late(b, i)
  <2>1. /\ w \in Seq(S) /\ Len(w) = n - 1
        /\ \A j \in 1..(n - 1) : w[j] = b[IF j < i THEN j ELSE j + 1]
    BY WithoutAt
  <2>2. l = Append(w, b[i]) /\ Outcome(kind, b, i) = l
    BY <1>2 DEF Late, Outcome
  <2> HIDE DEF w, l, n
  <2>3. DOMAIN l = 1..n /\ l[n] = b[i] /\ \A j \in 1..(n - 1) : l[j] = w[j]
    BY <1>1, <2>1, <2>2
  <2>4. ASSUME NEW j \in 1..n PROVE \E k \in 1..n : l[k] = b[j]
    <3>1. CASE j < i
      <4>1. j \in 1..(n - 1) /\ l[j] = w[j] /\ w[j] = b[j]
        BY <1>1, <2>1, <2>3, <3>1
      <4> QED BY <4>1
    <3>2. CASE j = i
      BY <1>1, <2>3, <3>2
    <3>3. CASE j > i
      <4>1. j - 1 \in 1..(n - 1) /\ ~(j - 1 < i) /\ (j - 1) + 1 = j
        BY <1>1, <3>3
      <4>2. l[j - 1] = b[j]
        BY <2>1, <2>3, <4>1
      <4> QED BY <1>1, <4>1, <4>2
    <3> QED BY <1>1, <3>1, <3>2, <3>3
  <2>5. \A j \in DOMAIN b : \E k \in DOMAIN l : l[k] = b[j]
    BY <1>1, <2>3, <2>4
  <2> QED BY <2>2, <2>5
<1>3. CASE kind = "duplicate"
  <2> DEFINE l == Append(b, b[i])
  <2>1. Outcome(kind, b, i) = l
    BY <1>3 DEF Outcome, Twice
  <2>2. \A j \in DOMAIN b : j \in DOMAIN l /\ l[j] = b[j]
    OBVIOUS
  <2> HIDE DEF l
  <2> QED BY <2>1, <2>2
<1> QED BY <1>2, <1>3

\* Who loses nothing is still told everything.
LEMMA NetworkKInv ==
  ASSUME IInv, KInv, Remembered, Lose \/ Delay \/ Duplicate
  PROVE  KInv'
<1> USE DEF leaderVars
<1>1. UNCHANGED <<leaderVars, clientVars>>
  BY Disturbance
<1>2. \A x \in Ids : Present(x)' => Present(x)
  BY <1>1, PresentKept DEF Present
<1>3. ASSUME NEW c \in Clients, toClient'[c] = toClient[c]
      PROVE  Lists(c)' = Lists(c) /\ \A x \in Ids : Announced(x, c)' = Announced(x, c)
  BY <1>1, <1>3 DEF clientVars, Lists, Announced
<1>4. CASE UNCHANGED toClient
  BY <1>1, <1>2, <1>3, <1>4, QuietKInv
<1>5. ASSUME NEW kind \in {"lose", "delay", "duplicate"}, NEW y \in Clients,
             NEW i \in DOMAIN toClient[y], Fault(kind, y),
             toClient' = [toClient EXCEPT ![y] = Outcome(kind, toClient[y], i)]
      PROVE  KInv'
  <2>1. /\ toClient[y] \in Seq(SentDatagrams(log))
        /\ toClient'[y] = Outcome(kind, toClient[y], i)
        /\ \A c \in Clients \ {y} : toClient'[c] = toClient[c]
    BY <1>5 DEF IInv, Sent
  <2>2. ASSUME Told(y)'
        PROVE  /\ \A users \in Lists(y)' : users \in Lists(y)
               /\ \A x \in Ids : Announced(x, y) => Announced(x, y)'
    <3> DEFINE b == toClient[y]
               t == toClient'[y]
    <3>1. kind \in {"delay", "duplicate"}
      <4>1. kind \in Suffered(y)'
        BY <1>5, Suffering DEF IInv, Types, Ids
      <4> QED BY <1>5, <2>2, <4>1 DEF Told
    <3>2. \A j \in DOMAIN t : \E k \in DOMAIN b : t[j] = b[k]
      BY <1>5, <2>1, OutcomeHolds
    <3>3. \A j \in DOMAIN b : \E k \in DOMAIN t : t[k] = b[j]
      BY <1>5, <2>1, <3>1, OutcomeKeeps
    <3> HIDE DEF b, t
    <3>4. \A users \in Lists(y)' : users \in Lists(y)
      BY <1>1, <3>2 DEF clientVars, Lists, b, t
    <3>5. \A x \in Ids : Announced(x, y) => Announced(x, y)'
      BY <1>1, <3>3 DEF Announced, b, t
    <3> QED BY <3>4, <3>5
  <2> QED BY <1>1, <1>2, <1>3, <2>1, <2>2, QuietKInv
<1> QED BY <1>4, <1>5, Disturbance

\* At first nobody has a list.
LEMMA InitKInv == Init => KInv
<1> SUFFICES ASSUME Init PROVE KInv
  OBVIOUS
<1>1. Departed
  BY DEF Init, Departed
<1>2. \A c \in Clients : Lists(c) = {}
  BY DEF Init, Lists
<1> QED BY <1>1, <1>2 DEF KInv

\* Every step preserves KInv.
LEMMA NextKInv ==
  ASSUME IInv, DInv, GInv, KInv, [Next]_vars
  PROVE  KInv'
<1>1. Remembered
  BY NextRemembers
<1>2. CASE UNCHANGED vars
  <2>1. \A x \in Ids : Present(x)' => Present(x)
    BY <1>1, <1>2, PresentKept DEF vars, leaderVars, Present
  <2>2. \A c \in Clients : Lists(c)' = Lists(c) /\ \A x \in Ids : Announced(x, c)' = Announced(x, c)
    BY <1>2 DEF vars, leaderVars, clientVars, Lists, Announced
  <2> QED BY <1>1, <1>2, <2>1, <2>2, QuietKInv DEF vars, leaderVars
<1> QED BY <1>1, <1>2, ProducerKInv, ConsumerKInv, LeaderKInv, ClientKInv, NetworkKInv DEF Next

\* Whatever happens to others and to the requests, a client who has read the
\* list of users, to whom nothing sent was lost and who is not falsely suspected
\* knows everyone who is in the room, or is about to be told, but for users who
\* have gone, are blind or were falsely suspected, and unless the consumer's
\* iterator has gone astray (leader.cpp's producerTask and consumerTask,
\* client.cpp's joinNetwork and receiver).
THEOREM EverybodyKnown == Spec => []KnowsMembers
<1>1. IInv /\ DInv /\ GInv /\ KInv /\ [Next]_vars => KInv'
  BY NextKInv
<1>2. IInv /\ Accepted /\ DInv /\ [Next]_vars => DInv'
  BY NextDInv
<1>3. IInv /\ GInv /\ [Next]_vars => GInv'
  BY NextGInv
<1>4. IInv /\ KInv => KnowsMembers
  <2> SUFFICES ASSUME IInv, KInv, up, ~dangled, NEW c \in Clients \ blind, cst[c] = "in",
                      Suffered(c) \subseteq {"delay", "duplicate"}, NEW x \in chatRoom \ blind,
                      ~(x \in Clients /\ (cst[x] = "gone" \/ "suspect" \in Suffered(x)))
               PROVE  x \in roster[c] \/ Announced(x, c)
    BY DEF KnowsMembers
  <2>1. x \in Ids /\ Present(x)
    BY DEF IInv, Types, LeaderType, Present, Steady
  <2>2. Told(c) /\ roster[c] \in Lists(c)
    BY DEF Told, Steady, Lists
  <2> QED BY <2>1, <2>2 DEF KInv
<1> QED BY <1>1, <1>2, <1>3, <1>4, InitIInv, NextIInv, InitAccepted, NextAccepted,
           InitDInv, InitGInv, InitKInv, PTL DEF Spec
=============================================================================
