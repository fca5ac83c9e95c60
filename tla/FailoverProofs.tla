---------------------------- MODULE FailoverProofs ----------------------------
(****************************************************************************)
(* Why an election has one winner, for any clients and ports, whichever of  *)
(* them crash and however their elections overlap: as long as no client    *)
(* that has no leader runs two of them at once, and all ports differ.       *)
(*                                                                          *)
(* The argument: while the first leader lives, nobody misses it, and it     *)
(* eliminates only the dead.  Until a client has heard of a successor, its  *)
(* map therefore holds everyone who is alive.  It declares itself only if   *)
(* nobody in its map has a higher port, so that there is no other candidate *)
(* and nobody of a higher port alive; and a declared leader is out of a     *)
(* client's map no sooner than that client has heard of it.                 *)
(****************************************************************************)
EXTENDS Failover, MessageHeapProofs

------------------------------------------------------------------------------
(* Types.                                                                   *)

\* A leader's user types no more than the bound.
InBound == \A l \in Authors : typing[l].pc = "read" => typing[l].lines < MaxLines

\* What a leader queues, and what can be on its way to a client.
LineTypes == {DELETE} \cup {t \in Nat : t >= CHAT}
Queueable == [type : LineTypes \cup {CLOSE_RECOVERY}, from : Leaders, mid : Nat]
Calls     == [code : {ELECTION, LEADER, RECOVERY}, from : Clients]
Lines     == {d \in [code : LineTypes \cup {CLOSE_RECOVERY}, seq : Nat, msg : Messages] :
                d.code # CLOSE_RECOVERY => d.msg.type = d.code}
Sent      == Calls \cup Lines
Seen      == [seq : Nat \ {0}, msg : Messages]

LeaderType ==
  /\ st \in [Leaders -> {"client", "recovering", "leading", "gone"}]
  /\ st[Leader] \in {"leading", "gone"}
  /\ room \in [Leaders -> SUBSET Clients]
  /\ queue \in [Leaders -> Seq(Queueable)]
  /\ seqNum \in [Leaders -> Nat]
  /\ con \in [Leaders -> [pc : {"pop", "mcast"}, msg : Queueable, at : Nat]]
  /\ requests \in [Leaders -> Seq([from : Leaders, mid : Nat])]
  /\ \A l \in Leaders : requests[l] # <<>> => Lives(l)
  /\ muted \in [Leaders -> BOOLEAN]
  /\ typing \in [Leaders -> [pc : {"top", "read"}, lines : 0..MaxLines]]
  /\ InBound

RecoveryType ==
  /\ best \in [Clients -> Entries]
  /\ asking \in [Clients -> [at : {0} \cup Clients, waits : BOOLEAN]]
  /\ answers \in [Clients -> Seq(Seen)]
  /\ \A c \in Clients : answers[c] # <<>> => Lives(c)
  /\ \A c \in Clients : Lives(c) => best[c] \in Seen
  /\ overtaken \in BOOLEAN

ElectionType ==
  /\ roster \in [Clients -> SUBSET Leaders]
  /\ isElection \in [Clients -> BOOLEAN]
  /\ leaderFound \in [Clients -> BOOLEAN]
  /\ isOk \in [Clients -> BOOLEAN]
  /\ thread \in [Clients -> [Threads -> [pc : Places, at : Nat]]]
  /\ \A c \in Clients, t \in Threads : st[c] # "client" => thread[c][t].pc = "none"
  /\ raced \in BOOLEAN

ClientType ==
  /\ leaderOf \in [Clients -> Leaders]
  /\ isRecovery \in [Clients -> BOOLEAN]
  /\ isRecoveryDone \in [Clients -> BOOLEAN]
  /\ last \in [Clients -> Seen]
  /\ spoke \subseteq Speakers
  /\ shown \in [Clients -> Seq(Entries)]

BoxType ==
  /\ box \in [Clients -> Seq(Sent)]
  /\ \A c \in Clients : box[c] # <<>> => st[c] = "client"

Types == LeaderType /\ RecoveryType /\ ElectionType /\ ClientType /\ BoxType

------------------------------------------------------------------------------
(* The invariant.                                                           *)

\* What the first leader queues: lines, and notices of the dead.
FirstQueueable ==
  {m \in Queueable : /\ m.type # CLOSE_RECOVERY
                     /\ m.type = DELETE => m.from \in Clients /\ st[m.from] = "gone"}

OnlyDeadDeleted ==
  /\ queue[Leader] \in Seq(FirstQueueable)
  /\ con[Leader].pc = "mcast" => con[Leader].msg \in FirstQueueable

\* Nobody misses a leader who is there.
Calm ==
  st[Leader] = "leading" => \A c \in Clients :
    /\ st[c] \in {"client", "gone"}
    /\ st[c] = "client" =>
         /\ c \in room[Leader] /\ leaderOf[c] = Leader
         /\ ~isElection[c] /\ ~leaderFound[c]
         /\ \A t \in Threads : thread[c][t].pc = "none"
         /\ \A i \in DOMAIN box[c] :
              box[c][i].code \notin {ELECTION, LEADER, RECOVERY, CLOSE_RECOVERY}

\* The datagrams up to the first LEADER.
Early(b, i) == \A j \in 1..(i - 1) : b[j].code # LEADER
Heralded(b) == \E i \in DOMAIN b : b[i].code = LEADER
Knows(c)    == leaderFound[c] \/ Heralded(box[c])

\* What c may still read before it has heard of a successor.
Harmless(c, b, i) ==
  /\ b[i].code \notin {RECOVERY, CLOSE_RECOVERY}
  /\ b[i].code = DELETE => b[i].msg.from \in Clients /\ st[b[i].msg.from] = "gone"
  /\ b[i].code = LEADER =>
       /\ b[i].from \in roster[c] /\ Port[b[i].from] > Port[c]
       /\ \A j \in 1..(i - 1) : b[j].code = DELETE => b[j].msg.from # b[i].from

\* Who has not heard of a successor has everyone alive in its map.
Unaware(c) ==
  st[c] = "client" /\ ~leaderFound[c] =>
    /\ leaderOf[c] = Leader
    /\ \A d \in Clients \ {c} : st[d] # "gone" => d \in roster[c]
    /\ \A i \in DOMAIN box[c] : Early(box[c], i) => Harmless(c, box[c], i)

\* Who has no leader runs one election.
Single(c) ==
  ~leaderFound[c] => \A t, u \in Threads :
    thread[c][t].pc # "none" /\ thread[c][u].pc # "none" => t = u

\* An election that has had no OK has met nobody higher.
Swept(c) ==
  st[c] = "client" /\ ~leaderFound[c] /\ ~isOk[c] => \A t \in Threads :
    /\ thread[c][t].pc = "elect" => thread[c][t].at = 0
    /\ thread[c][t].pc = "sleep" => Higher(c) = {}

AskedByLower(c) ==
  \A i \in DOMAIN box[c] : box[c][i].code = ELECTION => Port[box[c][i].from] < Port[c]

\* Who declares itself has not heard of another.
Sole(c) == Declares(c) => ~Knows(c)

\* Whom a declared leader has told so, everybody in the end, knows it.
Told(w, d) ==
  \/ best[w].seq > 0
  \/ \E t \in Threads : \/ thread[w][t].pc = "quit"
                        \/ thread[w][t].pc = "tell" /\ d <= thread[w][t].at
Heard(w, d) == d # w /\ st[d] = "client" /\ Told(w, d) => Knows(d)

Sound(c)   == Unaware(c) /\ Single(c) /\ Swept(c) /\ AskedByLower(c) /\ Sole(c)
Clientwise == \A c \in Clients : Sound(c)
Announced  == \A w, d \in Clients : Heard(w, d)

\* Of all who declare themselves there is one, and nobody there is higher.
OneDeclared ==
  \A c \in Clients : Declared(c) =>
    \A d \in Clients : (Declared(d) => d = c) /\ (st[d] = "client" => Port[d] <= Port[c])

\* What holds as long as nobody has raced.
Tidy ==
  /\ Types /\ OnlyDeadDeleted /\ Calm /\ Clientwise /\ Announced /\ OneDeclared

IInv ==
  /\ Types /\ OnlyDeadDeleted /\ Calm
  /\ ~raced /\ DistinctPorts => Clientwise /\ Announced /\ OneDeclared

------------------------------------------------------------------------------
(* Datagrams.                                                               *)

\* The codes of lines are none of the others.
LEMMA Distinct ==
  /\ \A t \in LineTypes : t \notin {CLOSE_RECOVERY, ADD_USER, ELECTION, LEADER, RECOVERY} /\ t \in Nat
  /\ LineTypes \subseteq Nat /\ CLOSE_RECOVERY \in Nat
BY DEF LineTypes, DELETE, CHAT, CLOSE_RECOVERY, ADD_USER, ELECTION, LEADER, RECOVERY

\* A datagram is what its code says it is.
LEMMA SentForm ==
  ASSUME NEW d \in Sent
  PROVE  /\ d.code \in {ELECTION, LEADER, RECOVERY} => d.from \in Clients
         /\ d.code \notin {ELECTION, LEADER, RECOVERY} =>
              d.seq \in Nat /\ d.msg \in Messages /\ d.code \in LineTypes \cup {CLOSE_RECOVERY}
         /\ d.code \in LineTypes => d.msg.type = d.code
<1>1. CASE d \in Calls
  BY <1>1, Distinct DEF Calls
<1>2. CASE d \in Lines
  BY <1>2, Distinct DEF Lines, CLOSE_RECOVERY, ELECTION, LEADER, RECOVERY
<1> QED BY <1>1, <1>2 DEF Sent

\* What is left of a queue after its head.
LEMMA TailElements ==
  ASSUME NEW S, NEW b \in Seq(S), b # <<>>
  PROVE  /\ Tail(b) \in Seq(S) /\ Len(Tail(b)) = Len(b) - 1 /\ Len(b) \in Nat \ {0}
         /\ Head(b) \in S /\ Head(b) = b[1] /\ 1 \in DOMAIN b
         /\ \A i \in DOMAIN Tail(b) : i \in Nat \ {0} /\ i + 1 \in DOMAIN b /\ Tail(b)[i] = b[i + 1]
BY HeadTailProperties

\* What a queue holds after a datagram more.
LEMMA AppendElements ==
  ASSUME NEW S, NEW b \in Seq(S), NEW x \in S
  PROVE  /\ Append(b, x) \in Seq(S) /\ DOMAIN Append(b, x) = DOMAIN b \cup {Len(b) + 1}
         /\ Len(b) + 1 \in Nat /\ DOMAIN b = 1..Len(b) /\ Append(b, x)[Len(b) + 1] = x
         /\ \A i \in DOMAIN b : Append(b, x)[i] = b[i]
BY AppendProperties

\* A datagram that is appended comes after a LEADER, if there is one.
LEMMA EarlyAppend ==
  ASSUME NEW S, NEW b \in Seq(S), NEW x \in S, NEW i \in DOMAIN Append(b, x),
         Early(Append(b, x), i)
  PROVE  \/ i \in DOMAIN b /\ Early(b, i)
         \/ i = Len(b) + 1 /\ ~Heralded(b)
<1> DEFINE a == Append(b, x)
<1>1. /\ DOMAIN a = DOMAIN b \cup {Len(b) + 1} /\ DOMAIN b = 1..Len(b) /\ Len(b) \in Nat
      /\ \A j \in DOMAIN b : a[j] = b[j]
  BY AppendElements
<1> HIDE DEF a
<1>2. CASE i \in DOMAIN b
  BY <1>1, <1>2 DEF Early, a
<1>3. CASE i = Len(b) + 1
  BY <1>1, <1>3 DEF Early, Heralded, a
<1> QED BY <1>1, <1>2, <1>3 DEF a

\* A queue announces a successor iff it did or the new datagram does.
LEMMA HeraldedAppend ==
  ASSUME NEW S, NEW b \in Seq(S), NEW x \in S
  PROVE  Heralded(Append(b, x)) <=> Heralded(b) \/ x.code = LEADER
BY AppendElements DEF Heralded

\* Reading what is no LEADER leaves early what was early.
LEMMA EarlyTail ==
  ASSUME NEW S, NEW b \in Seq(S), b # <<>>, Head(b).code # LEADER,
         NEW i \in DOMAIN Tail(b), Early(Tail(b), i)
  PROVE  i + 1 \in DOMAIN b /\ Early(b, i + 1) /\ Tail(b)[i] = b[i + 1]
<1>1. i \in Nat \ {0} /\ i + 1 \in DOMAIN b /\ Tail(b)[i] = b[i + 1]
  BY TailElements
<1>2. ASSUME NEW j \in 1..i PROVE b[j].code # LEADER
  <2>1. CASE j = 1
    BY <2>1, TailElements
  <2>2. CASE j # 1
    <3>1. j - 1 \in 1..(i - 1) /\ j - 1 \in DOMAIN Tail(b)
      BY <1>1, <2>2, TailElements
    <3>2. Tail(b)[j - 1] = b[j]
      BY <3>1, TailElements
    <3> QED BY <3>1, <3>2 DEF Early
  <2> QED BY <2>1, <2>2
<1>3. Early(b, i + 1)
  BY <1>1, <1>2 DEF Early
<1> QED BY <1>1, <1>3

\* Reading takes an announcement away only by hearing it.
LEMMA HeraldedTail ==
  ASSUME NEW S, NEW b \in Seq(S), b # <<>>
  PROVE  /\ Heralded(b) => Head(b).code = LEADER \/ Heralded(Tail(b))
         /\ Heralded(Tail(b)) => Heralded(b)
<1>1. ASSUME Heralded(b) PROVE Head(b).code = LEADER \/ Heralded(Tail(b))
  <2>1. PICK i \in DOMAIN b : b[i].code = LEADER
    BY <1>1 DEF Heralded
  <2>2. CASE i = 1
    BY <2>1, <2>2, TailElements
  <2>3. CASE i # 1
    <3>1. i - 1 \in DOMAIN Tail(b)
      BY <2>1, <2>3, TailElements
    <3>2. Tail(b)[i - 1] = b[i]
      BY <2>1, <3>1, TailElements
    <3> QED BY <2>1, <3>1, <3>2 DEF Heralded
  <2> QED BY <2>2, <2>3
<1>2. Heralded(Tail(b)) => Heralded(b)
  BY TailElements DEF Heralded
<1> QED BY <1>1, <1>2

------------------------------------------------------------------------------
(* The loops over a map, and who joined when.                               *)

\* A loop over a map that finds no next key has been at all of them.
LEMMA NextEmpty ==
  ASSUME NEW K \in SUBSET Clients, NEW at \in Nat, Next_(K, at) = {}, NEW d \in K
  PROVE  d <= at
<1> DEFINE T == {c \in K : c > at}
<1>1. K \subseteq Nat
  BY FailoverAssumption
<1>2. SUFFICES ASSUME d > at PROVE FALSE
  BY <1>1
<1>3. PICK x \in T : \A y \in T : x <= y
  BY <1>1, <1>2, Smallest
<1>4. x \in Next_(K, at)
  BY <1>1, <1>3 DEF Next_
<1> QED BY <1>4

\* Every number up to that of the members is the one somebody joined with.
LEMMA Newcomers ==
  ASSUME NEW G \in Groups
  PROVE  /\ G \subseteq Clients /\ Cardinality(G) \in Nat \ {0}
         /\ \A c \in G : Joined(G, c) \in 1..Cardinality(G)
         /\ \A n \in 1..Cardinality(G) : Newcomer(G, n) \in G
<1> DEFINE D(c) == {d \in G : d <= c}
           f == [c \in G |-> Joined(G, c)]
           size == Cardinality(G)
<1>1. G \subseteq Clients /\ G \subseteq Nat /\ IsFiniteSet(G) /\ G # {}
  BY FailoverAssumption, FS_Subset
<1>2. size \in Nat \ {0}
  BY <1>1, FS_CardinalityType, FS_EmptySet
<1>3. ASSUME NEW c \in G PROVE Joined(G, c) \in 1..size
  <2>1. c \in D(c) /\ D(c) \in SUBSET G
    BY <1>1
  <2>2. IsFiniteSet(D(c)) /\ Cardinality(D(c)) <= size
    BY <1>1, <2>1, FS_Subset
  <2>3. Cardinality(D(c)) \in Nat \ {0}
    BY <2>1, <2>2, FS_CardinalityType, FS_EmptySet
  <2> QED BY <1>2, <2>2, <2>3 DEF Joined
<1>4. ASSUME NEW c \in G, NEW e \in G, c < e PROVE Joined(G, c) # Joined(G, e)
  <2>1. e \in D(e) /\ e \notin D(c) /\ \A d \in D(c) : d <= e
    BY <1>1, <1>4
  <2>2. D(c) \in SUBSET D(e) /\ D(c) # D(e) /\ D(e) \in SUBSET G
    BY <2>1
  <2>3. IsFiniteSet(D(e))
    BY <1>1, <2>2, FS_Subset
  <2> QED BY <2>3, <2>2, FS_Subset DEF Joined
<1>5. f \in Injection(G, 1..size)
  BY <1>1, <1>3, <1>4 DEF Injection, IsInjective
<1>6. IsFiniteSet(1..size) /\ Cardinality(1..size) = size
  BY <1>2, FS_Interval
<1>7. f \in Surjection(G, 1..size)
  BY <1>1, <1>2, <1>5, <1>6, FS_Injection
<1>8. \A n \in 1..size : \E c \in G : Joined(G, c) = n
  BY <1>7 DEF Surjection
<1> QED BY <1>1, <1>2, <1>3, <1>8 DEF Newcomer

------------------------------------------------------------------------------
(* The types are preserved.                                                 *)

\* The empty message, and what else is always a message.
LEMMA SomeMessages ==
  /\ Leader \in Leaders /\ Leader \notin Clients /\ Clients \subseteq Leaders
  /\ Leaders \subseteq Nat /\ None \in Messages /\ Queueable \subseteq Messages
  /\ None \in Queueable /\ \A l \in Leaders : [None EXCEPT !.from = l] \in Queueable
  /\ Idle \in [pc : {"pop", "mcast"}, msg : Queueable, at : Nat]
BY FailoverAssumption, Distinct DEF Leaders, Messages, None, Queueable, Idle

\* Threads that are not there.
LEMMA NoThreadsType ==
  /\ NoThreads \in [Threads -> [pc : Places, at : Nat]]
  /\ \A t \in Threads : NoThreads[t].pc = "none"
BY DEF NoThreads, NoThread, Places

\* A step of one thread.
LEMMA ThreadSet ==
  ASSUME Types, NEW c \in Clients, NEW t \in Threads, NEW x \in [pc : Places, at : Nat],
         thread' = [thread EXCEPT ![c][t] = x]
  PROVE  /\ thread' \in [Clients -> [Threads -> [pc : Places, at : Nat]]]
         /\ thread'[c][t] = x /\ \A u \in Threads \ {t} : thread'[c][u] = thread[c][u]
         /\ \A d \in Clients \ {c} : thread'[d] = thread[d]
<1>1. thread \in [Clients -> [Threads -> [pc : Places, at : Nat]]]
  BY DEF Types, ElectionType
<1> QED BY <1>1

\* A thread goes on in its loop.
LEMMA ThreadAt ==
  ASSUME Types, NEW c \in Clients, NEW t \in Threads, NEW d \in Nat,
         thread' = [thread EXCEPT ![c][t].at = d]
  PROVE  /\ thread' \in [Clients -> [Threads -> [pc : Places, at : Nat]]]
         /\ thread'[c][t].pc = thread[c][t].pc /\ thread'[c][t].at = d
         /\ \A u \in Threads \ {t} : thread'[c][u] = thread[c][u]
         /\ \A e \in Clients \ {c} : thread'[e] = thread[e]
<1>1. thread \in [Clients -> [Threads -> [pc : Places, at : Nat]]]
  BY DEF Types, ElectionType
<1> QED BY <1>1

\* The group before the crash has its types.
LEMMA InitTypes == Init => Types
<1> SUFFICES ASSUME Init PROVE Types
  OBVIOUS
<1> PICK G \in Groups : GroupInit(G)
  BY DEF Init
<1> DEFINE size == Cardinality(G)
<1> G \subseteq Clients /\ size \in Nat \ {0}
  BY Newcomers
<1>1. LeaderType
  <2>1. Authors # {} => 0 < MaxLines
    BY FailoverAssumption
  <2>2. InBound
    BY <2>1, FailoverAssumption DEF Init, InBound, Leaders
  <2>3. st \in [Leaders -> {"client", "recovering", "leading", "gone"}]
        /\ st[Leader] \in {"leading", "gone"}
    BY SomeMessages DEF GroupInit
  <2>4. room \in [Leaders -> SUBSET Clients] /\ seqNum \in [Leaders -> Nat]
    BY DEF GroupInit
  <2>5. typing \in [Leaders -> [pc : {"top", "read"}, lines : 0..MaxLines]]
    BY FailoverAssumption DEF Init
  <2>6. queue \in [Leaders -> Seq(Queueable)] /\ requests \in [Leaders -> Seq([from : Leaders, mid : Nat])]
    BY DEF Init
  <2>7. con \in [Leaders -> [pc : {"pop", "mcast"}, msg : Queueable, at : Nat]]
    BY SomeMessages DEF Init
  <2>8. muted \in [Leaders -> BOOLEAN] /\ \A l \in Leaders : requests[l] # <<>> => Lives(l)
    BY DEF Init
  <2> QED BY <2>2, <2>3, <2>4, <2>5, <2>6, <2>7, <2>8, Zenon DEF LeaderType
<1>2. RecoveryType
  <2>1. \A c \in Clients : ~Lives(c)
    BY SomeMessages DEF GroupInit, Lives
  <2>2. best \in [Clients -> Entries]
    <3>1. [seq |-> 0, msg |-> None] \in Entries
      BY SomeMessages DEF Entries
    <3>2. best = [c \in Clients |-> [seq |-> 0, msg |-> None]]
      BY DEF Init
    <3> QED BY <3>1, <3>2
  <2>3. asking \in [Clients -> [at : {0} \cup Clients, waits : BOOLEAN]] /\ overtaken \in BOOLEAN
    BY DEF Init
  <2>4. answers = [c \in Clients |-> <<>>]
    BY DEF Init
  <2>5. answers \in [Clients -> Seq(Seen)] /\ \A c \in Clients : answers[c] = <<>>
    BY <2>4
  <2> QED BY <2>1, <2>2, <2>3, <2>5, Zenon DEF RecoveryType
<1>3. ElectionType
  BY SomeMessages, NoThreadsType DEF Init, GroupInit, ElectionType
<1>4. ClientType
  <2>1. \A n \in 1..size : Welcome(G, n) \in Seen
    BY Newcomers, SomeMessages DEF Welcome, Notice, Messages, ADD_USER, Seen
  <2>2. last \in [Clients -> Seen]
    BY <2>1 DEF GroupInit
  <2>3. ASSUME NEW c \in Clients PROVE shown[c] \in Seq(Entries)
    <3>1. CASE c \in G
      <4> DEFINE n == size + 1 - Joined(G, c)
                 e(i) == Welcome(G, Joined(G, c) + i - 1)
      <4>1. n \in Nat /\ Joined(G, c) \in Nat
        BY <3>1, Newcomers
      <4>2. \A i \in 1..n : Joined(G, c) + i - 1 \in 1..size
        BY <3>1, Newcomers
      <4>3. \A i \in 1..n : e(i) \in Entries
        BY <2>1, <4>2 DEF Entries, Seen
      <4>4. shown[c] = [i \in 1..n |-> e(i)]
        BY <3>1 DEF GroupInit
      <4> HIDE DEF n, e
      <4> QED BY <4>1, <4>3, <4>4
    <3>2. CASE c \notin G
      BY <3>2 DEF GroupInit
    <3> QED BY <3>1, <3>2
  <2>4. shown \in [Clients -> Seq(Entries)]
    <3>1. shown = [c \in Clients |-> shown[c]]
      BY DEF GroupInit
    <3> QED BY <2>3, <3>1
  <2> QED BY <2>2, <2>4, SomeMessages, Zenon DEF Init, ClientType
<1>5. BoxType
  BY DEF Init, BoxType
<1> QED BY <1>1, <1>2, <1>3, <1>4, <1>5 DEF Types

\* A sent datagram comes to whoever is there.
LEMMA SendClientBox ==
  ASSUME BoxType, NEW c \in Clients, NEW d \in Sent, SendClient(c, d), st' = st
  PROVE  BoxType'
<1>1. CASE st[c] = "client"
  BY <1>1, AppendElements DEF SendClient, BoxType
<1>2. CASE st[c] # "client"
  BY <1>2 DEF SendClient, BoxType
<1> QED BY <1>1, <1>2

\* What a leader multicasts; the first one never repeats a message.
LEMMA MulticastForm ==
  ASSUME Types, OnlyDeadDeleted, NEW l \in Leaders, con[l].pc = "mcast"
  PROVE  /\ Multicast(l) \in Lines /\ Multicast(l).code = con[l].msg.type
         /\ con[l].msg.type # CLOSE_RECOVERY => Multicast(l).msg = con[l].msg
<1>1. con[l].msg \in Queueable /\ con[l].msg \in Messages /\ seqNum[l] \in Nat
  BY SomeMessages DEF Types, LeaderType
<1>2. CASE con[l].msg.type = CLOSE_RECOVERY
  <2>1. l \in Clients
    BY <1>2 DEF OnlyDeadDeleted, FirstQueueable, Leaders
  <2>2. best[l].seq \in Nat /\ best[l].msg \in Messages
    BY <2>1 DEF Types, RecoveryType, Entries
  <2> QED BY <1>2, <2>2 DEF Multicast, Numbered, Lines
<1>3. CASE con[l].msg.type # CLOSE_RECOVERY
  BY <1>1, <1>3 DEF Multicast, Numbered, Lines, Queueable
<1> QED BY <1>2, <1>3

\* What a step leaves alone keeps its type.
LEMMA Kept ==
  ASSUME Types
  PROVE  /\ UNCHANGED <<st, leaderVars>> => LeaderType'
         /\ UNCHANGED <<st, recoverVars>> => RecoveryType'
         /\ UNCHANGED <<st, electionVars>> => ElectionType'
         /\ UNCHANGED clientVars => ClientType'
         /\ UNCHANGED <<st, box>> => BoxType'
<1>1. UNCHANGED <<st, leaderVars>> => LeaderType'
  BY DEF Types, LeaderType, leaderVars, Lives, InBound
<1>2. UNCHANGED <<st, recoverVars>> => RecoveryType'
  BY DEF Types, RecoveryType, recoverVars, Lives
<1>3. UNCHANGED <<st, electionVars>> => ElectionType'
  BY DEF Types, ElectionType, electionVars
<1>4. UNCHANGED clientVars => ClientType'
  BY DEF Types, ClientType, clientVars
<1>5. UNCHANGED <<st, box>> => BoxType'
  BY DEF Types, BoxType
<1> QED BY <1>1, <1>2, <1>3, <1>4, <1>5

\* A leader's own steps.
LEMMA LeaderStepTypes ==
  ASSUME Types, OnlyDeadDeleted, NEW l \in Leaders,
         \/ SenderTop(l) \/ LeaderTypes(l) \/ LeaderStep(l)
         \/ \E c \in Clients : Eliminate(l, c)
  PROVE  Types'
<1>1. CASE SenderTop(l)
  <2>1. typing' \in [Leaders -> [pc : {"top", "read"}, lines : 0..MaxLines]]
    BY <1>1 DEF SenderTop, Types, LeaderType
  <2>2. muted' \in [Leaders -> BOOLEAN]
    BY <1>1 DEF SenderTop, Types, LeaderType
  <2>3. InBound'
    <3>1. typing' = [typing EXCEPT ![l].pc = "read"] /\ typing[l].lines < MaxLines
      BY <1>1, Zenon DEF SenderTop
    <3> QED BY <3>1, FailoverAssumption DEF Types, LeaderType, InBound, Leaders
  <2>4. LeaderType'
    BY <1>1, <2>1, <2>2, <2>3 DEF SenderTop, Types, LeaderType, Lives
  <2> QED BY <1>1, <2>4, Kept DEF SenderTop, Types
<1>2. CASE LeaderTypes(l)
  <2>1. typing[l].lines + 1 \in 0..MaxLines
    <3>1. l \in Authors /\ typing[l].pc = "read"
      BY <1>2, Zenon DEF LeaderTypes
    <3>2. typing[l].lines \in 0..MaxLines /\ typing[l].lines < MaxLines /\ MaxLines \in Nat
      BY <3>1, FailoverAssumption DEF Types, LeaderType, InBound
    <3> QED BY <3>2
  <2>2. typing' \in [Leaders -> [pc : {"top", "read"}, lines : 0..MaxLines]]
    BY <1>2, <2>1 DEF LeaderTypes, Types, LeaderType
  <2>3. requests' \in [Leaders -> Seq([from : Leaders, mid : Nat])]
    <3> DEFINE r == [from |-> l, mid |-> typing[l].lines + 1]
    <3>1. r \in [from : Leaders, mid : Nat]
      BY <2>1
    <3>2. requests' = requests \/ requests' = [requests EXCEPT ![l] = Append(@, r)]
      BY <1>2 DEF LeaderTypes
    <3> HIDE DEF r
    <3>3. requests[l] \in Seq([from : Leaders, mid : Nat])
      BY DEF Types, LeaderType
    <3>4. Append(requests[l], r) \in Seq([from : Leaders, mid : Nat])
      BY <3>1, <3>3, AppendElements
    <3> QED BY <3>2, <3>4 DEF Types, LeaderType
  <2>4. \A m \in Leaders : m # l => requests'[m] = requests[m]
    BY <1>2 DEF LeaderTypes, Types, LeaderType
  <2>5. InBound'
    <3>1. typing' = [typing EXCEPT ![l] = [pc |-> "top", lines |-> typing[l].lines + 1]]
      BY <1>2, Zenon DEF LeaderTypes
    <3> QED BY <3>1, FailoverAssumption DEF Types, LeaderType, InBound, Leaders
  <2>6. LeaderType'
    BY <1>2, <2>2, <2>3, <2>4, <2>5 DEF LeaderTypes, Types, LeaderType, Lives
  <2> QED BY <1>2, <2>6, Kept DEF LeaderTypes, Types
<1>3. CASE HandleChat(l)
  <2> DEFINE r == Head(requests[l])
             t == IF r.from = l THEN CHAT + r.mid ELSE CHAT + 1
  <2>1. r \in [from : Leaders, mid : Nat]
    <3>1. requests[l] \in Seq([from : Leaders, mid : Nat]) /\ requests[l] # <<>>
      BY <1>3 DEF HandleChat, Types, LeaderType
    <3> QED BY <3>1, TailElements
  <2>2. [type |-> t, from |-> r.from, mid |-> r.mid] \in Queueable
    BY <2>1 DEF Queueable, LineTypes, CHAT
  <2>3. queue' \in [Leaders -> Seq(Queueable)]
    <3>1. PushHeap(queue[l], [type |-> t, from |-> r.from, mid |-> r.mid]) \in Seq(Queueable)
      BY <2>2, PushHeapType DEF Types, LeaderType
    <3> QED BY <1>3, <3>1 DEF HandleChat, Types, LeaderType
  <2>4. requests' \in [Leaders -> Seq([from : Leaders, mid : Nat])]
    BY <1>3 DEF HandleChat, Types, LeaderType
  <2>5. \A m \in Leaders : requests'[m] # <<>> => requests[m] # <<>>
    BY <1>3 DEF HandleChat, Types, LeaderType
  <2>6. LeaderType'
    BY <1>3, <2>3, <2>4, <2>5 DEF HandleChat, Types, LeaderType, Lives, InBound
  <2> QED BY <1>3, <2>6, Kept DEF HandleChat, Types
<1>4. CASE PopMessage(l)
  <2>1. queue[l][1] \in Queueable
    BY <1>4 DEF PopMessage, Types, LeaderType
  <2>2. queue' \in [Leaders -> Seq(Queueable)]
    <3>1. PopHeap(queue[l]) \in Seq(Queueable)
      BY <1>4, PopHeapType DEF PopMessage, Types, LeaderType
    <3> QED BY <1>4, <3>1 DEF PopMessage, Types, LeaderType
  <2>3. con' \in [Leaders -> [pc : {"pop", "mcast"}, msg : Queueable, at : Nat]]
    BY <1>4, <2>1 DEF PopMessage, Types, LeaderType
  <2>4. muted' \in [Leaders -> BOOLEAN] /\ seqNum' \in [Leaders -> Nat]
    BY <1>4 DEF PopMessage, Types, LeaderType
  <2>5. LeaderType'
    BY <1>4, <2>2, <2>3, <2>4 DEF PopMessage, Types, LeaderType, Lives, InBound
  <2>6. RecoveryType'
    BY <1>4 DEF PopMessage, Types, RecoveryType, Lives
  <2> QED BY <1>4, <2>5, <2>6, Kept DEF PopMessage, Types
<1>5. CASE NextRecipient(l)
  <2>1. BoxType'
    <3>1. ASSUME NEW c \in Next_(room[l], con[l].at), SendClient(c, Multicast(l))
          PROVE  BoxType'
      <4>1. c \in Clients
        BY DEF Next_, Types, LeaderType
      <4>2. Multicast(l) \in Sent
        BY <1>5, MulticastForm DEF NextRecipient, Sent
      <4> QED BY <1>5, <3>1, <4>1, <4>2, SendClientBox DEF NextRecipient, Types
    <3> QED BY <1>5, <3>1, Kept DEF NextRecipient
  <2>2. con' \in [Leaders -> [pc : {"pop", "mcast"}, msg : Queueable, at : Nat]]
    <3>1. room[l] \subseteq Nat
      BY FailoverAssumption DEF Types, LeaderType
    <3>2. CASE con' = [con EXCEPT ![l] = Idle]
      BY <3>2, SomeMessages DEF Types, LeaderType
    <3>3. ASSUME NEW c \in Nat, con' = [con EXCEPT ![l].at = c] 
          PROVE  con' \in [Leaders -> [pc : {"pop", "mcast"}, msg : Queueable, at : Nat]]
      BY <3>3 DEF Types, LeaderType
    <3>4. con' = [con EXCEPT ![l] = Idle] \/ \E c \in Nat : con' = [con EXCEPT ![l].at = c]
      BY <1>5, <3>1 DEF NextRecipient, Next_
    <3> QED BY <3>2, <3>3, <3>4
  <2>3. LeaderType'
    BY <1>5, <2>2 DEF NextRecipient, Types, LeaderType, Lives, InBound
  <2> QED BY <1>5, <2>1, <2>3, Kept DEF NextRecipient, Types
<1>6. ASSUME NEW c \in Clients, Eliminate(l, c) PROVE Types'
  <2>1. PushHeap(queue[l], [type |-> DELETE, from |-> c, mid |-> 0]) \in Seq(Queueable)
    BY PushHeapType, SomeMessages DEF Types, LeaderType, Queueable, LineTypes
  <2>2. queue' \in [Leaders -> Seq(Queueable)] /\ room' \in [Leaders -> SUBSET Clients]
    BY <1>6, <2>1 DEF Eliminate, Types, LeaderType
  <2>3. LeaderType'
    BY <1>6, <2>2 DEF Eliminate, Types, LeaderType, Lives, InBound
  <2> QED BY <1>6, <2>3, Kept DEF Eliminate, Types
<1> QED BY <1>1, <1>2, <1>3, <1>4, <1>5, <1>6 DEF LeaderStep

\* A process that ends leaves nothing of another type behind.
LEMMA CrashTypes ==
  ASSUME Types, NEW p \in Leaders, Crash(p)
  PROVE  Types'
<1>1. st' \in [Leaders -> {"client", "recovering", "leading", "gone"}]
      /\ \A l \in Leaders : st'[l] = IF l = p THEN "gone" ELSE st[l]
  BY DEF Crash, Types, LeaderType
<1>2. LeaderType'
  <2>1. requests' \in [Leaders -> Seq([from : Leaders, mid : Nat])]
        /\ requests'[p] = <<>> /\ \A l \in Leaders \ {p} : requests'[l] = requests[l]
    BY DEF Crash, Types, LeaderType
  <2>2. queue' \in [Leaders -> Seq(Queueable)] /\ room' \in [Leaders -> SUBSET Clients]
    BY DEF Crash, Types, LeaderType
  <2>3. con' \in [Leaders -> [pc : {"pop", "mcast"}, msg : Queueable, at : Nat]]
    BY SomeMessages DEF Crash, Types, LeaderType
  <2>4. typing' \in [Leaders -> [pc : {"top", "read"}, lines : 0..MaxLines]]
    BY FailoverAssumption DEF Crash, Types, LeaderType
  <2>5. seqNum' \in [Leaders -> Nat] /\ muted' \in [Leaders -> BOOLEAN]
    BY DEF Crash, Types, LeaderType
  <2>6. st'[Leader] \in {"leading", "gone"}
    BY <1>1, SomeMessages DEF Types, LeaderType
  <2>7. InBound'
    <3>1. typing' = [typing EXCEPT ![p] = [pc |-> "top", lines |-> 0]]
      BY DEF Crash
    <3> QED BY <3>1, FailoverAssumption DEF Types, LeaderType, InBound, Leaders
  <2> QED
    BY <1>1, <2>1, <2>2, <2>3, <2>4, <2>5, <2>6, <2>7 DEF Types, LeaderType, Lives
<1>3. CASE p = Leader
  <2>1. \A c \in Clients : st'[c] = st[c]
    BY <1>1, <1>3, SomeMessages
  <2>2. RecoveryType'
    BY <1>3, <2>1 DEF Crash, Types, RecoveryType, Lives
  <2>3. ElectionType'
    BY <1>3, <2>1 DEF Crash, Types, ElectionType, electionVars
  <2>4. ClientType'
    BY <1>3 DEF Crash, Types, ClientType
  <2>5. BoxType'
    BY <1>3, <2>1 DEF Crash, Types, BoxType
  <2> QED BY <1>2, <2>2, <2>3, <2>4, <2>5 DEF Types
<1>4. CASE p # Leader
  <2>1. p \in Clients /\ \A c \in Clients : st'[c] = IF c = p THEN "gone" ELSE st[c]
    BY <1>1, <1>4 DEF Leaders
  <2>2. RecoveryType'
    <3>1. /\ answers' = [answers EXCEPT ![p] = <<>>]
          /\ asking' = [asking EXCEPT ![p] = [at |-> 0, waits |-> FALSE]]
          /\ UNCHANGED <<best, overtaken>>
      BY <1>4 DEF Crash
    <3>2. answers' \in [Clients -> Seq(Seen)]
      BY <2>1, <3>1 DEF Types, RecoveryType
    <3>3. asking' \in [Clients -> [at : {0} \cup Clients, waits : BOOLEAN]]
      BY <2>1, <3>1 DEF Types, RecoveryType
    <3> QED BY <2>1, <3>1, <3>2, <3>3 DEF Types, RecoveryType, Lives
  <2>3. ElectionType'
    <3>1. /\ roster' = [roster EXCEPT ![p] = {}] /\ UNCHANGED raced
          /\ thread' = [thread EXCEPT ![p] = NoThreads]
      BY <1>4 DEF Crash
    <3>2. isElection' \in [Clients -> BOOLEAN] /\ leaderFound' \in [Clients -> BOOLEAN]
          /\ isOk' \in [Clients -> BOOLEAN]
      BY <1>4 DEF Crash, Types, ElectionType
    <3>3. thread' \in [Clients -> [Threads -> [pc : Places, at : Nat]]]
          /\ \A c \in Clients, t \in Threads : st'[c] # "client" => thread'[c][t].pc = "none"
      BY <2>1, <3>1, NoThreadsType DEF Types, ElectionType
    <3> QED BY <2>1, <3>1, <3>2, <3>3 DEF Types, ElectionType
  <2>4. ClientType'
    <3>1. shown' = [shown EXCEPT ![p] = <<>>] /\ UNCHANGED <<leaderOf, last, spoke>>
      BY <1>4 DEF Crash
    <3>2. isRecovery' \in [Clients -> BOOLEAN] /\ isRecoveryDone' \in [Clients -> BOOLEAN]
      BY <1>4 DEF Crash, Types, ClientType
    <3>3. shown' \in [Clients -> Seq(Entries)]
      BY <2>1, <3>1 DEF Types, ClientType
    <3> QED BY <3>1, <3>2, <3>3 DEF Types, ClientType
  <2>5. BoxType'
    <3>1. box' = [box EXCEPT ![p] = <<>>]
      BY <1>4 DEF Crash
    <3> QED BY <2>1, <3>1 DEF Types, BoxType
  <2> QED BY <1>2, <2>2, <2>3, <2>4, <2>5 DEF Types
<1> QED BY <1>3, <1>4

\* What making a thread changes: one that was not there starts.
LEMMA LaunchForm ==
  ASSUME Types, NEW c \in Clients, Launch(c)
  PROVE  /\ \E t \in Threads : /\ thread[c][t].pc = "none"
                               /\ thread' = [thread EXCEPT ![c][t] = [pc |-> "start", at |-> 0]]
         /\ raced' \in BOOLEAN /\ (raced => raced')
         /\ ~raced' /\ ~leaderFound[c] => \A u \in Threads : thread[c][u].pc = "none"
<1>1. PICK t \in Free(c) : thread' = [thread EXCEPT ![c][t] = [pc |-> "start", at |-> 0]]
  BY DEF Launch
<1>2. t \in Threads /\ thread[c][t].pc = "none"
  BY <1>1 DEF Free, Busy
<1>3. raced' = (raced \/ (Busy(c) # {} /\ ~leaderFound[c]))
  BY DEF Launch
<1>4. Busy(c) = {} => \A u \in Threads : thread[c][u].pc = "none"
  BY DEF Busy
<1> QED BY <1>1, <1>2, <1>3, <1>4

\* It leaves the types.
LEMMA LaunchTypes ==
  ASSUME Types, NEW c \in Clients, Launch(c), st[c] = "client", UNCHANGED st,
         roster' \in [Clients -> SUBSET Leaders], UNCHANGED <<isElection, leaderFound, isOk>>
  PROVE  ElectionType'
<1>1. PICK t \in Threads : thread' = [thread EXCEPT ![c][t] = [pc |-> "start", at |-> 0]]
  BY LaunchForm
<1>2. [pc |-> "start", at |-> 0] \in [pc : Places, at : Nat]
  BY DEF Places
<1>3. /\ thread' \in [Clients -> [Threads -> [pc : Places, at : Nat]]]
      /\ \A d \in Clients \ {c} : thread'[d] = thread[d]
  BY <1>1, <1>2, ThreadSet
<1>4. raced' \in BOOLEAN
  BY LaunchForm
<1> QED BY <1>3, <1>4 DEF Types, ElectionType

\* The failure detector makes a thread.
LEMMA DetectFailureTypes ==
  ASSUME Types, NEW c \in Clients, DetectFailure(c)
  PROVE  Types'
<1>1. roster' \in [Clients -> SUBSET Leaders]
  BY DEF DetectFailure, Types, ElectionType
<1>2. ElectionType'
  BY <1>1, LaunchTypes DEF DetectFailure
<1> QED BY <1>2, Kept DEF DetectFailure, Types

\* The steps of a client's election threads.
LEMMA ElectionStepTypes ==
  ASSUME Types, NEW c \in Clients, NEW t \in Threads, ElectionStep(c, t)
  PROVE  Types'
<1>1. CASE StartElection(c, t)
  <2>1. roster' \in [Clients -> SUBSET Leaders]
    BY <1>1 DEF StartElection, Types, ElectionType
  <2>2. isElection' \in [Clients -> BOOLEAN] /\ isOk' \in [Clients -> BOOLEAN]
    BY <1>1 DEF StartElection, Types, ElectionType
  <2>3. thread' = [thread EXCEPT ![c][t] = [pc |-> "elect", at |-> 0]] /\ st[c] = "client"
        /\ UNCHANGED <<st, leaderFound, raced>>
    BY <1>1 DEF StartElection
  <2>4. [pc |-> "elect", at |-> 0] \in [pc : Places, at : Nat]
    BY DEF Places
  <2>5. ElectionType'
    BY <2>1, <2>2, <2>3, <2>4, ThreadSet DEF Types, ElectionType
  <2> QED BY <1>1, <2>5, Kept DEF StartElection, Types
<1>2. CASE SendElection(c, t)
  <2>1. /\ \/ \E d \in Nat : thread' = [thread EXCEPT ![c][t].at = d]
           \/ thread' = [thread EXCEPT ![c][t] = [pc |-> "sleep", at |-> 0]]
        /\ st[c] = "client" /\ UNCHANGED <<st, roster, isElection, leaderFound, raced>>
    BY <1>2, FailoverAssumption DEF SendElection, Next_, Higher
  <2>2. isOk' \in [Clients -> BOOLEAN]
    BY <1>2 DEF SendElection, Types, ElectionType
  <2>3. ElectionType'
    <3>1. ASSUME NEW d \in Nat, thread' = [thread EXCEPT ![c][t].at = d] PROVE ElectionType'
      <4>1. /\ thread' \in [Clients -> [Threads -> [pc : Places, at : Nat]]]
            /\ \A e \in Clients \ {c} : thread'[e] = thread[e]
        BY <3>1, ThreadAt
      <4>2. st[c] = "client" /\ UNCHANGED <<st, roster, isElection, leaderFound, raced>>
        BY <2>1
      <4> QED BY <2>2, <4>1, <4>2 DEF Types, ElectionType
    <3>2. CASE thread' = [thread EXCEPT ![c][t] = [pc |-> "sleep", at |-> 0]]
      <4>1. [pc |-> "sleep", at |-> 0] \in [pc : Places, at : Nat]
        BY DEF Places
      <4> QED BY <2>1, <2>2, <3>2, <4>1, ThreadSet DEF Types, ElectionType
    <3> QED BY <2>1, <3>1, <3>2
  <2>4. BoxType'
    <3>1. ASSUME NEW d \in Clients, SendClient(d, From(ELECTION, c)) PROVE BoxType'
      BY <1>2, <3>1, SendClientBox DEF SendElection, Types, From, Sent, Calls
    <3> QED BY <1>2, <3>1, Kept DEF SendElection, SendElectionTo, Next_, Higher
  <2> QED BY <1>2, <2>3, <2>4, Kept DEF SendElection, Types
<1>3. CASE WakeUp(c, t)
  <2>1. isOk' \in [Clients -> BOOLEAN]
    BY <1>3 DEF WakeUp, Types, ElectionType
  <2>2. thread' = [thread EXCEPT ![c][t] = [pc |-> AfterSleep(c), at |-> 0]] /\ st[c] = "client"
        /\ UNCHANGED <<st, roster, isElection, leaderFound, raced>>
    BY <1>3 DEF WakeUp
  <2>3. [pc |-> AfterSleep(c), at |-> 0] \in [pc : Places, at : Nat]
    BY DEF AfterSleep, Places
  <2>4. ElectionType'
    BY <2>1, <2>2, <2>3, ThreadSet DEF Types, ElectionType
  <2> QED BY <1>3, <2>4, Kept DEF WakeUp, Types
<1>4. CASE TellOthers(c, t)
  <2>1. \/ \E d \in Clients : /\ SendClient(d, From(LEADER, c))
                              /\ thread' = [thread EXCEPT ![c][t].at = d] /\ UNCHANGED roster
        \/ /\ thread' = [thread EXCEPT ![c][t] = [pc |-> "quit", at |-> 0]]
           /\ roster' = [roster EXCEPT ![c] = @ \ {c}] /\ UNCHANGED box
    BY <1>4 DEF TellOthers, Next_
  <2>2. st[c] = "client" /\ UNCHANGED <<st, isElection, leaderFound, isOk, raced>>
    BY <1>4 DEF TellOthers
  <2>3. ASSUME NEW d \in Clients, SendClient(d, From(LEADER, c)), UNCHANGED roster,
               thread' = [thread EXCEPT ![c][t].at = d]
        PROVE  ElectionType' /\ BoxType'
    <3>1. d \in Nat
      BY FailoverAssumption
    <3>2. ElectionType'
      <4>1. /\ thread' \in [Clients -> [Threads -> [pc : Places, at : Nat]]]
            /\ \A e \in Clients \ {c} : thread'[e] = thread[e]
        BY <2>3, <3>1, ThreadAt
      <4> QED BY <2>2, <2>3, <4>1 DEF Types, ElectionType
    <3>3. BoxType'
      BY <2>2, <2>3, SendClientBox DEF Types, From, Sent, Calls
    <3> QED BY <3>2, <3>3
  <2>4. ASSUME thread' = [thread EXCEPT ![c][t] = [pc |-> "quit", at |-> 0]],
               roster' = [roster EXCEPT ![c] = @ \ {c}], UNCHANGED box
        PROVE  ElectionType' /\ BoxType'
    <3>1. [pc |-> "quit", at |-> 0] \in [pc : Places, at : Nat]
      BY DEF Places
    <3>2. ElectionType'
      BY <2>2, <2>4, <3>1, ThreadSet DEF Types, ElectionType
    <3> QED BY <2>2, <2>4, <3>2, Kept
  <2> QED BY <1>4, <2>1, <2>3, <2>4, Kept DEF TellOthers, Types
<1> QED BY <1>1, <1>2, <1>3, <1>4 DEF ElectionStep

\* The steps of a recovery.
LEMMA RecoveryStepTypes ==
  ASSUME Types, NEW w \in Clients, RecoveryStep(w)
  PROVE  Types'
<1>1. w \in Leaders
  BY SomeMessages
<1>2. CASE AskMember(w)
  <2>1. PICK c \in Clients : /\ asking' = [asking EXCEPT ![w] = [at |-> c, waits |-> TRUE]]
                             /\ SendClient(c, From(RECOVERY, w))
    BY <1>1, <1>2 DEF AskMember, Next_, Types, LeaderType
  <2>2. UNCHANGED <<st, best, answers, overtaken>>
    BY <1>2 DEF AskMember
  <2>3. asking' \in [Clients -> [at : {0} \cup Clients, waits : BOOLEAN]]
    BY <2>1 DEF Types, RecoveryType
  <2>4. RecoveryType'
    BY <2>2, <2>3 DEF Types, RecoveryType, Lives
  <2>5. BoxType'
    BY <2>1, <2>2, SendClientBox DEF Types, From, Sent, Calls
  <2> QED BY <1>2, <2>4, <2>5, Kept DEF AskMember, Types
<1>3. ASSUME NEW e \in [seq : Nat, msg : Messages], Learn(w, e), UNCHANGED <<st, overtaken>>,
             answers' \in [Clients -> Seq(Seen)], st[w] = "recovering",
             \A c \in Clients : answers'[c] # <<>> => Lives(c)
      PROVE  RecoveryType'
  <2>1. asking' \in [Clients -> [at : {0} \cup Clients, waits : BOOLEAN]]
    <3>1. asking' = [asking EXCEPT ![w].waits = FALSE]
      BY <1>3 DEF Learn
    <3>2. asking \in [Clients -> [at : {0} \cup Clients, waits : BOOLEAN]]
      BY DEF Types, RecoveryType
    <3> QED BY <3>1, <3>2
  <2>2. best[w] \in Seen
    BY <1>3 DEF Types, RecoveryType, Lives
  <2>3. Better(best[w], e) \in Seen
    <3>1. CASE e.seq > best[w].seq
      BY <2>2, <3>1 DEF Better, Seen
    <3>2. CASE ~(e.seq > best[w].seq)
      BY <2>2, <3>2 DEF Better
    <3> QED BY <3>1, <3>2
  <2>4. best' = [best EXCEPT ![w] = Better(best[w], e)]
    BY <1>3 DEF Learn
  <2>5. best' \in [Clients -> Entries] /\ \A c \in Clients : Lives(c) => best'[c] \in Seen
    BY <2>3, <2>4 DEF Types, RecoveryType, Entries, Seen
  <2> QED BY <1>3, <2>1, <2>5 DEF Types, RecoveryType, Lives
<1>4. CASE HearAnswer(w)
  <2>1. Head(answers[w]) \in Seen /\ Tail(answers[w]) \in Seq(Seen)
    BY <1>4, TailElements DEF HearAnswer, Types, RecoveryType
  <2>2. answers' = [answers EXCEPT ![w] = Tail(answers[w])] /\ answers[w] # <<>>
    BY <1>4 DEF HearAnswer
  <2>3. answers' \in [Clients -> Seq(Seen)] /\ \A c \in Clients : answers'[c] # <<>> => Lives(c)
    BY <2>1, <2>2 DEF Types, RecoveryType
  <2>4. RecoveryType'
    BY <1>3, <1>4, <2>1, <2>3 DEF HearAnswer, Seen
  <2> QED BY <1>4, <2>4, Kept DEF HearAnswer, Types
<1>5. CASE GiveUp(w)
  <2>1. PICK n \in UninitSeq : Learn(w, [seq |-> n, msg |-> None])
    BY <1>5 DEF GiveUp
  <2>2. [seq |-> n, msg |-> None] \in [seq : Nat, msg : Messages]
    BY FailoverAssumption, SomeMessages
  <2>3. answers' \in [Clients -> Seq(Seen)] /\ \A c \in Clients : answers'[c] # <<>> => Lives(c)
    BY <1>5 DEF GiveUp, Types, RecoveryType
  <2>4. RecoveryType'
    BY <1>3, <1>5, <2>1, <2>2, <2>3 DEF GiveUp
  <2> QED BY <1>5, <2>4, Kept DEF GiveUp, Types
<1>6. CASE StartThreads(w)
  <2>1. st' = [st EXCEPT ![w] = "leading"] /\ st[w] = "recovering" /\ w # Leader
    BY <1>6, SomeMessages DEF StartThreads
  <2>2. best[w] \in Seen
    BY <2>1 DEF Types, RecoveryType, Lives
  <2>3. FirstNumber(w) \in Nat
    BY <2>2 DEF FirstNumber, Seen
  <2>4. /\ seqNum' = [seqNum EXCEPT ![w] = FirstNumber(w)]
        /\ queue' = [queue EXCEPT ![w] = <<[None EXCEPT !.from = w]>>]
        /\ UNCHANGED <<room, con, requests, muted, typing>>
    BY <1>6 DEF StartThreads
  <2>5. queue' \in [Leaders -> Seq(Queueable)]
    <3>1. <<[None EXCEPT !.from = w]>> \in Seq(Queueable)
      BY <1>1, SomeMessages
    <3> QED BY <1>1, <2>4, <3>1 DEF Types, LeaderType
  <2>6. \A l \in Leaders : (Lives(l)' <=> Lives(l)) /\ (st'[l] = "client" <=> st[l] = "client")
    BY <1>1, <2>1 DEF Lives, Types, LeaderType
  <2>7. st' \in [Leaders -> {"client", "recovering", "leading", "gone"}]
        /\ st'[Leader] \in {"leading", "gone"}
    BY <1>1, <2>1 DEF Types, LeaderType
  <2>8. seqNum' \in [Leaders -> Nat]
    BY <1>1, <2>3, <2>4 DEF Types, LeaderType
  <2>9. LeaderType'
    BY <2>4, <2>5, <2>6, <2>7, <2>8 DEF Types, LeaderType, InBound
  <2>10. RecoveryType' /\ BoxType' /\ ElectionType'
    BY <1>6, <2>6, SomeMessages DEF StartThreads, Types, RecoveryType, BoxType, ElectionType,
       recoverVars, electionVars
  <2> QED BY <1>6, <2>9, <2>10, Kept DEF StartThreads, Types
<1> QED BY <1>2, <1>4, <1>5, <1>6 DEF RecoveryStep

\* What a numbered message does to a client's screen.
LEMMA DisplayTypes ==
  ASSUME Types, NEW c \in Clients, NEW d \in Lines, Display(c, d)
  PROVE  last' \in [Clients -> Seen] /\ shown' \in [Clients -> Seq(Entries)]
<1>1. CASE d.seq > last[c].seq /\ d.msg.type # CLOSE_RECOVERY
  <2> DEFINE m == IF d.code = CLOSE_RECOVERY THEN None ELSE d.msg
             e == [seq |-> d.seq, msg |-> d.msg]
  <2>1. d.seq \in Nat \ {0} /\ d.msg \in Messages
    BY <1>1 DEF Types, ClientType, Seen, Lines
  <2>2. [seq |-> d.seq, msg |-> m] \in Seen /\ e \in Entries
    BY <2>1, SomeMessages DEF Seen, Entries
  <2>3. /\ last' = [last EXCEPT ![c] = [seq |-> d.seq, msg |-> m]]
        /\ shown' = [shown EXCEPT ![c] = Append(@, e)]
    BY <1>1 DEF Display
  <2> HIDE DEF m, e
  <2>4. Append(shown[c], e) \in Seq(Entries)
    BY <2>2 DEF Types, ClientType
  <2> QED BY <2>2, <2>3, <2>4 DEF Types, ClientType
<1>2. CASE ~(d.seq > last[c].seq /\ d.msg.type # CLOSE_RECOVERY)
  BY <1>2 DEF Display, Types, ClientType
<1> QED BY <1>1, <1>2

\* What the receiver takes out of its socket.
LEMMA HearsTypes ==
  ASSUME Types, NEW c \in Clients, NEW codes, Hears(c, codes), st' = st
  PROVE  /\ BoxType' /\ box[c] \in Seq(Sent) /\ box[c] # <<>> /\ st[c] = "client"
         /\ Head(box[c]) \in Sent /\ Head(box[c]).code \in codes
         /\ box' = [box EXCEPT ![c] = Tail(box[c])] /\ ~Dead(c)
<1>1. /\ box[c] \in Seq(Sent) /\ box[c] # <<>> /\ st[c] = "client" /\ ~Dead(c)
      /\ box' = [box EXCEPT ![c] = Tail(box[c])] /\ Head(box[c]).code \in codes
  BY DEF Hears, Types, BoxType
<1>2. Tail(box[c]) \in Seq(Sent) /\ Head(box[c]) \in Sent
  BY <1>1, TailElements
<1>3. BoxType'
  BY <1>1, <1>2 DEF Types, BoxType
<1> QED BY <1>1, <1>2, <1>3

\* The codes of the lines that a client displays.
LEMMA LineCodes ==
  ASSUME NEW d \in Sent,
         d.code \in {DELETE} \cup {n \in CHAT..(CHAT + 1 + MaxLines) : IsChat(n)}
                    \cup {CLOSE_RECOVERY}
  PROVE  d \in Lines /\ d.seq \in Nat /\ d.msg \in Messages
BY FailoverAssumption DEF Sent, Calls, Lines, DELETE, CHAT, ELECTION, LEADER, RECOVERY, CLOSE_RECOVERY

\* What a client's receiver does to its state keeps the types.
LEMMA ReceiverTypes ==
  ASSUME Types, NEW c \in Clients, Receiver(c)
  PROVE  Types'
<1> DEFINE d == Head(box[c])
<1>1. CASE ReceiveMulticast(c)
  <2>1. BoxType' /\ d \in Lines
    BY <1>1, HearsTypes, LineCodes DEF ReceiveMulticast
  <2>2. d.msg.from \in Leaders
    BY <2>1 DEF Lines, Messages
  <2>3. roster' \in [Clients -> SUBSET Leaders]
    BY <1>1, <2>2 DEF ReceiveMulticast, Apply, Types, ElectionType
  <2>4. ElectionType'
    BY <1>1, <2>3 DEF ReceiveMulticast, Types, ElectionType
  <2>5. last' \in [Clients -> Seen] /\ shown' \in [Clients -> Seq(Entries)]
    BY <1>1, <2>1, DisplayTypes DEF ReceiveMulticast
  <2>6. ClientType'
    BY <1>1, <2>5 DEF ReceiveMulticast, Types, ClientType
  <2> QED BY <1>1, <2>1, <2>4, <2>6, Kept DEF ReceiveMulticast, Types
<1>2. CASE ReceiveElection(c)
  <2>1. BoxType' /\ d \in Sent /\ d.code = ELECTION /\ st[c] = "client"
    BY <1>2, HearsTypes DEF ReceiveElection
  <2>2. d.from \in Leaders
    BY <2>1, SentForm, SomeMessages
  <2>3. roster' \in [Clients -> SUBSET Leaders]
    BY <1>2, <2>2 DEF ReceiveElection, Types, ElectionType
  <2>4. UNCHANGED <<st, isElection, leaderFound, isOk>>
        /\ (UNCHANGED <<thread, raced>> \/ Launch(c))
    BY <1>2 DEF ReceiveElection
  <2>5. ASSUME UNCHANGED <<thread, raced>> PROVE ElectionType'
    BY <2>3, <2>4, <2>5 DEF Types, ElectionType
  <2>6. ElectionType'
    BY <2>1, <2>3, <2>4, <2>5, LaunchTypes
  <2> QED BY <1>2, <2>1, <2>6, Kept DEF ReceiveElection, Types
<1>3. CASE ReceiveLeader(c)
  <2>1. BoxType' /\ d \in Sent /\ d.code = LEADER
    BY <1>3, HearsTypes DEF ReceiveLeader
  <2>2. d.from \in Leaders
    BY <2>1, SentForm, SomeMessages
  <2>3. roster' \in [Clients -> SUBSET Leaders]
    BY <1>3, <2>2 DEF ReceiveLeader, Types, ElectionType
  <2>4. isElection' \in [Clients -> BOOLEAN] /\ leaderFound' \in [Clients -> BOOLEAN]
    BY <1>3 DEF ReceiveLeader, Types, ElectionType
  <2>5. ElectionType'
    BY <1>3, <2>3, <2>4 DEF ReceiveLeader, Types, ElectionType
  <2> QED BY <1>3, <2>1, <2>5, Kept DEF ReceiveLeader, Types
<1>4. CASE ReceiveRecovery(c)
  <2>1. BoxType' /\ d \in Sent /\ d.code = RECOVERY
    BY <1>4, HearsTypes DEF ReceiveRecovery
  <2>2. d.from \in Clients /\ d.from \in Leaders
    BY <2>1, SentForm, SomeMessages
  <2>3. leaderOf' \in [Clients -> Leaders] /\ isRecovery' \in [Clients -> BOOLEAN]
    BY <1>4, <2>2 DEF ReceiveRecovery, Types, ClientType
  <2>4. ClientType'
    BY <1>4, <2>3 DEF ReceiveRecovery, Types, ClientType
  <2>5. isElection' \in [Clients -> BOOLEAN]
    BY <1>4 DEF ReceiveRecovery, Types, ElectionType
  <2>6. ElectionType'
    BY <1>4, <2>5 DEF ReceiveRecovery, Types, ElectionType
  <2>7. /\ answers' \in [Clients -> Seq(Seen)]
        /\ \A w \in Clients : answers'[w] # <<>> => Lives(w)
    <3>1. Append(answers[d.from], last[c]) \in Seq(Seen)
      BY <2>2 DEF Types, RecoveryType, ClientType
    <3>2. \/ answers' = answers
          \/ st[d.from] = "recovering"
             /\ answers' = [answers EXCEPT ![d.from] = Append(answers[d.from], last[c])]
      BY <1>4 DEF ReceiveRecovery
    <3> HIDE DEF d
    <3> QED BY <2>2, <3>1, <3>2 DEF Types, RecoveryType, Lives
  <2>8. RecoveryType'
    BY <1>4, <2>7 DEF ReceiveRecovery, Types, RecoveryType, Lives
  <2> QED BY <1>4, <2>1, <2>4, <2>6, <2>8, Kept DEF ReceiveRecovery, Types
<1>5. CASE ReceiveClose(c)
  <2>1. BoxType' /\ d \in Lines
    BY <1>5, HearsTypes, LineCodes DEF ReceiveClose
  <2>2. d.msg.from \in Leaders
    BY <2>1 DEF Lines, Messages
  <2>3. roster' \in [Clients -> SUBSET Leaders]
    BY <1>5, <2>2 DEF ReceiveClose, Apply, Types, ElectionType
  <2>4. isElection' \in [Clients -> BOOLEAN]
    BY <1>5 DEF ReceiveClose, Types, ElectionType
  <2>5. ElectionType'
    BY <1>5, <2>3, <2>4 DEF ReceiveClose, Types, ElectionType
  <2>6. last' \in [Clients -> Seen] /\ shown' \in [Clients -> Seq(Entries)]
    BY <1>5, <2>1, DisplayTypes DEF ReceiveClose
  <2>7. isRecovery' \in [Clients -> BOOLEAN] /\ isRecoveryDone' \in [Clients -> BOOLEAN]
    BY <1>5 DEF ReceiveClose, Types, ClientType
  <2>8. ClientType'
    BY <1>5, <2>6, <2>7 DEF ReceiveClose, Types, ClientType
  <2> QED BY <1>5, <2>1, <2>5, <2>8, Kept DEF ReceiveClose, Types
<1>6. CASE BecomeLeader(c)
  <2>1. /\ st' = [st EXCEPT ![c] = "recovering"] /\ st[c] = "client"
        /\ c \in Leaders /\ c # Leader
    BY <1>6, SomeMessages DEF BecomeLeader
  <2>2. /\ room' = [room EXCEPT ![c] = roster[c] \cap Clients]
        /\ best' = [best EXCEPT ![c] = last[c]]
        /\ thread' = [thread EXCEPT ![c] = NoThreads]
        /\ box' = [box EXCEPT ![c] = <<>>]
        /\ UNCHANGED <<queue, seqNum, con, requests, muted, typing, asking, answers, overtaken,
                       roster, isElection, leaderFound, isOk, raced, clientVars>>
    BY <1>6 DEF BecomeLeader, NewSocket
  <2>3. st' \in [Leaders -> {"client", "recovering", "leading", "gone"}]
        /\ st'[Leader] = st[Leader] /\ \A l \in Leaders \ {c} : st'[l] = st[l]
        /\ st'[c] = "recovering"
    BY <2>1, SomeMessages DEF Types, LeaderType
  <2>4. LeaderType'
    BY <2>1, <2>2, <2>3 DEF Types, LeaderType, Lives, InBound
  <2>5. last[c] \in Seen /\ last[c] \in Entries
    BY DEF Types, ClientType, Seen, Entries
  <2>6. RecoveryType'
    BY <2>1, <2>2, <2>3, <2>5, SomeMessages DEF Types, RecoveryType, Lives
  <2>7. ElectionType'
    <3>1. thread' \in [Clients -> [Threads -> [pc : Places, at : Nat]]]
          /\ \A e \in Clients, t \in Threads : st'[e] # "client" => thread'[e][t].pc = "none"
      BY <2>2, <2>3, NoThreadsType, SomeMessages DEF Types, ElectionType
    <3> QED BY <2>2, <3>1 DEF Types, ElectionType
  <2>8. BoxType'
    <3>1. /\ box' \in [Clients -> Seq(Sent)] /\ box'[c] = <<>>
          /\ \A e \in Clients \ {c} : box'[e] = box[e] /\ st'[e] = st[e]
      BY <2>2, <2>3, SomeMessages DEF Types, BoxType
    <3> QED BY <3>1 DEF Types, BoxType
  <2> QED BY <2>2, <2>4, <2>6, <2>7, <2>8, Kept DEF Types
<1> QED BY <1>1, <1>2, <1>3, <1>4, <1>5, <1>6 DEF Receiver

\* Every step keeps the types.
LEMMA NextTypes ==
  ASSUME Types, OnlyDeadDeleted, Next
  PROVE  Types'
<1>1. ASSUME NEW c \in Clients, SendChat(c) PROVE Types'
  <2> DEFINE l == leaderOf[c]
  <2>1. /\ l \in Leaders /\ Lives(l) /\ spoke' = spoke \cup {c} /\ c \in Speakers
        /\ requests' = [requests EXCEPT ![l] = Append(@, [from |-> c, mid |-> 2])]
        /\ UNCHANGED <<st, room, queue, seqNum, con, muted, typing>>
    BY <1>1 DEF SendChat, Types, ClientType
  <2>2. Append(requests[l], [from |-> c, mid |-> 2]) \in Seq([from : Leaders, mid : Nat])
    <3>1. [from |-> c, mid |-> 2] \in [from : Leaders, mid : Nat]
      BY SomeMessages
    <3>2. requests[l] \in Seq([from : Leaders, mid : Nat])
      BY <2>1 DEF Types, LeaderType
    <3> QED BY <3>1, <3>2, AppendElements
  <2>3. requests' \in [Leaders -> Seq([from : Leaders, mid : Nat])]
        /\ \A m \in Leaders \ {l} : requests'[m] = requests[m]
    BY <2>1, <2>2 DEF Types, LeaderType
  <2>4. LeaderType'
    BY <2>1, <2>3 DEF Types, LeaderType, Lives, InBound
  <2>5. ClientType'
    <3>1. UNCHANGED <<leaderOf, isRecovery, isRecoveryDone, last, shown>>
      BY <1>1 DEF SendChat
    <3>2. spoke' \subseteq Speakers
      BY <2>1 DEF Types, ClientType
    <3> QED BY <3>1, <3>2, Zenon DEF Types, ClientType
  <2> QED BY <1>1, <2>4, <2>5, Kept DEF SendChat, Types
<1> QED
  BY <1>1, LeaderStepTypes, CrashTypes, DetectFailureTypes, ElectionStepTypes, RecoveryStepTypes,
     ReceiverTypes
  DEF Next

------------------------------------------------------------------------------
(* What a client may be sent, and what it may read.                         *)

\* Who is gone stays so, and nobody becomes a client.
OnlyLeaves ==
  \A l \in Leaders : /\ st'[l] = "client" => st[l] = "client"
                     /\ st[l] = "gone" => st'[l] = "gone"

\* What may be sent to c.
Fit(c, x) ==
  /\ x.code = ELECTION => Port[x.from] < Port[c]
  /\ x.code = LEADER => ~Declares(c)
  /\ ~Knows(c) =>
       /\ x.code \notin {RECOVERY, CLOSE_RECOVERY}
       /\ x.code = DELETE => x.msg.from \in Clients /\ st[x.msg.from] = "gone"
       /\ x.code = LEADER =>
            x.from \in roster[c] /\ Port[x.from] > Port[c] /\ st[x.from] # "gone"

\* c itself does nothing, and is sent at most one datagram.
Sits(c) ==
  /\ leaderFound'[c] = leaderFound[c] /\ isOk'[c] = isOk[c]
  /\ leaderOf'[c] = leaderOf[c] /\ roster'[c] = roster[c] /\ thread'[c] = thread[c]
  /\ \/ box'[c] = box[c]
     \/ \E x \in Sent : Fit(c, x) /\ box'[c] = Append(box[c], x)

\* What c knows, it does not forget.
Remembers(c) == st'[c] = "client" /\ Knows(c) => Knows(c)'

\* A client that is none any more has nothing to be wrong about.
LEMMA GoneSound ==
  ASSUME Types', NEW c \in Clients, st'[c] # "client"
  PROVE  Sound(c)' /\ Remembers(c)
<1>1. box'[c] = <<>> /\ \A t \in Threads : thread'[c][t].pc = "none"
  BY DEF Types, BoxType, ElectionType
<1> QED
  BY <1>1 DEF Sound, Unaware, Single, Swept, AskedByLower, Sole, Declares, Remembers

\* Who sits and is sent nothing unfit stays sound.
LEMMA SitsSound ==
  ASSUME Types, OnlyLeaves, NEW c \in Clients, Sound(c), Sits(c)
  PROVE  /\ st'[c] = "client" => Unaware(c)' /\ Swept(c)'
         /\ Single(c)' /\ AskedByLower(c)' /\ Sole(c)' /\ Remembers(c)
<1> c \in Leaders /\ Clients \subseteq Leaders
  BY SomeMessages
<1>1. box[c] \in Seq(Sent)
  BY DEF Types, BoxType
<1> Single(c)' /\ (Declares(c)' <=> Declares(c))
  BY DEF Sits, Sound, Single, Declares
<1>2. CASE box'[c] = box[c]
  <2>1. Unaware(c)'
    BY <1>2 DEF Sits, Sound, Unaware, Harmless, OnlyLeaves
  <2>2. Swept(c)'
    BY DEF Sits, Sound, Swept, OnlyLeaves, Higher
  <2>3. AskedByLower(c)'
    BY <1>2 DEF Sound, AskedByLower
  <2>4. Sole(c)' /\ Remembers(c)
    BY <1>2 DEF Sits, Sound, Sole, Remembers, Knows
  <2> QED BY <2>1, <2>2, <2>3, <2>4
<1>3. ASSUME NEW x \in Sent, Fit(c, x), box'[c] = Append(box[c], x)
      PROVE  /\ st'[c] = "client" => Unaware(c)' /\ Swept(c)'
             /\ AskedByLower(c)' /\ Sole(c)' /\ Remembers(c)
  <2> DEFINE n == Len(box[c]) + 1
  <2>1. /\ DOMAIN box'[c] = DOMAIN box[c] \cup {n} /\ n \in Nat /\ DOMAIN box[c] = 1..Len(box[c])
        /\ box'[c][n] = x /\ \A i \in DOMAIN box[c] : box'[c][i] = box[c][i]
    BY <1>1, <1>3, AppendElements
  <2>2. ASSUME st'[c] = "client", ~leaderFound'[c],
               NEW i \in DOMAIN box'[c], Early(box'[c], i)
        PROVE  Harmless(c, box[c], i)'
    <3>1. st[c] = "client" /\ ~leaderFound[c] /\ roster'[c] = roster[c]
      BY <2>2 DEF OnlyLeaves, Sits
    <3>2. \A j \in DOMAIN box[c] : Early(box[c], j) => Harmless(c, box[c], j)
      BY <3>1 DEF Sound, Unaware
    <3>3. CASE i \in DOMAIN box[c] /\ Early(box[c], i)
      <4>1. Harmless(c, box[c], i)
        BY <3>2, <3>3
      <4>2. \A j \in 1..(i - 1) : box'[c][j] = box[c][j]
        BY <2>1, <3>3
      <4> QED BY <2>1, <3>1, <3>3, <4>1, <4>2 DEF Harmless, OnlyLeaves
    <3>4. CASE i = n /\ ~Heralded(box[c])
      <4>1. ~Knows(c)
        BY <3>1, <3>4 DEF Knows
      <4>2. \A j \in DOMAIN box[c] : Early(box[c], j)
        BY <2>1, <3>4 DEF Heralded, Early
      <4>3. \A j \in 1..(i - 1) : box'[c][j] = box[c][j] /\ Harmless(c, box[c], j)
        BY <2>1, <3>2, <3>4, <4>2
      <4> QED BY <1>3, <2>1, <3>1, <3>4, <4>1, <4>3 DEF Fit, Harmless, OnlyLeaves
    <3> QED BY <1>1, <1>3, <2>2, <3>3, <3>4, EarlyAppend
  <2>3. st'[c] = "client" => Unaware(c)'
    BY <2>2 DEF Sits, Sound, Unaware, OnlyLeaves
  <2>4. Swept(c)'
    BY DEF Sits, Sound, Swept, OnlyLeaves, Higher
  <2>5. AskedByLower(c)'
    BY <1>3, <2>1 DEF Sound, AskedByLower, Fit
  <2>6. Heralded(box'[c]) <=> Heralded(box[c]) \/ x.code = LEADER
    BY <1>1, <1>3, HeraldedAppend
  <2>7. Sole(c)' /\ Remembers(c)
    BY <1>3, <2>6 DEF Sits, Sound, Sole, Remembers, Knows, Fit
  <2> QED BY <2>3, <2>4, <2>5, <2>7
<1> QED BY <1>2, <1>3 DEF Sits

\* The first LEADER that is on its way.
LEMMA FirstLeader ==
  ASSUME NEW S, NEW b \in Seq(S), Heralded(b)
  PROVE  \E i \in DOMAIN b : Early(b, i) /\ b[i].code = LEADER
<1> DEFINE T == {i \in DOMAIN b : b[i].code = LEADER}
<1>1. T \in SUBSET Nat /\ T # {} /\ DOMAIN b = 1..Len(b) /\ Len(b) \in Nat
  BY DEF Heralded
<1>2. PICK i \in T : \A j \in T : i <= j
  BY <1>1, Smallest
<1>3. Early(b, i)
  BY <1>1, <1>2 DEF Early
<1> QED BY <1>2, <1>3

\* Whoever has not heard of a successor and would lose to one in its box has
\* somebody higher in its map.
LEMMA HeraldIsHigher ==
  ASSUME Types, NEW c \in Clients, Unaware(c), st[c] = "client", ~leaderFound[c],
         Heralded(box[c])
  PROVE  Higher(c) # {}
<1>1. box[c] \in Seq(Sent)
  BY DEF Types, BoxType
<1>2. PICK i \in DOMAIN box[c] : Early(box[c], i) /\ box[c][i].code = LEADER
  BY <1>1, FirstLeader
<1>3. Harmless(c, box[c], i) /\ box[c][i] \in Sent
  BY <1>1, <1>2 DEF Unaware
<1>4. box[c][i].from \in Clients
  BY <1>2, <1>3, SentForm
<1> QED BY <1>2, <1>3, <1>4 DEF Harmless, Higher

\* c reads the first datagram, which is no LEADER and takes at most somebody
\* dead out of its map.
Reads(c) ==
  /\ box[c] # <<>> /\ box'[c] = Tail(box[c]) /\ st'[c] = st[c]

\* What is harmless to read stays so when what is before it has been read.
LEMMA ReadShift ==
  ASSUME Types, NEW c \in Clients, Reads(c), AskedByLower(c)
  PROVE  /\ AskedByLower(c)'
         /\ Heralded(box'[c]) => Heralded(box[c])
         /\ Heralded(box[c]) => Head(box[c]).code = LEADER \/ Heralded(box'[c])
<1>1. box[c] \in Seq(Sent) /\ box[c] # <<>> /\ box'[c] = Tail(box[c])
  BY DEF Types, BoxType, Reads
<1>2. AskedByLower(c)'
  BY <1>1, TailElements DEF AskedByLower
<1> QED BY <1>1, <1>2, HeraldedTail

\* Reading what is harmless leaves nobody out of the map who is alive.
LEMMA ReadUnaware ==
  ASSUME Types, OnlyLeaves, NEW c \in Clients, Reads(c), Unaware(c),
         Head(box[c]).code # LEADER, leaderFound'[c] = leaderFound[c], leaderOf'[c] = leaderOf[c],
         ~leaderFound[c] => \A d \in (roster[c] \cap Clients) \ {c} :
           d \in roster'[c] \/ (Head(box[c]).code = DELETE /\ Head(box[c]).msg.from = d)
  PROVE  Unaware(c)'
<1> DEFINE h == Head(box[c])
<1>1. /\ box[c] \in Seq(Sent) /\ box[c] # <<>> /\ box'[c] = Tail(box[c])
      /\ 1 \in DOMAIN box[c] /\ h = box[c][1] /\ DOMAIN box[c] = 1..Len(box[c])
  BY TailElements DEF Types, BoxType, Reads
<1> SUFFICES ASSUME st'[c] = "client", ~leaderFound'[c] PROVE Unaware(c)'
  BY DEF Unaware
<1>2. /\ st[c] = "client" /\ ~leaderFound[c] /\ leaderOf'[c] = Leader
      /\ \A d \in Clients \ {c} : st[d] # "gone" => d \in roster[c]
      /\ \A i \in DOMAIN box[c] : Early(box[c], i) => Harmless(c, box[c], i)
  BY DEF Unaware, Reads
<1>3. h.code = DELETE => h.msg.from \in Clients /\ st[h.msg.from] = "gone"
  <2>1. Early(box[c], 1)
    BY DEF Early
  <2> QED BY <1>1, <1>2, <2>1 DEF Harmless
<1>4. ASSUME NEW d \in Clients \ {c}, st'[d] # "gone" PROVE d \in roster'[c]
  BY <1>2, <1>3, <1>4, SomeMessages DEF OnlyLeaves
<1>5. ASSUME NEW i \in DOMAIN box'[c], Early(box'[c], i)
      PROVE  Harmless(c, box[c], i)'
  <2>1. i + 1 \in DOMAIN box[c] /\ Early(box[c], i + 1) /\ box'[c][i] = box[c][i + 1]
        /\ i \in Nat \ {0}
    BY <1>1, <1>5, EarlyTail, TailElements
  <2>2. Harmless(c, box[c], i + 1)
    BY <1>2, <2>1
  <2>3. \A j \in 1..(i - 1) : j \in DOMAIN box'[c] /\ box'[c][j] = box[c][j + 1] /\ j + 1 \in 1..i
    BY <1>1, <1>5, <2>1, TailElements
  <2>4. box'[c][i].code \notin {RECOVERY, CLOSE_RECOVERY}
    BY <2>1, <2>2 DEF Harmless
  <2>5. box'[c][i].code = DELETE =>
          box'[c][i].msg.from \in Clients /\ st'[box'[c][i].msg.from] = "gone"
    BY <2>1, <2>2, SomeMessages DEF Harmless, OnlyLeaves
  <2>6. ASSUME box'[c][i].code = LEADER
        PROVE  /\ box'[c][i].from \in roster'[c] /\ Port[box'[c][i].from] > Port[c]
               /\ \A j \in 1..(i - 1) : box'[c][j].code = DELETE => box'[c][j].msg.from # box'[c][i].from
    <3> DEFINE x == box[c][i + 1]
    <3>1. x \in Sent /\ x.code = LEADER
      BY <1>1, <2>1, <2>6
    <3>2. x.from \in Clients
      BY <3>1, SentForm
    <3>3. /\ x.from \in roster[c] /\ Port[x.from] > Port[c]
          /\ \A j \in 1..i : box[c][j].code = DELETE => box[c][j].msg.from # x.from
      BY <2>1, <2>2, <3>1 DEF Harmless
    <3>4. x.from # c
      BY <3>3, FailoverAssumption
    <3>5. 1 \in 1..i
      BY <2>1
    <3>6. x.from \in roster'[c]
      BY <1>1, <1>2, <3>2, <3>3, <3>4, <3>5
    <3> QED BY <2>1, <2>3, <3>3, <3>6
  <2> QED BY <2>4, <2>5, <2>6 DEF Harmless
<1> QED BY <1>2, <1>4, <1>5 DEF Unaware

------------------------------------------------------------------------------
(* The steps.                                                               *)

\* No process comes back, and none turns into a client again.
LEMMA NextOnlyLeaves ==
  ASSUME Types, Next
  PROVE  OnlyLeaves
<1>1. CASE UNCHANGED st
  BY <1>1 DEF OnlyLeaves
<1>2. ASSUME NEW p \in Leaders, Crash(p) PROVE OnlyLeaves
  BY <1>2 DEF Crash, OnlyLeaves, Types, LeaderType
<1>3. ASSUME NEW w \in Clients, StartThreads(w) \/ BecomeLeader(w) PROVE OnlyLeaves
  BY <1>3, SomeMessages DEF StartThreads, BecomeLeader, OnlyLeaves, Types, LeaderType
<1>4. ASSUME NEW l \in Leaders,
             \/ SenderTop(l) \/ LeaderTypes(l) \/ LeaderStep(l)
             \/ \E c \in Clients : Eliminate(l, c)
      PROVE  UNCHANGED st
  BY <1>4 DEF SenderTop, LeaderTypes, LeaderStep, HandleChat, PopMessage, NextRecipient, Eliminate
<1>5. ASSUME NEW c \in Clients,
             DetectFailure(c) \/ SendChat(c) \/ \E t \in Threads : ElectionStep(c, t)
      PROVE  UNCHANGED st
  BY <1>5 DEF ElectionStep, DetectFailure, StartElection, SendElection, WakeUp, TellOthers, SendChat
<1>6. ASSUME NEW c \in Clients, RecoveryStep(c) PROVE UNCHANGED st \/ StartThreads(c)
  BY <1>6 DEF RecoveryStep, AskMember, HearAnswer, GiveUp
<1>7. ASSUME NEW c \in Clients, Receiver(c) PROVE UNCHANGED st \/ BecomeLeader(c)
  BY <1>7 DEF Receiver, ReceiveMulticast, ReceiveElection, ReceiveLeader, ReceiveRecovery, ReceiveClose
<1> QED BY <1>1, <1>2, <1>3, <1>4, <1>5, <1>6, <1>7 DEF Next

\* What is left to show of a step.
Keeps ==
  /\ \A c \in Clients : Sound(c)' /\ Remembers(c)
  /\ \A w, d \in Clients : Told(w, d)' => Told(w, d)
  /\ \A w \in Clients : Declared(w)' => Declared(w)

\* What every step has to do for the clients to stay sound and told.
LEMMA KeepsEnough ==
  ASSUME Announced, OneDeclared, OnlyLeaves, Keeps
  PROVE  Clientwise' /\ Announced' /\ OneDeclared'
<1> USE SomeMessages
<1>1. Clientwise'
  BY DEF Keeps, Clientwise
<1>2. ASSUME NEW w \in Clients, NEW d \in Clients PROVE Heard(w, d)'
  BY DEF Announced, Heard, Keeps, Remembers, OnlyLeaves
<1>3. OneDeclared'
  BY DEF OneDeclared, Keeps, OnlyLeaves
<1> QED BY <1>1, <1>2, <1>3 DEF Announced

\* Once a client has been elected, every client that is there knows of it.
LEMMA LivesKnown ==
  ASSUME Types, Announced, NEW w \in Clients, Lives(w), NEW c \in Clients, st[c] = "client"
  PROVE  Knows(c)
<1>1. best[w].seq > 0
  BY DEF Types, RecoveryType, Seen
<1> QED BY <1>1 DEF Announced, Heard, Told, Lives

\* Steps during which every client sits.
LEMMA AllSitKeeps ==
  ASSUME Types, Types', Clientwise, OnlyLeaves, UNCHANGED thread,
         \A c \in Clients : st'[c] = "client" => Sits(c),
         \A w \in Clients : best'[w] # best[w] => Lives(w),
         \A w \in Clients : Lives(w)' => Lives(w)
  PROVE  Keeps
<1>1. ASSUME NEW c \in Clients PROVE Sound(c)' /\ Remembers(c)
  <2>1. CASE st'[c] = "client"
    BY <2>1, SitsSound DEF Clientwise, Sound
  <2>2. CASE st'[c] # "client"
    BY <2>2, GoneSound
  <2> QED BY <2>1, <2>2
<1>2. ASSUME NEW w \in Clients, NEW d \in Clients, Told(w, d)' PROVE Told(w, d)
  <2>1. best'[w] # best[w] => best[w].seq > 0
    BY DEF Types, RecoveryType, Seen
  <2> QED BY <1>2, <2>1 DEF Told
<1>3. \A w \in Clients : Declared(w)' => Declared(w)
  BY DEF Declared, Declares
<1> QED BY <1>1, <1>2, <1>3 DEF Keeps

\* A leader's steps leave the clients sound: it sends nothing unfit.
LEMMA LeaderKeeps ==
  ASSUME Tidy, Types', OnlyLeaves, NEW l \in Leaders,
         \/ SenderTop(l) \/ LeaderTypes(l) \/ LeaderStep(l)
         \/ \E c \in Clients : Eliminate(l, c)
  PROVE  Keeps
<1> Types /\ OnlyDeadDeleted /\ Clientwise /\ Announced
  BY DEF Tidy
<1>1. UNCHANGED <<st, best, electionVars, leaderOf>>
  BY DEF SenderTop, LeaderTypes, LeaderStep, HandleChat, PopMessage, NextRecipient, Eliminate,
     recoverVars, clientVars
<1>2. CASE UNCHANGED box
  BY <1>1, <1>2, AllSitKeeps DEF Sits, electionVars, Lives
<1>3. ASSUME NextRecipient(l), NEW c \in Clients, SendClient(c, Multicast(l)) PROVE Keeps
  <2> DEFINE x == Multicast(l)
  <2>1. con[l].pc = "mcast" /\ st[l] = "leading"
    BY <1>3 DEF NextRecipient
  <2>2. x \in Lines /\ x.code = con[l].msg.type
        /\ (con[l].msg.type # CLOSE_RECOVERY => x.msg = con[l].msg)
    BY <2>1, MulticastForm
  <2>3. x \in Sent /\ x.code \notin {ELECTION, LEADER, RECOVERY}
    BY <2>2, Distinct DEF Sent, Lines, ELECTION, LEADER, RECOVERY, CLOSE_RECOVERY
  <2>4. ASSUME st[c] = "client" PROVE Fit(c, x)
    <3>1. CASE l = Leader
      <4>1. con[l].msg \in FirstQueueable
        BY <2>1, <3>1 DEF OnlyDeadDeleted
      <4> QED BY <2>2, <2>3, <4>1 DEF Fit, FirstQueueable
    <3>2. CASE l # Leader
      <4>1. l \in Clients /\ Lives(l)
        BY <2>1, <3>2 DEF Leaders, Lives
      <4> QED BY <2>3, <2>4, <4>1, LivesKnown DEF Fit
    <3> QED BY <3>1, <3>2
  <2>5. ASSUME NEW e \in Clients, st'[e] = "client" PROVE Sits(e)
    <3>1. st[e] = "client"
      BY <1>1, <2>5
    <3>2. box'[e] = box[e] \/ (e = c /\ box'[e] = Append(box[e], x))
      BY <1>3, <3>1 DEF SendClient, Types, BoxType
    <3> HIDE DEF x
    <3> QED BY <1>1, <2>3, <2>4, <3>1, <3>2 DEF Sits, electionVars
  <2> QED BY <1>1, <2>5, AllSitKeeps DEF electionVars, Lives
<1>4. UNCHANGED box \/ \E c \in Clients : NextRecipient(l) /\ SendClient(c, Multicast(l))
  <2>1. CASE NextRecipient(l)
    BY <2>1 DEF NextRecipient, Next_, Types, LeaderType
  <2>2. CASE ~NextRecipient(l)
    BY <2>2 DEF SenderTop, LeaderTypes, LeaderStep, HandleChat, PopMessage, Eliminate
  <2> QED BY <2>1, <2>2
<1> QED BY <1>2, <1>3, <1>4

\* A crash leaves the other clients sound.
LEMMA CrashKeeps ==
  ASSUME Tidy, Types', OnlyLeaves, NEW p \in Leaders, Crash(p)
  PROVE  Keeps
<1> Types /\ Clientwise
  BY DEF Tidy
<1>1. UNCHANGED <<best, leaderOf>> /\ st'[p] = "gone" /\ \A l \in Leaders \ {p} : st'[l] = st[l]
  BY DEF Crash, Types, LeaderType
<1>2. ASSUME NEW c \in Clients, c # p
      PROVE  /\ leaderFound'[c] = leaderFound[c] /\ isOk'[c] = isOk[c] /\ roster'[c] = roster[c]
             /\ thread'[c] = thread[c] /\ box'[c] = box[c]
  <2>1. CASE p = Leader
    BY <2>1 DEF Crash, electionVars
  <2>2. CASE p # Leader
    BY <1>2, <2>2 DEF Crash, Types, ElectionType, BoxType
  <2> QED BY <2>1, <2>2
<1>3. ASSUME NEW c \in Clients PROVE Sound(c)' /\ Remembers(c)
  <2>1. CASE c # p
    <3>1. Sits(c) /\ Sound(c)
      BY <1>1, <1>2, <2>1 DEF Sits, Clientwise
    <3>2. CASE st'[c] = "client"
      BY <3>1, <3>2, SitsSound DEF Sound
    <3> QED BY <3>2, GoneSound
  <2>2. CASE c = p
    BY <1>1, <2>2, GoneSound
  <2> QED BY <2>1, <2>2
<1>4. \A w \in Clients : thread'[w] = thread[w] \/ \A t \in Threads : thread'[w][t].pc = "none"
  BY <1>1, <1>2 DEF Types, ElectionType
<1>5. \A w, d \in Clients : Told(w, d)' => Told(w, d)
  BY <1>1, <1>4 DEF Told
<1>6. \A w \in Clients : Declared(w)' => Declared(w)
  BY <1>1, <1>4, SomeMessages DEF Declared, Declares, Lives
<1> QED BY <1>3, <1>5, <1>6 DEF Keeps

\* A recovery speaks only to clients that know of their new leader.
LEMMA RecoveryKeeps ==
  ASSUME Tidy, Types', OnlyLeaves, NEW w \in Clients, RecoveryStep(w)
  PROVE  Keeps
<1> Types /\ Clientwise /\ Announced
  BY DEF Tidy
<1>1. UNCHANGED <<electionVars, leaderOf>> /\ Lives(w) /\ w \in Leaders
  BY SomeMessages
  DEF RecoveryStep, AskMember, HearAnswer, GiveUp, StartThreads, clientVars, Lives
<1>2. CASE UNCHANGED box
  <2>1. \A c \in Clients : Sits(c)
    BY <1>1, <1>2 DEF Sits, electionVars
  <2>2. \A c \in Clients : best'[c] # best[c] => Lives(c)
    BY <1>1 DEF RecoveryStep, AskMember, HearAnswer, GiveUp, StartThreads, recoverVars, Learn,
       Types, RecoveryType
  <2>3. \A c \in Clients : Lives(c)' => Lives(c)
    BY <1>1, SomeMessages DEF RecoveryStep, AskMember, HearAnswer, GiveUp, StartThreads, Lives,
       Types, LeaderType
  <2> QED BY <1>1, <2>1, <2>2, <2>3, AllSitKeeps DEF electionVars
<1>3. CASE AskMember(w)
  <2> DEFINE x == From(RECOVERY, w)
  <2>1. PICK c \in Clients : SendClient(c, x)
    BY <1>1, <1>3 DEF AskMember, Next_, Types, LeaderType
  <2>2. x \in Sent /\ x.code = RECOVERY
    BY DEF From, Sent, Calls
  <2>3. ASSUME st[c] = "client" PROVE Fit(c, x)
    BY <1>1, <2>2, <2>3, LivesKnown DEF Fit, ELECTION, LEADER, RECOVERY
  <2>4. ASSUME NEW e \in Clients, st'[e] = "client" PROVE Sits(e)
    <3>1. st[e] = "client"
      BY <1>3, <2>4 DEF AskMember
    <3>2. box'[e] = box[e] \/ (e = c /\ box'[e] = Append(box[e], x))
      BY <2>1, <3>1 DEF SendClient, Types, BoxType
    <3> HIDE DEF x
    <3> QED BY <1>1, <2>2, <2>3, <3>1, <3>2 DEF Sits, electionVars
  <2> QED BY <1>1, <1>3, <2>4, AllSitKeeps DEF AskMember, electionVars, Lives
<1> QED BY <1>2, <1>3 DEF RecoveryStep, HearAnswer, GiveUp, StartThreads

\* A client that sends a line stays as it was.
LEMMA SendChatKeeps ==
  ASSUME Tidy, Types', OnlyLeaves, NEW c \in Clients, SendChat(c)
  PROVE  Keeps
<1> Types /\ Clientwise
  BY DEF Tidy
<1>1. UNCHANGED <<st, best, electionVars, leaderOf, box>>
  BY DEF SendChat, recoverVars
<1> QED BY <1>1, AllSitKeeps DEF Sits, electionVars, Lives

\* A client's own step changes nothing of the others but what it sends to one.
Others(c) ==
  /\ UNCHANGED <<st, best, leaderOf, leaderFound>>
  /\ \A e \in Clients \ {c} : st[e] = "client" => Sits(e)
  /\ \A e \in Clients \ {c} : thread'[e] = thread[e]

\* A step of one client that sends nothing leaves the others as they were.
LEMMA OwnStep ==
  ASSUME Types, Types', Clientwise, OnlyLeaves, NEW c \in Clients, Others(c), st[c] = "client",
         Sound(c)', Remembers(c),
         \A d \in Clients : Told(c, d)' => Told(c, d),
         Declared(c)' => Declared(c)
  PROVE  Keeps
<1>1. ASSUME NEW e \in Clients PROVE Sound(e)' /\ Remembers(e)
  <2>1. CASE e # c /\ st[e] = "client"
    <3>1. Sits(e) /\ Sound(e) /\ st'[e] = "client"
      BY <2>1 DEF Others, Clientwise
    <3> QED BY <3>1, SitsSound DEF Sound
  <2>2. CASE e # c /\ st[e] # "client"
    BY <2>2, GoneSound DEF Others
  <2> QED BY <2>1, <2>2
<1>2. \A w, d \in Clients : Told(w, d)' => Told(w, d)
  BY DEF Others, Told
<1>3. \A w \in Clients : Declared(w)' => Declared(w)
  BY DEF Others, Declared, Declares, Lives
<1> QED BY <1>1, <1>2, <1>3 DEF Keeps

\* A thread that starts declares nobody, and is its client's only one as long as
\* that has no leader.
LEMMA LaunchKeeps ==
  ASSUME Types, NEW c \in Clients, Launch(c), ~raced', Sound(c),
         UNCHANGED <<best, leaderFound, isOk>>, st'[c] = st[c], Higher(c)' \subseteq Higher(c)
  PROVE  /\ Single(c)' /\ Swept(c)' /\ (Declares(c)' <=> Declares(c))
         /\ \A d \in Clients : Told(c, d)' => Told(c, d)
         /\ \A d \in Clients \ {c} : thread'[d] = thread[d]
<1>1. PICK t \in Threads : /\ thread[c][t].pc = "none"
                           /\ thread' = [thread EXCEPT ![c][t] = [pc |-> "start", at |-> 0]]
  BY LaunchForm
<1>2. [pc |-> "start", at |-> 0] \in [pc : Places, at : Nat]
  BY DEF Places
<1>3. /\ thread'[c][t] = [pc |-> "start", at |-> 0]
      /\ \A u \in Threads \ {t} : thread'[c][u] = thread[c][u]
      /\ \A d \in Clients \ {c} : thread'[d] = thread[d]
  BY <1>1, <1>2, ThreadSet
<1>4. ~leaderFound[c] => \A u \in Threads : thread[c][u].pc = "none"
  BY LaunchForm
<1>5. Single(c)'
  BY <1>3, <1>4 DEF Single
<1>6. Swept(c)'
  BY <1>3, <1>4 DEF Swept
<1>7. Declares(c)' <=> Declares(c)
  BY <1>1, <1>3 DEF Declares
<1>8. \A d \in Clients : Told(c, d)' => Told(c, d)
  BY <1>3 DEF Told
<1> QED BY <1>3, <1>5, <1>6, <1>7, <1>8

\* Who misses the leader does nothing else yet.
LEMMA DetectFailureKeeps ==
  ASSUME Tidy, Types', OnlyLeaves, NEW c \in Clients, DetectFailure(c), ~raced'
  PROVE  Keeps
<1> Types /\ Clientwise /\ Sound(c)
  BY DEF Tidy, Clientwise
<1>1. UNCHANGED <<st, best, leaderOf, leaderFound, isOk, roster, box>> /\ st[c] = "client" /\ Launch(c)
  BY DEF DetectFailure, recoverVars, clientVars
<1>2. Higher(c)' = Higher(c)
  BY <1>1 DEF Higher
<1>3. /\ Single(c)' /\ Swept(c)' /\ (Declares(c)' <=> Declares(c))
      /\ \A d \in Clients : Told(c, d)' => Told(c, d)
      /\ \A d \in Clients \ {c} : thread'[d] = thread[d]
  BY <1>1, <1>2, LaunchKeeps
<1>4. Others(c)
  BY <1>1, <1>3 DEF Others, Sits
<1>5. Unaware(c)' /\ AskedByLower(c)' /\ Sole(c)' /\ Remembers(c)
  BY <1>1, <1>3 DEF Sound, Unaware, Harmless, AskedByLower, Sole, Remembers, Knows
<1>6. Declared(c)' => Declared(c)
  BY <1>1, <1>3 DEF Declared, Lives
<1> QED BY <1>1, <1>3, <1>4, <1>5, <1>6, OwnStep DEF Sound

\* An election that begins erases only the first leader, who is gone.
LEMMA StartElectionKeeps ==
  ASSUME Tidy, Types', OnlyLeaves, NEW c \in Clients, NEW t \in Threads, StartElection(c, t)
  PROVE  Keeps
<1> Types /\ Clientwise /\ Sound(c)
  BY DEF Tidy, Clientwise
<1>1. /\ UNCHANGED <<st, best, leaderOf, leaderFound, box>> /\ st[c] = "client"
      /\ thread' = [thread EXCEPT ![c][t] = [pc |-> "elect", at |-> 0]]
      /\ roster' = [roster EXCEPT ![c] = @ \ ({leaderOf[c]} \cap {Leader})]
      /\ isOk' = [isOk EXCEPT ![c] = FALSE] /\ thread[c][t].pc = "start"
  BY DEF StartElection, recoverVars, clientVars
<1>2. [pc |-> "elect", at |-> 0] \in [pc : Places, at : Nat]
  BY DEF Places
<1>3. /\ thread'[c][t] = [pc |-> "elect", at |-> 0]
      /\ \A u \in Threads \ {t} : thread'[c][u] = thread[c][u]
      /\ \A d \in Clients \ {c} : thread'[d] = thread[d]
  BY <1>1, <1>2, ThreadSet
<1>4. /\ roster'[c] \subseteq roster[c] /\ roster[c] \ {Leader} \subseteq roster'[c]
      /\ \A d \in Clients \ {c} : roster'[d] = roster[d] /\ isOk'[d] = isOk[d]
  BY <1>1 DEF Types, ElectionType
<1>5. Others(c)
  BY <1>1, <1>3, <1>4 DEF Others, Sits
<1>6. Unaware(c)'
  <2> SUFFICES ASSUME ~leaderFound[c] PROVE Unaware(c)'
    BY <1>1 DEF Unaware
  <2>1. ASSUME NEW i \in DOMAIN box[c], Early(box[c], i) PROVE Harmless(c, box[c], i)'
    <3>1. Harmless(c, box[c], i)
      BY <1>1, <2>1 DEF Sound, Unaware
    <3>2. box[c][i] \in Sent
      BY DEF Types, BoxType
    <3>3. box[c][i].code = LEADER => box[c][i].from \in Clients
      BY <3>2, SentForm
    <3> QED BY <1>1, <1>4, <3>1, <3>3, SomeMessages DEF Harmless
  <2> QED BY <1>1, <1>4, <2>1, SomeMessages DEF Sound, Unaware
<1>7. Single(c)' /\ Swept(c)'
  BY <1>1, <1>3 DEF Sound, Single, Swept
<1>8. Declares(c)' <=> Declares(c)
  BY <1>1, <1>3 DEF Declares
<1>9. AskedByLower(c)' /\ Sole(c)' /\ Remembers(c)
  BY <1>1, <1>8 DEF Sound, AskedByLower, Sole, Remembers, Knows
<1>10. \A d \in Clients : Told(c, d)' => Told(c, d)
  BY <1>1, <1>3 DEF Told
<1>11. Declared(c)' => Declared(c)
  BY <1>1, <1>8 DEF Declared, Lives
<1> QED BY <1>1, <1>5, <1>6, <1>7, <1>9, <1>10, <1>11, OwnStep DEF Sound

\* An ELECTION goes to a higher port, or is lost, and counts as an OK.
LEMMA SendElectionKeeps ==
  ASSUME Tidy, Types', OnlyLeaves, NEW c \in Clients, NEW t \in Threads, SendElection(c, t)
  PROVE  Keeps
<1> Types /\ Clientwise /\ Sound(c)
  BY DEF Tidy, Clientwise
<1>1. /\ UNCHANGED <<st, best, leaderOf, leaderFound, roster>> /\ st[c] = "client"
      /\ thread[c][t].pc = "elect" /\ thread[c][t].at \in Nat
  BY DEF SendElection, recoverVars, clientVars, Types, ElectionType
<1>2. ASSUME NEW d \in Higher(c), SendElectionTo(d, c),
             thread' = [thread EXCEPT ![c][t].at = d], isOk' = [isOk EXCEPT ![c] = TRUE]
      PROVE  Keeps
  <2> DEFINE x == From(ELECTION, c)
  <2>1. d \in Clients /\ d \in Nat /\ Port[c] < Port[d] /\ d # c
    <3>1. d \in Clients /\ Port[d] > Port[c]
      BY DEF Higher
    <3>2. d \in Nat /\ Port[c] \in Nat /\ Port[d] \in Nat
      BY <3>1, FailoverAssumption
    <3> QED BY <3>1, <3>2
  <2>2. x \in Sent /\ Fit(d, x)
    BY <2>1, FailoverAssumption
    DEF From, Sent, Calls, Fit, ELECTION, LEADER, RECOVERY, CLOSE_RECOVERY, DELETE
  <2>3. \A e \in Clients : box'[e] = box[e] \/ (e = d /\ box'[e] = Append(box[e], x))
    BY <1>2 DEF SendElectionTo, SendClient, Types, BoxType
  <2> HIDE DEF x
  <2>4. /\ thread'[c][t].pc = "elect"
        /\ \A u \in Threads : thread'[c][u].pc = thread[c][u].pc
        /\ \A u \in Threads \ {t} : thread'[c][u] = thread[c][u]
        /\ \A e \in Clients \ {c} : thread'[e] = thread[e]
    <3>1. /\ thread'[c][t].pc = thread[c][t].pc
          /\ \A u \in Threads \ {t} : thread'[c][u] = thread[c][u]
          /\ \A e \in Clients \ {c} : thread'[e] = thread[e]
      BY <1>2, <2>1, ThreadAt
    <3> QED BY <1>1, <3>1
  <2>5. isOk'[c] /\ box'[c] = box[c] /\ \A e \in Clients \ {c} : isOk'[e] = isOk[e]
    BY <1>2, <2>1, <2>3 DEF Types, ElectionType
  <2>6. Others(c)
    BY <1>1, <2>2, <2>3, <2>4, <2>5 DEF Others, Sits
  <2>7. Unaware(c)' /\ Single(c)' /\ Swept(c)' /\ AskedByLower(c)' /\ Sole(c)' /\ Remembers(c)
    <3>1. Unaware(c)'
      BY <1>1, <2>5 DEF Sound, Unaware, Harmless
    <3>2. Single(c)'
      BY <1>1, <2>4 DEF Sound, Single
    <3>3. Swept(c)'
      BY <2>5 DEF Swept
    <3>4. AskedByLower(c)' /\ Remembers(c)
      BY <1>1, <2>5 DEF Sound, AskedByLower, Remembers, Knows
    <3>5. Sole(c)'
      BY <1>1, <2>4, <2>5 DEF Sound, Sole, Declares, Knows
    <3> QED BY <3>1, <3>2, <3>3, <3>4, <3>5
  <2>8. \A e \in Clients : Told(c, e)' => Told(c, e)
    BY <1>1, <2>4 DEF Told
  <2>9. Declared(c)' => Declared(c)
    BY <1>1, <2>4 DEF Declared, Declares, Lives
  <2> QED BY <1>1, <2>6, <2>7, <2>8, <2>9, OwnStep DEF Sound
<1>3. ASSUME Next_(Higher(c), thread[c][t].at) = {}, UNCHANGED <<box, isOk>>,
             thread' = [thread EXCEPT ![c][t] = [pc |-> "sleep", at |-> 0]]
      PROVE  Keeps
  <2>1. [pc |-> "sleep", at |-> 0] \in [pc : Places, at : Nat]
    BY DEF Places
  <2>2. /\ thread'[c][t] = [pc |-> "sleep", at |-> 0]
        /\ \A u \in Threads \ {t} : thread'[c][u] = thread[c][u]
        /\ \A e \in Clients \ {c} : thread'[e] = thread[e]
    BY <1>3, <2>1, ThreadSet
  <2>3. Others(c)
    BY <1>1, <1>3, <2>2 DEF Others, Sits
  <2>4. Single(c)'
    BY <1>1, <2>2 DEF Sound, Single
  <2>5. Swept(c)'
    <3>1. ASSUME ~leaderFound[c], ~isOk[c] PROVE Higher(c) = {}
      <4>1. thread[c][t].at = 0
        BY <1>1, <3>1 DEF Sound, Swept
      <4>2. Higher(c) \in SUBSET Clients
        BY DEF Higher
      <4>3. \A d \in Higher(c) : d <= 0
        BY <1>3, <4>1, <4>2, NextEmpty
      <4>4. \A d \in Clients : ~(d <= 0)
        BY FailoverAssumption
      <4> QED BY <4>2, <4>3, <4>4, Zenon
    <3>2. Higher(c)' = Higher(c)
      BY <1>1 DEF Higher
    <3>3. ~leaderFound[c] => \A u \in Threads \ {t} : thread'[c][u].pc = "none"
      BY <1>1, <2>2 DEF Sound, Single
    <3> QED BY <1>1, <1>3, <2>2, <3>1, <3>2, <3>3 DEF Swept
  <2>6. Declares(c)' <=> Declares(c)
    BY <1>1, <2>2 DEF Declares
  <2>7. Unaware(c)' /\ AskedByLower(c)' /\ Sole(c)' /\ Remembers(c)
    <3>1. Unaware(c)'
      BY <1>1, <1>3 DEF Sound, Unaware, Harmless
    <3> QED BY <1>1, <1>3, <2>6, <3>1 DEF Sound, AskedByLower, Sole, Remembers, Knows
  <2>8. \A e \in Clients : Told(c, e)' => Told(c, e)
    BY <1>1, <2>2 DEF Told
  <2>9. Declared(c)' => Declared(c)
    BY <1>1, <2>6 DEF Declared, Lives
  <2> QED BY <1>1, <2>3, <2>4, <2>5, <2>7, <2>8, <2>9, OwnStep DEF Sound
<1>4. \/ \E d \in Higher(c) : /\ SendElectionTo(d, c)
                              /\ thread' = [thread EXCEPT ![c][t].at = d]
                              /\ isOk' = [isOk EXCEPT ![c] = TRUE]
      \/ /\ Next_(Higher(c), thread[c][t].at) = {} /\ UNCHANGED <<box, isOk>>
         /\ thread' = [thread EXCEPT ![c][t] = [pc |-> "sleep", at |-> 0]]
  BY DEF SendElection, Next_
<1> QED BY <1>2, <1>3, <1>4

\* A thread that wakes up declares its client only if nobody else has declared
\* itself and nobody of a higher port is there.
LEMMA WakeUpKeeps ==
  ASSUME Tidy, DistinctPorts, Types', OnlyLeaves, NEW c \in Clients, NEW t \in Threads, WakeUp(c, t)
  PROVE  Clientwise' /\ Announced' /\ OneDeclared'
<1> Types /\ Clientwise /\ Announced /\ OneDeclared /\ Sound(c)
  BY DEF Tidy, Clientwise
<1>1. /\ UNCHANGED <<st, best, leaderOf, leaderFound, roster, box>> /\ st[c] = "client"
      /\ thread[c][t].pc = "sleep"
      /\ thread' = [thread EXCEPT ![c][t] = [pc |-> AfterSleep(c), at |-> 0]]
  BY DEF WakeUp, recoverVars, clientVars
<1>2. [pc |-> AfterSleep(c), at |-> 0] \in [pc : Places, at : Nat]
  BY DEF AfterSleep, Places
<1>3. /\ thread'[c][t] = [pc |-> AfterSleep(c), at |-> 0]
      /\ \A u \in Threads \ {t} : thread'[c][u] = thread[c][u]
      /\ \A e \in Clients \ {c} : thread'[e] = thread[e]
  BY <1>1, <1>2, ThreadSet
<1>4. (~leaderFound[c] => ~isOk'[c]) /\ \A e \in Clients \ {c} : isOk'[e] = isOk[e]
  <2>1. isOk' = [isOk EXCEPT ![c] = @ /\ leaderFound[c]]
    BY DEF WakeUp
  <2>2. isOk'[c] = (isOk[c] /\ leaderFound[c])
    BY <2>1, Zenon DEF Types, ElectionType
  <2>3. \A e \in Clients \ {c} : isOk'[e] = isOk[e]
    BY <2>1, Zenon DEF Types, ElectionType
  <2> QED BY <2>2, <2>3
<1>5. Others(c)
  BY <1>1, <1>3, <1>4 DEF Others, Sits
<1>6. ~leaderFound[c] => \A u \in Threads \ {t} : thread[c][u].pc = "none"
  BY <1>1 DEF Sound, Single
<1>7. Single(c)' /\ Swept(c)'
  BY <1>1, <1>3, <1>6 DEF Single, Swept, AfterSleep
<1>8. Unaware(c)' /\ AskedByLower(c)' /\ Remembers(c)
  BY <1>1 DEF Sound, Unaware, Harmless, AskedByLower, Remembers, Knows
<1>9. \A e \in Clients : Told(c, e)' => Told(c, e)
  <2>1. \A e \in Clients : ~(e <= 0)
    BY FailoverAssumption
  <2> QED BY <1>1, <1>3, <2>1 DEF Told, AfterSleep
<1>10. CASE AfterSleep(c) # "tell"
  <2>1. Declares(c)' => Declares(c)
    BY <1>3, <1>10 DEF Declares, AfterSleep
  <2>2. Sole(c)' /\ (Declared(c)' => Declared(c))
    BY <1>1, <2>1 DEF Sound, Sole, Knows, Declared, Lives
  <2> QED BY <1>1, <1>5, <1>7, <1>8, <1>9, <2>2, OwnStep, KeepsEnough DEF Sound
<1>11. CASE AfterSleep(c) = "tell"
  <2>1. ~leaderFound[c] /\ ~isOk[c]
    BY <1>11 DEF AfterSleep
  <2>2. Higher(c) = {}
    BY <1>1, <2>1 DEF Sound, Swept
  <2>3. ~Knows(c)
    BY <1>1, <2>1, <2>2, HeraldIsHigher DEF Sound, Knows
  <2>4. ASSUME NEW d \in Clients, st[d] = "client" PROVE Port[d] <= Port[c]
    <3>1. d # c => d \in roster[c]
      BY <1>1, <2>1, <2>4 DEF Sound, Unaware
    <3>2. Port[d] \in Nat /\ Port[c] \in Nat
      BY FailoverAssumption
    <3> QED BY <2>2, <3>1, <3>2 DEF Higher
  <2>5. ASSUME NEW d \in Clients, d # c PROVE ~Declared(d)
    <3>1. ~Told(d, c)
      BY <1>1, <2>3, <2>5 DEF Announced, Heard
    <3>2. ~Lives(d) /\ \A u \in Threads : thread[d][u].pc # "quit"
      BY <3>1 DEF Told, Types, RecoveryType, Seen
    <3>3. ASSUME NEW u \in Threads, thread[d][u].pc = "tell" PROVE FALSE
      <4>1. st[d] = "client"
        BY <3>3 DEF Types, ElectionType
      <4>2. Port[c] <= Port[d]
        BY <1>1, <3>3 DEF OneDeclared, Declared, Declares
      <4>3. Port[c] # Port[d] /\ Port[c] \in Nat /\ Port[d] \in Nat
        BY <2>5, FailoverAssumption DEF DistinctPorts
      <4> QED BY <2>4, <4>1, <4>2, <4>3
    <3> QED BY <3>2, <3>3 DEF Declared, Declares
  <2>6. Sole(c)'
    BY <1>1, <2>3 DEF Sole, Knows
  <2>7. ASSUME NEW e \in Clients PROVE Sound(e)' /\ Remembers(e)
    <3>1. CASE e = c
      BY <1>7, <1>8, <2>6, <3>1 DEF Sound
    <3>2. CASE e # c /\ st[e] = "client"
      <4>1. Sits(e) /\ Sound(e) /\ st'[e] = "client"
        BY <1>1, <1>5, <3>2 DEF Others, Clientwise
      <4> QED BY <4>1, SitsSound DEF Sound
    <3>3. CASE e # c /\ st[e] # "client"
      BY <1>1, <3>3, GoneSound
    <3> QED BY <3>1, <3>2, <3>3
  <2>8. ASSUME NEW w \in Clients, NEW d \in Clients PROVE Heard(w, d)'
    <3>1. Told(w, d)' => Told(w, d)
      BY <1>1, <1>3, <1>9 DEF Told
    <3> QED BY <1>1, <2>7, <3>1 DEF Announced, Heard, Remembers
  <2>9. ASSUME NEW w \in Clients, Declared(w)' PROVE w = c
    BY <1>1, <1>3, <2>5, <2>9 DEF Declared, Declares, Lives
  <2>10. OneDeclared'
    BY <1>1, <2>4, <2>9 DEF OneDeclared
  <2> QED BY <2>7, <2>8, <2>10 DEF Clientwise, Announced
<1> QED BY <1>10, <1>11

\* Who declares itself tells everyone alive before it quits.
LEMMA TellOthersKeeps ==
  ASSUME Tidy, DistinctPorts, Types', OnlyLeaves, NEW c \in Clients, NEW t \in Threads,
         TellOthers(c, t)
  PROVE  Clientwise' /\ Announced' /\ OneDeclared'
<1> DEFINE others == (roster[c] \cap Clients) \ {c}
<1> Types /\ Clientwise /\ Announced /\ OneDeclared /\ Sound(c)
  BY DEF Tidy, Clientwise
<1>1. /\ UNCHANGED <<st, best, leaderOf, leaderFound, isOk>> /\ st[c] = "client"
      /\ thread[c][t].pc = "tell" /\ thread[c][t].at \in Nat
  BY DEF TellOthers, recoverVars, clientVars, Types, ElectionType
<1>2. /\ Declares(c) /\ Declared(c) /\ ~Knows(c) /\ ~leaderFound[c]
      /\ \A d \in Clients \ {c} : st[d] # "gone" => d \in others
      /\ \A u \in Threads \ {t} : thread[c][u].pc = "none"
  BY <1>1 DEF Declares, Declared, Sound, Sole, Knows, Unaware, Single
<1>3. ASSUME NEW d \in Next_(others, thread[c][t].at), SendClient(d, From(LEADER, c)),
             thread' = [thread EXCEPT ![c][t].at = d], UNCHANGED roster
      PROVE  Clientwise' /\ Announced' /\ OneDeclared'
  <2> DEFINE x == From(LEADER, c)
  <2>1. d \in Clients /\ d # c /\ d \in Nat
    BY FailoverAssumption DEF Next_
  <2>2. x \in Sent /\ x.code = LEADER /\ (st[d] = "client" => Fit(d, x))
    <3>1. x \in Sent /\ x.code = LEADER /\ x.from = c
      BY DEF From, Sent, Calls
    <3>2. ASSUME st[d] = "client" PROVE ~Declares(d)
      BY <1>2, <2>1 DEF OneDeclared, Declared
    <3>3. ASSUME st[d] = "client", ~Knows(d) PROVE c \in roster[d] /\ Port[c] > Port[d]
      <4>1. c \in roster[d]
        BY <1>1, <2>1, <3>3 DEF Clientwise, Sound, Unaware, Knows
      <4>2. Port[d] <= Port[c] /\ Port[d] # Port[c] /\ Port[d] \in Nat /\ Port[c] \in Nat
        BY <1>2, <2>1, <3>3, FailoverAssumption DEF OneDeclared, DistinctPorts
      <4> QED BY <4>1, <4>2
    <3> QED BY <1>1, <3>1, <3>2, <3>3
        DEF Fit, ELECTION, LEADER, RECOVERY, CLOSE_RECOVERY, DELETE
  <2>3. \A e \in Clients : box'[e] = box[e] \/ (e = d /\ st[d] = "client" /\ box'[e] = Append(box[e], x))
    BY <1>3 DEF SendClient, Types, BoxType
  <2> HIDE DEF x
  <2>4. /\ thread'[c][t].pc = "tell" /\ thread'[c][t].at = d
        /\ \A u \in Threads \ {t} : thread'[c][u] = thread[c][u]
        /\ \A e \in Clients \ {c} : thread'[e] = thread[e]
    BY <1>1, <1>3, <2>1, ThreadAt
  <2>5. box'[c] = box[c]
    BY <2>1, <2>3
  <2>6. \A e \in Clients \ {c} : st[e] = "client" => Sits(e)
    BY <1>1, <1>3, <2>2, <2>3, <2>4 DEF Sits, Types, ElectionType
  <2>7. ASSUME NEW e \in Clients PROVE Sound(e)' /\ Remembers(e)
    <3>1. CASE e = c
      <4>1. Unaware(c)'
        BY <1>1, <1>3, <2>5 DEF Sound, Unaware, Harmless
      <4>2. Single(c)' /\ Swept(c)'
        BY <1>1, <1>2, <2>4 DEF Single, Swept
      <4>3. AskedByLower(c)' /\ Sole(c)' /\ Remembers(c)
        BY <1>1, <1>2, <2>5 DEF Sound, AskedByLower, Sole, Remembers, Knows
      <4> QED BY <3>1, <4>1, <4>2, <4>3 DEF Sound
    <3>2. CASE e # c /\ st[e] = "client"
      <4>1. Sits(e) /\ Sound(e) /\ st'[e] = "client"
        BY <1>1, <2>6, <3>2 DEF Clientwise
      <4> QED BY <4>1, SitsSound DEF Sound
    <3>3. CASE e # c /\ st[e] # "client"
      BY <1>1, <3>3, GoneSound
    <3> QED BY <3>1, <3>2, <3>3
  <2>8. st[d] = "client" => Knows(d)'
    <3>1. st[d] = "client" => Heralded(box'[d])
      <4>1. box[d] \in Seq(Sent)
        BY <2>1 DEF Types, BoxType
      <4>2. st[d] = "client" => box'[d] = Append(box[d], x)
        BY <1>3, <2>1 DEF SendClient, x, Types, BoxType
      <4> QED BY <2>2, <4>1, <4>2, HeraldedAppend
    <3> QED BY <3>1 DEF Knows
  <2>9. ASSUME NEW e \in Clients \ {c}, st[e] = "client", e <= d PROVE e = d \/ Told(c, e)
    <3>1. e \in others
      BY <1>2, <2>9
    <3>2. e > thread[c][t].at => d <= e
      BY <3>1 DEF Next_
    <3>3. e \in Nat
      BY FailoverAssumption
    <3>4. e = d \/ e <= thread[c][t].at
      BY <1>1, <2>1, <2>9, <3>2, <3>3
    <3> QED BY <1>1, <3>4 DEF Told
  <2>10. ASSUME NEW w \in Clients, NEW e \in Clients PROVE Heard(w, e)'
    <3>1. CASE w # c
      <4>1. Told(w, e)' => Told(w, e)
        BY <1>1, <2>4, <3>1 DEF Told
      <4> QED BY <1>1, <2>7, <4>1 DEF Announced, Heard, Remembers
    <3>2. CASE w = c
      <4>1. SUFFICES ASSUME e # c, st[e] = "client", Told(c, e)' PROVE Knows(e)'
        BY <1>1, <3>2 DEF Heard
      <4>2. Told(c, e) \/ e <= d
        BY <1>1, <2>4, <4>1 DEF Told
      <4>3. CASE Told(c, e)
        BY <1>1, <2>7, <4>1, <4>3 DEF Announced, Heard, Remembers
      <4> QED BY <2>8, <2>9, <4>1, <4>2, <4>3
    <3> QED BY <3>1, <3>2
  <2>11. \A w \in Clients : Declared(w)' => Declared(w)
    BY <1>1, <1>2, <2>4 DEF Declared, Declares, Lives
  <2>12. OneDeclared'
    BY <1>1, <2>11 DEF OneDeclared
  <2> QED BY <2>7, <2>10, <2>12 DEF Clientwise, Announced
<1>4. ASSUME Next_(others, thread[c][t].at) = {}, UNCHANGED box,
             thread' = [thread EXCEPT ![c][t] = [pc |-> "quit", at |-> 0]],
             roster' = [roster EXCEPT ![c] = @ \ {c}]
      PROVE  Clientwise' /\ Announced' /\ OneDeclared'
  <2>1. [pc |-> "quit", at |-> 0] \in [pc : Places, at : Nat]
    BY DEF Places
  <2>2. /\ thread'[c][t].pc = "quit"
        /\ \A u \in Threads \ {t} : thread'[c][u] = thread[c][u]
        /\ \A e \in Clients \ {c} : thread'[e] = thread[e]
    BY <1>4, <2>1, ThreadSet
  <2>3. roster'[c] = roster[c] \ {c} /\ \A e \in Clients \ {c} : roster'[e] = roster[e]
    BY <1>4 DEF Types, ElectionType
  <2>4. \A e \in Clients \ {c} : Sits(e)
    BY <1>1, <1>4, <2>2, <2>3 DEF Sits
  <2>5. Sound(c)' /\ Remembers(c)
    <3>1. ASSUME NEW i \in DOMAIN box[c] PROVE Early(box[c], i) => Harmless(c, box[c], i)'
      <4>1. Early(box[c], i) => Harmless(c, box[c], i)
        BY <1>1, <1>2 DEF Sound, Unaware, Knows
      <4>2. box[c][i].code # LEADER
        BY <1>2 DEF Knows, Heralded
      <4> QED BY <1>1, <1>4, <4>1, <4>2 DEF Harmless
    <3>2. Unaware(c)'
      BY <1>1, <1>4, <2>3, <3>1 DEF Sound, Unaware
    <3>3. Single(c)' /\ Swept(c)'
      BY <1>2, <2>2 DEF Single, Swept
    <3>4. AskedByLower(c)' /\ Sole(c)' /\ Remembers(c)
      BY <1>1, <1>2, <1>4 DEF Sound, AskedByLower, Sole, Remembers, Knows
    <3> QED BY <3>2, <3>3, <3>4 DEF Sound
  <2>6. ASSUME NEW e \in Clients PROVE Sound(e)' /\ Remembers(e)
    <3>1. CASE e # c /\ st[e] = "client"
      <4>1. Sits(e) /\ Sound(e) /\ st'[e] = "client"
        BY <1>1, <2>4, <3>1 DEF Clientwise
      <4> QED BY <4>1, SitsSound DEF Sound
    <3>2. CASE e # c /\ st[e] # "client"
      BY <1>1, <3>2, GoneSound
    <3> QED BY <2>5, <3>1, <3>2
  <2>7. ASSUME NEW e \in Clients \ {c}, st[e] = "client" PROVE Told(c, e)
    <3>1. e \in others /\ others \in SUBSET Clients
      BY <1>2, <2>7
    <3>2. e <= thread[c][t].at
      BY <1>1, <1>4, <3>1, NextEmpty
    <3> QED BY <1>1, <3>2 DEF Told
  <2>8. ASSUME NEW w \in Clients, NEW e \in Clients PROVE Heard(w, e)'
    <3>1. w # c => (Told(w, e)' => Told(w, e))
      BY <1>1, <2>2 DEF Told
    <3>2. e # w /\ st[e] = "client" /\ Told(w, e)' => Told(w, e)
      BY <2>7, <3>1
    <3> QED BY <1>1, <2>6, <3>2 DEF Announced, Heard, Remembers
  <2>9. \A w \in Clients : Declared(w)' => Declared(w)
    BY <1>1, <1>2, <2>2 DEF Declared, Declares, Lives
  <2>10. OneDeclared'
    BY <1>1, <2>9 DEF OneDeclared
  <2> QED BY <2>6, <2>8, <2>10 DEF Clientwise, Announced
<1> QED BY <1>3, <1>4 DEF TellOthers

\* A receiver's step: what it hears leaves it sound.
LEMMA ReadKeeps ==
  ASSUME Types, Types', Clientwise, OnlyLeaves, NEW c \in Clients, Reads(c),
         st[c] = "client", ~Dead(c), st' = st, best' = best,
         \A e \in Clients \ {c} : Sits(e),
         Declares(c)' => Declares(c), \A d \in Clients : Told(c, d)' => Told(c, d),
         leaderFound[c] => leaderFound'[c],
         Head(box[c]).code = LEADER => leaderFound'[c],
         Declares(c) => ~leaderFound'[c],
         Unaware(c)', Single(c)', Swept(c)'
  PROVE  Keeps
<1>1. /\ AskedByLower(c)'
      /\ Heralded(box'[c]) => Heralded(box[c])
      /\ Heralded(box[c]) => Head(box[c]).code = LEADER \/ Heralded(box'[c])
  BY ReadShift DEF Clientwise, Sound
<1>2. Sole(c)' /\ Remembers(c)
  BY <1>1 DEF Clientwise, Sound, Sole, Remembers, Knows
<1>3. ASSUME NEW e \in Clients \ {c} PROVE Sound(e)' /\ Remembers(e)
  <2>1. CASE st[e] = "client"
    <3>1. Sits(e) /\ Sound(e) /\ st'[e] = "client"
      BY <2>1 DEF Clientwise
    <3> QED BY <3>1, SitsSound DEF Sound
  <2>2. CASE st[e] # "client"
    BY <2>2, GoneSound
  <2> QED BY <2>1, <2>2
<1>4. \A w, d \in Clients : Told(w, d)' => Told(w, d)
  BY DEF Sits, Told
<1>5. \A w \in Clients : Declared(w)' => Declared(w)
  BY DEF Sits, Declared, Declares, Lives
<1> QED BY <1>1, <1>2, <1>3, <1>4, <1>5 DEF Keeps, Sound

\* Before it knows of a successor, a client reads neither RECOVERY nor
\* CLOSE_RECOVERY.
LEMMA FirstHarmless ==
  ASSUME Types, NEW c \in Clients, Unaware(c), st[c] = "client", ~leaderFound[c],
         box[c] # <<>>
  PROVE  Head(box[c]).code \notin {RECOVERY, CLOSE_RECOVERY}
<1>1. box[c] \in Seq(Sent) /\ 1 \in DOMAIN box[c] /\ Head(box[c]) = box[c][1]
  BY TailElements DEF Types, BoxType
<1>2. Early(box[c], 1)
  BY DEF Early
<1> QED BY <1>1, <1>2 DEF Unaware, Harmless

\* Whatever the receiver reads, the clients stay sound and told.
LEMMA ReceiverKeeps ==
  ASSUME Tidy, Types', OnlyLeaves, NEW c \in Clients, Receiver(c), ~raced'
  PROVE  Keeps
<1> DEFINE h == Head(box[c])
<1> Types /\ Clientwise /\ Sound(c)
  BY DEF Tidy, Clientwise
<1>1. ASSUME NEW codes, Hears(c, codes), st' = st
      PROVE  /\ Reads(c) /\ st[c] = "client" /\ ~Dead(c)
             /\ h \in Sent /\ h.code \in codes /\ box[c] # <<>>
             /\ \A e \in Clients \ {c} : box'[e] = box[e]
  BY <1>1, HearsTypes DEF Reads, Types, BoxType
<1>2. CASE ReceiveMulticast(c)
  <2>1. /\ UNCHANGED <<st, best, leaderOf, leaderFound, isOk, thread>>
        /\ Hears(c, {DELETE} \cup {n \in CHAT..(CHAT + 1 + MaxLines) : IsChat(n)})
        /\ roster' = [roster EXCEPT ![c] = Apply(c, h.msg)]
    BY <1>2 DEF ReceiveMulticast, recoverVars
  <2>2. /\ Reads(c) /\ st[c] = "client" /\ ~Dead(c) /\ h \in Sent
        /\ h.code \in {DELETE} \cup {n \in CHAT..(CHAT + 1 + MaxLines) : IsChat(n)}
        /\ \A e \in Clients \ {c} : box'[e] = box[e]
    BY <1>1, <2>1
  <2>3. h.code \in LineTypes /\ h.code # LEADER /\ h.msg.type = h.code
    <3>1. h.code \in LineTypes
      BY <2>2, FailoverAssumption DEF LineTypes, CHAT
    <3> QED BY <2>2, <3>1, SentForm, Distinct
  <2>4. roster'[c] = IF h.code = DELETE THEN roster[c] \ {h.msg.from} ELSE roster[c]
    BY <2>1, <2>3, Distinct DEF Apply, Types, ElectionType
  <2>5. \A e \in Clients \ {c} : Sits(e)
    BY <2>1, <2>2 DEF Sits, Types, ElectionType
  <2>6. Unaware(c)'
    BY <2>1, <2>2, <2>3, <2>4, ReadUnaware DEF Sound
  <2>7. Swept(c)' /\ Single(c)'
    <3>1. Higher(c)' \subseteq Higher(c)
      BY <2>4 DEF Higher
    <3> QED BY <2>1, <3>1 DEF Sound, Swept, Single
  <2>8. /\ Declares(c) => ~leaderFound[c]
        /\ Declares(c)' => Declares(c)
        /\ \A d \in Clients : Told(c, d)' => Told(c, d)
    BY <2>1 DEF Sound, Sole, Knows, Declares, Told
  <2> QED BY <2>1, <2>2, <2>3, <2>5, <2>6, <2>7, <2>8, ReadKeeps
<1>3. CASE ReceiveElection(c)
  <2>1. UNCHANGED <<st, best, leaderOf, leaderFound>> /\ Hears(c, {ELECTION})
    BY <1>3 DEF ReceiveElection, recoverVars, clientVars
  <2>2. /\ Reads(c) /\ st[c] = "client" /\ ~Dead(c) /\ h \in Sent
        /\ h.code = ELECTION /\ \A e \in Clients \ {c} : box'[e] = box[e]
    BY <1>1, <2>1
  <2>3. h.from \in Clients /\ Port[h.from] < Port[c]
    <3>1. box[c] \in Seq(Sent) /\ 1 \in DOMAIN box[c] /\ h = box[c][1]
      BY <2>2, TailElements DEF Types, BoxType, Reads
    <3> QED BY <2>2, <3>1, SentForm DEF Sound, AskedByLower
  <2>4. /\ roster' = [roster EXCEPT ![c] = @ \cup {h.from}] /\ UNCHANGED isOk
        /\ thread' = thread \/ Launch(c)
    BY <1>3 DEF ReceiveElection
  <2>5. /\ roster'[c] = roster[c] \cup {h.from}
        /\ \A e \in Clients \ {c} : roster'[e] = roster[e]
    BY <2>4 DEF Types, ElectionType
  <2>6. Higher(c)' \subseteq Higher(c)
    <3>1. Port[c] \in Nat /\ Port[h.from] \in Nat
      BY <2>3, FailoverAssumption
    <3>2. ~(Port[h.from] > Port[c])
      BY <2>3, <3>1
    <3> QED BY <2>5, <3>2 DEF Higher
  <2>7. /\ Single(c)' /\ Swept(c)' /\ (Declares(c)' <=> Declares(c))
        /\ \A d \in Clients : Told(c, d)' => Told(c, d)
        /\ \A d \in Clients \ {c} : thread'[d] = thread[d]
    <3>1. CASE thread' = thread
      BY <2>1, <2>4, <2>6, <3>1 DEF Sound, Single, Swept, Declares, Told
    <3>2. CASE Launch(c)
      BY <2>1, <2>4, <2>6, <3>2, LaunchKeeps
    <3> QED BY <2>4, <3>1, <3>2
  <2>8. \A e \in Clients \ {c} : Sits(e)
    BY <2>1, <2>2, <2>4, <2>5, <2>7 DEF Sits
  <2>9. h.code # LEADER
    BY <2>2 DEF ELECTION, LEADER
  <2>10. Unaware(c)'
    BY <2>1, <2>2, <2>5, <2>9, ReadUnaware DEF Sound
  <2>11. Declares(c) => ~leaderFound[c]
    BY DEF Sound, Sole, Knows
  <2> QED BY <2>1, <2>2, <2>7, <2>8, <2>9, <2>10, <2>11, ReadKeeps
<1>4. CASE ReceiveLeader(c)
  <2>1. /\ UNCHANGED <<st, best, leaderOf, isOk, thread>> /\ Hears(c, {LEADER})
        /\ leaderFound' = [leaderFound EXCEPT ![c] = TRUE]
        /\ roster' = [roster EXCEPT ![c] = @ \cup {h.from}]
    BY <1>4 DEF ReceiveLeader, recoverVars, clientVars
  <2>2. /\ Reads(c) /\ st[c] = "client" /\ ~Dead(c) /\ h.code = LEADER
        /\ \A e \in Clients \ {c} : box'[e] = box[e]
    BY <1>1, <2>1
  <2>3. leaderFound'[c] /\ \A e \in Clients \ {c} : Sits(e)
    BY <2>1, <2>2 DEF Sits, Types, ElectionType
  <2>4. Unaware(c)' /\ Single(c)' /\ Swept(c)'
    BY <2>3 DEF Unaware, Single, Swept
  <2>5. ~Declares(c)
    <3>1. box[c] \in Seq(Sent) /\ 1 \in DOMAIN box[c] /\ h = box[c][1]
      BY <2>2, TailElements DEF Types, BoxType, Reads
    <3> QED BY <2>2, <3>1 DEF Sound, Sole, Knows, Heralded
  <2>6. ~Declares(c)' /\ \A d \in Clients : Told(c, d)' => Told(c, d)
    BY <2>1, <2>5 DEF Declares, Told
  <2> QED BY <2>1, <2>2, <2>3, <2>4, <2>5, <2>6, ReadKeeps
<1>5. CASE ReceiveRecovery(c) \/ ReceiveClose(c)
  <2>1. /\ UNCHANGED <<st, best, leaderFound, isOk, thread>>
        /\ Hears(c, {RECOVERY, CLOSE_RECOVERY})
    BY <1>5 DEF ReceiveRecovery, ReceiveClose, Hears, recoverVars
  <2>2. /\ Reads(c) /\ st[c] = "client" /\ ~Dead(c) /\ box[c] # <<>>
        /\ h.code \in {RECOVERY, CLOSE_RECOVERY} /\ \A e \in Clients \ {c} : box'[e] = box[e]
    BY <1>1, <2>1
  <2>3. leaderFound[c]
    BY <2>2, FirstHarmless DEF Sound
  <2>4. \A e \in Clients \ {c} : Sits(e)
    <3>1. \A e \in Clients \ {c} : roster'[e] = roster[e] /\ leaderOf'[e] = leaderOf[e]
      BY <1>5 DEF ReceiveRecovery, ReceiveClose, Types, ElectionType, ClientType
    <3> QED BY <2>1, <2>2, <3>1 DEF Sits
  <2>5. Unaware(c)' /\ Single(c)' /\ Swept(c)'
    BY <2>1, <2>3 DEF Unaware, Single, Swept
  <2>6. ~Declares(c) /\ ~Declares(c)' /\ \A d \in Clients : Told(c, d)' => Told(c, d)
    BY <2>1, <2>3 DEF Sound, Sole, Knows, Declares, Told
  <2>7. h.code # LEADER
    BY <2>2 DEF LEADER, RECOVERY, CLOSE_RECOVERY
  <2> QED BY <2>1, <2>2, <2>3, <2>4, <2>5, <2>6, <2>7, ReadKeeps
<1>6. CASE BecomeLeader(c)
  <2>1. /\ st' = [st EXCEPT ![c] = "recovering"] /\ best' = [best EXCEPT ![c] = last[c]]
        /\ box' = [box EXCEPT ![c] = <<>>]
        /\ thread' = [thread EXCEPT ![c] = NoThreads]
        /\ UNCHANGED <<leaderOf, roster, leaderFound, isOk>>
        /\ st[c] = "client" /\ \E t \in Threads : thread[c][t].pc = "quit"
    BY <1>6 DEF BecomeLeader, NewSocket, Dead, clientVars
  <2>2. /\ st'[c] = "recovering" /\ \A t \in Threads : thread'[c][t].pc = "none"
        /\ \A e \in Clients \ {c} : /\ st'[e] = st[e] /\ thread'[e] = thread[e]
                                    /\ best'[e] = best[e] /\ box'[e] = box[e]
    BY <2>1, NoThreadsType, SomeMessages DEF Types, LeaderType, RecoveryType, ElectionType, BoxType
  <2>3. ASSUME NEW e \in Clients PROVE Sound(e)' /\ Remembers(e)
    <3>1. CASE st'[e] = "client"
      <4>1. e # c
        BY <2>2, <3>1
      <4>2. Sits(e) /\ Sound(e)
        BY <2>1, <2>2, <4>1 DEF Sits, Clientwise
      <4> QED BY <3>1, <4>2, SitsSound DEF Sound
    <3> QED BY <3>1, GoneSound
  <2>4. \A w, d \in Clients : Told(w, d)' => Told(w, d)
    BY <2>1, <2>2 DEF Told
  <2>5. \A w \in Clients : Declared(w)' => Declared(w)
    BY <2>1, <2>2 DEF Declared, Declares, Lives
  <2> QED BY <2>3, <2>4, <2>5 DEF Keeps
<1> QED BY <1>2, <1>3, <1>4, <1>5, <1>6 DEF Receiver

------------------------------------------------------------------------------
(* While the first leader lives, and after.                                 *)

\* What cannot happen while the first leader lives.
LEMMA NoElection ==
  ASSUME Types, Calm, st[Leader] = "leading", NEW c \in Clients
  PROVE  /\ ~DetectFailure(c) /\ ~RecoveryStep(c) /\ \A t \in Threads : ~ElectionStep(c, t)
         /\ Receiver(c) => ReceiveMulticast(c)
<1>1. st[c] \in {"client", "gone"}
  BY DEF Calm
<1>2. ~RecoveryStep(c)
  BY <1>1 DEF RecoveryStep, AskMember, HearAnswer, GiveUp, StartThreads
<1>3. st[c] = "client" => HeartbeatsCome(c) /\ \A t \in Threads : thread[c][t].pc = "none"
  BY SomeMessages DEF Calm, HeartbeatsCome
<1>4. ~DetectFailure(c) /\ \A t \in Threads : ~ElectionStep(c, t)
  BY <1>3 DEF ElectionStep, DetectFailure, StartElection, SendElection, WakeUp, TellOthers
<1>5. ASSUME NEW codes, Hears(c, codes)
      PROVE  Head(box[c]).code \notin {ELECTION, LEADER, RECOVERY, CLOSE_RECOVERY}
             /\ Head(box[c]).code \in codes
  <2>1. st[c] = "client" /\ box[c] # <<>> /\ Head(box[c]).code \in codes
    BY <1>5 DEF Hears
  <2>2. 1 \in DOMAIN box[c] /\ Head(box[c]) = box[c][1]
    BY <2>1, TailElements DEF Types, BoxType
  <2> QED BY <2>1, <2>2 DEF Calm
<1>6. ~ReceiveElection(c) /\ ~ReceiveLeader(c) /\ ~ReceiveRecovery(c) /\ ~ReceiveClose(c)
  BY <1>5 DEF ReceiveElection, ReceiveLeader, ReceiveRecovery, ReceiveClose
<1>7. ~BecomeLeader(c)
  BY <1>3 DEF BecomeLeader, Dead
<1> QED BY <1>2, <1>4, <1>6, <1>7 DEF Receiver

\* Only the dead are eliminated by the first leader.
LEMMA EliminatesDead ==
  ASSUME Types, Calm, NEW c \in Clients, Eliminate(Leader, c)
  PROVE  st[c] = "gone"
<1>1. st[Leader] = "leading" /\ ~BeatsFor(c, Leader)
  BY DEF Eliminate
<1> QED BY <1>1 DEF Calm, BeatsFor

\* While the first leader lives, nobody comes to miss it.
LEMMA NextCalm ==
  ASSUME Types, Types', OnlyDeadDeleted, Calm, OnlyLeaves, Next
  PROVE  Calm'
<1> SUFFICES ASSUME st'[Leader] = "leading" PROVE Calm'
  BY DEF Calm
<1>1. st[Leader] = "leading"
  BY SomeMessages DEF OnlyLeaves, Types, LeaderType
<1>2. \A l \in Leaders : st[l] \in {"recovering", "leading"} => l = Leader
  BY <1>1 DEF Calm, Leaders
<1>3. ASSUME UNCHANGED <<st, leaderOf, electionVars, box>>, room'[Leader] = room[Leader] PROVE Calm'
  BY <1>3 DEF Calm, electionVars
<1>4. CASE SenderTop(Leader) \/ LeaderTypes(Leader) \/ HandleChat(Leader) \/ PopMessage(Leader)
  BY <1>3, <1>4 DEF SenderTop, LeaderTypes, HandleChat, PopMessage, clientVars
<1>5. CASE NextRecipient(Leader)
  <2>1. UNCHANGED <<st, leaderOf, electionVars, room>>
    BY <1>5 DEF NextRecipient, clientVars
  <2>2. UNCHANGED box \/ \E c \in Clients : SendClient(c, Multicast(Leader))
    BY <1>5, SomeMessages DEF NextRecipient, Next_, Types, LeaderType
  <2>3. CASE UNCHANGED box
    BY <1>3, <2>1, <2>3
  <2>4. ASSUME NEW c \in Clients, SendClient(c, Multicast(Leader)) PROVE Calm'
    <3> DEFINE x == Multicast(Leader)
    <3>1. x \in Sent /\ x.code \notin {ELECTION, LEADER, RECOVERY, CLOSE_RECOVERY}
      <4>1. con[Leader].pc = "mcast"
        BY <1>5 DEF NextRecipient
      <4>2. con[Leader].msg \in FirstQueueable
        BY <4>1 DEF OnlyDeadDeleted
      <4> QED BY <4>1, <4>2, SomeMessages, MulticastForm, Distinct
          DEF FirstQueueable, Queueable, Sent
    <3>2. \A e \in Clients : box'[e] = box[e] \/ box'[e] = Append(box[e], x)
      BY <2>4 DEF SendClient, Types, BoxType
    <3> HIDE DEF x
    <3>3. ASSUME NEW e \in Clients, st[e] = "client", NEW i \in DOMAIN box'[e]
          PROVE  box'[e][i].code \notin {ELECTION, LEADER, RECOVERY, CLOSE_RECOVERY}
      <4>1. box[e] \in Seq(Sent)
        BY DEF Types, BoxType
      <4>2. \A j \in DOMAIN box[e] :
              box[e][j].code \notin {ELECTION, LEADER, RECOVERY, CLOSE_RECOVERY}
        BY <1>1, <3>3 DEF Calm
      <4>3. CASE box'[e] = box[e]
        BY <4>2, <4>3, <3>3
      <4>4. CASE box'[e] = Append(box[e], x)
        <5>1. i \in DOMAIN box[e] \/ i = Len(box[e]) + 1
          BY <3>1, <3>3, <4>1, <4>4, AppendElements
        <5>2. CASE i \in DOMAIN box[e]
          BY <3>1, <4>1, <4>2, <4>4, <5>2, AppendElements
        <5>3. CASE i = Len(box[e]) + 1
          BY <3>1, <4>1, <4>4, <5>3, AppendElements
        <5> QED BY <5>1, <5>2, <5>3
      <4> QED BY <3>2, <4>3, <4>4
    <3> QED BY <1>1, <2>1, <3>3 DEF Calm, electionVars
  <2> QED BY <2>2, <2>3, <2>4
<1>6. ASSUME NEW d \in Clients, Eliminate(Leader, d) PROVE Calm'
  <2>1. st[d] = "gone" /\ UNCHANGED <<st, leaderOf, electionVars, box>>
    BY <1>6, EliminatesDead DEF Eliminate, clientVars
  <2>2. room'[Leader] = room[Leader] \ {d}
    BY <1>6, SomeMessages DEF Eliminate, Types, LeaderType
  <2> QED BY <1>1, <2>1, <2>2 DEF Calm, electionVars
<1>7. ASSUME NEW p \in Leaders, Crash(p) PROVE Calm'
  <2>1. st'[p] = "gone" /\ \A l \in Leaders \ {p} : st'[l] = st[l]
    BY <1>7 DEF Crash, Types, LeaderType
  <2>2. p # Leader /\ p \in Clients
    BY <2>1 DEF Leaders
  <2>3. room'[Leader] = room[Leader] /\ UNCHANGED leaderOf
    BY <1>7, <2>2, SomeMessages DEF Crash, Types, LeaderType
  <2>4. \A c \in Clients \ {p} : /\ isElection'[c] = isElection[c] /\ leaderFound'[c] = leaderFound[c]
                                 /\ thread'[c] = thread[c] /\ box'[c] = box[c]
    BY <1>7, <2>2 DEF Crash, Types, ElectionType, BoxType
  <2>5. \A c \in Clients : st'[c] = "client" => c # p /\ st[c] = "client"
    BY <2>1, SomeMessages
  <2>6. ASSUME NEW c \in Clients PROVE st'[c] = st[c] \/ st'[c] = "gone"
    BY <2>1, SomeMessages
  <2> QED BY <1>1, <2>3, <2>4, <2>5, <2>6, SMTT(30) DEF Calm
<1>8. ASSUME NEW c \in Clients, SendChat(c) PROVE Calm'
  BY <1>3, <1>8 DEF SendChat
<1>9. ASSUME NEW c \in Clients, ReceiveMulticast(c) PROVE Calm'
  <2>1. UNCHANGED <<st, leaderOf, isElection, leaderFound, thread, room>>
    BY <1>9 DEF ReceiveMulticast, leaderVars
  <2>2. /\ box[c] \in Seq(Sent) /\ box[c] # <<>> /\ st[c] = "client"
        /\ box' = [box EXCEPT ![c] = Tail(box[c])]
    BY <1>9, <2>1, HearsTypes DEF ReceiveMulticast
  <2>3. ASSUME NEW e \in Clients, st[e] = "client", NEW i \in DOMAIN box'[e]
        PROVE  box'[e][i].code \notin {ELECTION, LEADER, RECOVERY, CLOSE_RECOVERY}
    <3>1. \A j \in DOMAIN box[e] :
            box[e][j].code \notin {ELECTION, LEADER, RECOVERY, CLOSE_RECOVERY}
      BY <1>1, <2>3 DEF Calm
    <3>2. CASE e = c
      <4>1. i \in DOMAIN Tail(box[c])
        BY <2>2, <2>3, <3>2 DEF Types, BoxType
      <4>2. box'[e][i] = box[e][i + 1] /\ i + 1 \in DOMAIN box[e]
        BY <2>2, <3>2, <4>1, TailElements DEF Types, BoxType
      <4> QED BY <3>1, <4>2
    <3>3. CASE e # c
      BY <2>2, <2>3, <3>1, <3>3 DEF Types, BoxType
    <3> QED BY <3>2, <3>3
  <2> QED BY <1>1, <2>1, <2>3 DEF Calm
<1>10. ASSUME NEW l \in Leaders,
              \/ SenderTop(l) \/ LeaderTypes(l) \/ LeaderStep(l)
              \/ \E c \in Clients : Eliminate(l, c)
       PROVE  l = Leader
  BY <1>2, <1>10 DEF SenderTop, LeaderTypes, LeaderStep, HandleChat, PopMessage, NextRecipient,
     Eliminate
<1>11. \A c \in Clients : /\ ~DetectFailure(c) /\ ~RecoveryStep(c)
                          /\ \A t \in Threads : ~ElectionStep(c, t)
                          /\ Receiver(c) => ReceiveMulticast(c)
  BY <1>1, NoElection
<1>12. \/ \E l \in Leaders : \/ SenderTop(l) \/ LeaderTypes(l) \/ LeaderStep(l)
                            \/ \E c \in Clients : Eliminate(l, c)
       \/ \E p \in Leaders : Crash(p)
       \/ \E c \in Clients : SendChat(c) \/ ReceiveMulticast(c)
  <2>1. CASE \E l \in Leaders : \/ SenderTop(l) \/ LeaderTypes(l) \/ LeaderStep(l) \/ Crash(l)
                                \/ \E c \in Clients : Eliminate(l, c)
    BY <2>1
  <2>2. CASE \E c \in Clients : \/ DetectFailure(c) \/ RecoveryStep(c) \/ SendChat(c) \/ Receiver(c)
                                \/ \E t \in Threads : ElectionStep(c, t)
    <3>1. PICK c \in Clients : \/ DetectFailure(c) \/ RecoveryStep(c) \/ SendChat(c) \/ Receiver(c)
                              \/ \E t \in Threads : ElectionStep(c, t)
      BY <2>2
    <3>2. SendChat(c) \/ ReceiveMulticast(c)
      BY <1>11, <3>1
    <3> QED BY <3>2
  <2> QED BY <2>1, <2>2 DEF Next
<1>13. ASSUME NEW l \in Leaders, \/ SenderTop(l) \/ LeaderTypes(l) \/ LeaderStep(l)
                                \/ \E c \in Clients : Eliminate(l, c)
       PROVE  Calm'
  <2>1. l = Leader
    BY <1>10, <1>13
  <2>2. \/ SenderTop(Leader) \/ LeaderTypes(Leader) \/ HandleChat(Leader)
        \/ PopMessage(Leader) \/ NextRecipient(Leader)
        \/ \E c \in Clients : Eliminate(Leader, c)
    BY <1>13, <2>1 DEF LeaderStep
  <2> QED BY <1>4, <1>5, <1>6, <2>2
<1> QED BY <1>7, <1>8, <1>9, <1>12, <1>13

\* What the first leader queues as it goes on.
LEMMA NextDeleted ==
  ASSUME Types, OnlyDeadDeleted, Calm, OnlyLeaves, Next
  PROVE  OnlyDeadDeleted'
<1> USE SomeMessages
<1>1. FirstQueueable \subseteq FirstQueueable'
  BY DEF FirstQueueable, OnlyLeaves
<1>2. \A q \in Seq(FirstQueueable) : q \in Seq(FirstQueueable')
  BY <1>1, SeqMonotonic
<1>3. ASSUME UNCHANGED <<queue, con>> PROVE OnlyDeadDeleted'
  BY <1>1, <1>2, <1>3 DEF OnlyDeadDeleted
<1>4. ASSUME NEW l \in Leaders, l # Leader, LeaderStep(l) \/ \E c \in Clients : Eliminate(l, c)
      PROVE  OnlyDeadDeleted'
  <2>1. queue'[Leader] = queue[Leader] /\ con'[Leader] = con[Leader]
    BY <1>4 DEF LeaderStep, HandleChat, PopMessage, NextRecipient, Eliminate, Types, LeaderType
  <2> QED BY <1>1, <1>2, <2>1 DEF OnlyDeadDeleted
<1>5. CASE HandleChat(Leader)
  <2> DEFINE r == Head(requests[Leader])
             t == IF r.from = Leader THEN CHAT + r.mid ELSE CHAT + 1
             m == [type |-> t, from |-> r.from, mid |-> r.mid]
  <2>1. r \in [from : Leaders, mid : Nat]
    <3>1. requests[Leader] \in Seq([from : Leaders, mid : Nat]) /\ requests[Leader] # <<>>
      BY <1>5 DEF HandleChat, Types, LeaderType
    <3> QED BY <3>1, TailElements
  <2>2. m \in FirstQueueable
    BY <2>1 DEF FirstQueueable, Queueable, LineTypes, CHAT, CLOSE_RECOVERY, DELETE
  <2>3. queue' = [queue EXCEPT ![Leader] = PushHeap(@, m)] /\ UNCHANGED con
    BY <1>5 DEF HandleChat
  <2> HIDE DEF m
  <2>4. queue'[Leader] \in Seq(FirstQueueable)
    BY <2>2, <2>3, PushHeapType DEF OnlyDeadDeleted, Types, LeaderType
  <2> QED BY <1>1, <1>2, <2>3, <2>4 DEF OnlyDeadDeleted
<1>6. CASE PopMessage(Leader)
  <2>1. queue[Leader] \in Seq(FirstQueueable) /\ queue[Leader] # <<>>
    BY <1>6 DEF PopMessage, OnlyDeadDeleted
  <2>2. queue[Leader][1] \in FirstQueueable
    BY <2>1, TailElements
  <2>3. queue'[Leader] = PopHeap(queue[Leader]) /\ con'[Leader].msg = queue[Leader][1]
    BY <1>6 DEF PopMessage, Types, LeaderType
  <2>4. queue'[Leader] \in Seq(FirstQueueable)
    BY <2>1, <2>3, PopHeapType
  <2> QED BY <1>1, <1>2, <2>2, <2>3, <2>4 DEF OnlyDeadDeleted
<1>7. CASE NextRecipient(Leader)
  <2>1. /\ queue' = queue /\ con[Leader].pc = "mcast"
        /\ con'[Leader].msg = con[Leader].msg \/ con'[Leader].pc = "pop"
    BY <1>7 DEF NextRecipient, Idle, Types, LeaderType
  <2> QED BY <1>1, <1>2, <2>1 DEF OnlyDeadDeleted
<1>8. ASSUME NEW c \in Clients, Eliminate(Leader, c) PROVE OnlyDeadDeleted'
  <2> DEFINE m == [type |-> DELETE, from |-> c, mid |-> 0]
  <2>1. m \in FirstQueueable
    BY <1>8, EliminatesDead DEF FirstQueueable, Queueable, LineTypes, DELETE, CLOSE_RECOVERY
  <2>2. queue' = [queue EXCEPT ![Leader] = PushHeap(@, m)] /\ UNCHANGED con
    BY <1>8 DEF Eliminate
  <2> HIDE DEF m
  <2>3. queue'[Leader] \in Seq(FirstQueueable)
    BY <2>1, <2>2, PushHeapType DEF OnlyDeadDeleted, Types, LeaderType
  <2> QED BY <1>1, <1>2, <2>2, <2>3 DEF OnlyDeadDeleted
<1>9. ASSUME NEW p \in Leaders, Crash(p) PROVE OnlyDeadDeleted'
  <2>1. CASE p = Leader
    <3>1. queue'[Leader] = <<>> /\ con'[Leader].pc = "pop"
      BY <1>9, <2>1 DEF Crash, Idle, Types, LeaderType
    <3> QED BY <3>1 DEF OnlyDeadDeleted
  <2>2. CASE p # Leader
    <3>1. queue'[Leader] = queue[Leader] /\ con'[Leader] = con[Leader]
      BY <1>9, <2>2 DEF Crash, Types, LeaderType
    <3> QED BY <1>1, <1>2, <3>1 DEF OnlyDeadDeleted
  <2> QED BY <2>1, <2>2
<1>10. ASSUME NEW w \in Clients, StartThreads(w) PROVE OnlyDeadDeleted'
  <2>1. queue'[Leader] = queue[Leader] /\ con'[Leader] = con[Leader]
    BY <1>10 DEF StartThreads, Types, LeaderType
  <2> QED BY <1>1, <1>2, <2>1 DEF OnlyDeadDeleted
<1>11. ASSUME NEW l \in Leaders, SenderTop(l) \/ LeaderTypes(l) PROVE UNCHANGED <<queue, con>>
  BY <1>11 DEF SenderTop, LeaderTypes
<1>12. ASSUME NEW c \in Clients,
              DetectFailure(c) \/ SendChat(c) \/ \E t \in Threads : ElectionStep(c, t)
       PROVE  UNCHANGED <<queue, con>>
  BY <1>12 DEF ElectionStep, DetectFailure, StartElection, SendElection, WakeUp, TellOthers,
     SendChat, leaderVars
<1>13. ASSUME NEW c \in Clients, RecoveryStep(c)
       PROVE  UNCHANGED <<queue, con>> \/ StartThreads(c)
  BY <1>13 DEF RecoveryStep, AskMember, HearAnswer, GiveUp, leaderVars
<1>14. ASSUME NEW c \in Clients, Receiver(c) PROVE UNCHANGED <<queue, con>>
  BY <1>14 DEF Receiver, ReceiveMulticast, ReceiveElection, ReceiveLeader, ReceiveRecovery,
     ReceiveClose, BecomeLeader, leaderVars
<1> QED
  BY <1>3, <1>4, <1>5, <1>6, <1>7, <1>8, <1>9, <1>10, <1>11, <1>12, <1>13, <1>14
  DEF Next, LeaderStep

------------------------------------------------------------------------------
(* The theorems.                                                            *)

\* The group before the crash satisfies the invariant.
LEMMA InitIInv == Init => IInv
<1> SUFFICES ASSUME Init PROVE IInv
  OBVIOUS
<1> USE SomeMessages
<1>1. Types
  BY InitTypes
<1>2. OnlyDeadDeleted
  BY DEF Init, OnlyDeadDeleted, Idle
<1>3. PICK G \in Groups : GroupInit(G)
  BY DEF Init
<1>4. G \subseteq Clients
  BY Newcomers
<1>5. ASSUME NEW c \in Clients
      PROVE  /\ st[c] = IF c \in G THEN "client" ELSE "gone"
             /\ c \in G => roster[c] = G \cup {Leader} /\ c \in room[Leader]
    BY <1>3 DEF GroupInit
<1>6. ASSUME NEW c \in Clients
      PROVE  /\ box[c] = <<>> /\ leaderOf[c] = Leader /\ best[c].seq = 0
             /\ ~leaderFound[c] /\ ~isElection[c]
             /\ \A t \in Threads : thread[c][t].pc = "none"
  BY NoThreadsType DEF Init
<1>7. Calm
  BY <1>5, <1>6 DEF Calm
<1>8. ASSUME NEW c \in Clients PROVE Sound(c)
  BY <1>5, <1>6 DEF Sound, Unaware, Single, Swept, AskedByLower, Sole, Declares
<1>9. ASSUME NEW c \in Clients PROVE ~Declared(c) /\ \A d \in Clients : ~Told(c, d)
  BY <1>5, <1>6 DEF Declared, Declares, Lives, Told
<1> QED BY <1>1, <1>2, <1>7, <1>8, <1>9 DEF IInv, Clientwise, Announced, Heard, OneDeclared

\* Who has raced has raced.
LEMMA NextRaced == Types /\ Next /\ ~raced' => ~raced
<1> SUFFICES ASSUME Types, Next, ~raced' PROVE ~raced
  OBVIOUS
<1>1. ASSUME NEW c \in Clients, Launch(c) PROVE ~raced
  BY <1>1, LaunchForm
<1>2. ASSUME NEW l \in Leaders,
             \/ SenderTop(l) \/ LeaderTypes(l) \/ LeaderStep(l) \/ Crash(l)
             \/ \E c \in Clients : Eliminate(l, c)
      PROVE  raced' = raced
  BY <1>2 DEF SenderTop, LeaderTypes, LeaderStep, HandleChat, PopMessage, NextRecipient, Eliminate,
     Crash, electionVars
<1>3. ASSUME NEW c \in Clients, RecoveryStep(c) \/ SendChat(c) \/ \E t \in Threads : ElectionStep(c, t)
      PROVE  raced' = raced
  BY <1>3 DEF RecoveryStep, AskMember, HearAnswer, GiveUp, StartThreads, SendChat, ElectionStep,
     StartElection, SendElection, WakeUp, TellOthers, electionVars
<1>4. ASSUME NEW c \in Clients, DetectFailure(c) \/ Receiver(c) PROVE raced' = raced \/ Launch(c)
  BY <1>4 DEF DetectFailure, Receiver, ReceiveMulticast, ReceiveElection, ReceiveLeader,
     ReceiveRecovery, ReceiveClose, BecomeLeader
<1> QED BY <1>1, <1>2, <1>3, <1>4 DEF Next

\* Every step preserves what holds as long as nobody has raced.
LEMMA NextTidy ==
  ASSUME Tidy, DistinctPorts, Next, ~raced', OnlyLeaves, Types'
  PROVE  Clientwise' /\ Announced' /\ OneDeclared'
<1> Announced /\ OneDeclared
  BY DEF Tidy
<1>1. ASSUME NEW c \in Clients, NEW t \in Threads, WakeUp(c, t) \/ TellOthers(c, t)
      PROVE  Clientwise' /\ Announced' /\ OneDeclared'
  BY <1>1, WakeUpKeeps, TellOthersKeeps
<1>2. ASSUME \A c \in Clients, t \in Threads : ~WakeUp(c, t) /\ ~TellOthers(c, t)
      PROVE  Clientwise' /\ Announced' /\ OneDeclared'
  <2>1. Keeps
    BY <1>2, LeaderKeeps, CrashKeeps, RecoveryKeeps, SendChatKeeps, DetectFailureKeeps,
       StartElectionKeeps, SendElectionKeeps, ReceiverKeeps
    DEF Next, ElectionStep
  <2> QED BY <2>1, KeepsEnough
<1> QED BY <1>1, <1>2

\* Every step preserves the invariant.
LEMMA NextIInv == IInv /\ [Next]_vars => IInv'
<1>1. ASSUME IInv, Next PROVE IInv'
  <2> Types /\ OnlyDeadDeleted /\ Calm
    BY <1>1 DEF IInv
  <2>1. OnlyLeaves /\ Types'
    BY <1>1, NextOnlyLeaves, NextTypes
  <2>2. OnlyDeadDeleted' /\ Calm'
    BY <1>1, <2>1, NextDeleted, NextCalm
  <2>3. ASSUME ~raced', DistinctPorts PROVE Clientwise' /\ Announced' /\ OneDeclared'
    <3>1. Tidy
      BY <1>1, <2>3, NextRaced DEF IInv, Tidy
    <3> QED BY <1>1, <2>1, <2>3, <3>1, NextTidy
  <2> QED BY <2>1, <2>2, <2>3 DEF IInv, DistinctPorts
<1>2. ASSUME IInv, UNCHANGED vars PROVE IInv'
  <2>1. Types'
    BY <1>2, Kept DEF IInv, vars, Types
  <2>2. UNCHANGED <<st, room, queue, con, best, roster, isElection, leaderFound, isOk, thread,
                    leaderOf, box, raced>>
    BY <1>2 DEF vars, leaderVars, recoverVars, electionVars, clientVars
  <2>3. OnlyDeadDeleted' /\ Calm'
    BY <1>2, <2>2 DEF IInv, OnlyDeadDeleted, FirstQueueable, Calm
  <2>4. ASSUME NEW c \in Clients, Sound(c) PROVE Sound(c)'
    BY <2>2, <2>4 DEF Sound, Unaware, Harmless, Single, Swept, Higher, AskedByLower, Sole, Declares, Knows
  <2>5. Announced => Announced'
    BY <2>2 DEF Announced, Heard, Told, Knows
  <2>6. OneDeclared => OneDeclared'
    BY <2>2 DEF OneDeclared, Declared, Declares, Lives
  <2> QED BY <1>2, <2>1, <2>2, <2>3, <2>4, <2>5, <2>6 DEF IInv, Clientwise, DistinctPorts
<1> QED BY <1>1, <1>2

\* All of the invariant holds throughout.
THEOREM Invariance == Spec => []IInv
<1> QED BY InitIInv, NextIInv, PTL DEF Spec

\* The types of the proof are within the ones that the runs check.
LEMMA TypesOK == Types => TypeOK
<1> SUFFICES ASSUME Types PROVE TypeOK
  OBVIOUS
<1> USE SomeMessages
<1>1. Seen \subseteq Entries /\ Queueable \subseteq Messages /\ Sent \subseteq Datagrams
  <2>1. Lines \subseteq Datagrams
    BY Distinct DEF Lines, Datagrams
  <2>2. Calls \subseteq Datagrams
    BY DEF Calls, Datagrams, ELECTION, LEADER, RECOVERY
  <2> QED BY <2>1, <2>2 DEF Seen, Entries, Sent
<1>2. /\ \A q \in Seq(Queueable) : q \in Seq(Messages)
      /\ \A q \in Seq(Seen) : q \in Seq(Entries)
      /\ \A q \in Seq(Sent) : q \in Seq(Datagrams)
  BY <1>1, SeqMonotonic
<1>3. con \in [Leaders -> [pc : {"pop", "mcast"}, msg : Messages, at : Nat]]
  BY <1>1 DEF Types, LeaderType
<1>4. \A l \in Leaders :
        /\ queue[l] \in Seq(Messages) /\ requests[l] \in Seq([from : Leaders, mid : Nat])
        /\ requests[l] # <<>> => Lives(l)
  BY <1>2 DEF Types, LeaderType
<1>5. best \in [Clients -> Entries] /\ last \in [Clients -> Entries]
  BY <1>1 DEF Types, RecoveryType, ClientType
<1>6. \A c \in Clients :
        /\ answers[c] \in Seq(Entries) /\ (answers[c] # <<>> => Lives(c))
        /\ box[c] \in Seq(Datagrams) /\ (box[c] # <<>> => st[c] = "client")
        /\ shown[c] \in Seq(Entries)
  BY <1>2 DEF Types, RecoveryType, BoxType, ClientType
<1> QED
  BY <1>3, <1>4, <1>5, <1>6, Zenon
  DEF Types, LeaderType, RecoveryType, ElectionType, ClientType, TypeOK

\* TypeOK, for any group: what each process keeps is of its type, nobody but a
\* leader is asked or answered, and a socket that is closed holds nothing.
THEOREM TypeCorrect == Spec => []TypeOK
<1>1. IInv => TypeOK
  BY TypesOK DEF IInv
<1> QED BY <1>1, Invariance, PTL

\* One election has one winner, and nobody who is there has a higher port: as long
\* as nobody races with itself, and if ports differ.
THEOREM ElectsOne == Spec => []OneSuccessor
<1>1. IInv => OneSuccessor
  BY DEF IInv, OneDeclared, OneSuccessor
<1> QED BY <1>1, Invariance, PTL
=============================================================================
