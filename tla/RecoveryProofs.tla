---------------------------- MODULE RecoveryProofs ----------------------------
(****************************************************************************)
(* Why a change of leader leaves the screens in agreement, as long as one   *)
(* client is elected and nothing passes CLOSE_RECOVERY in its queue.        *)
(*                                                                          *)
(* The argument: then only one is ever elected.  A datagram of the first    *)
(* leader comes before the RECOVERY of the second one in every socket, so   *)
(* that a member that answers has shown all it will ever show of the first  *)
(* leader's numbers.  Once all have answered or gone, the best answer is    *)
(* the greatest number there is, CLOSE_RECOVERY repeats it, and every other *)
(* message of the new leader is numbered beyond it.                         *)
(****************************************************************************)
EXTENDS FailoverProofs

------------------------------------------------------------------------------
(* Numbered messages, wherever they are.                                    *)

Entry(d)    == [seq |-> d.seq, msg |-> d.msg]
IsLine(d)   == d.code \notin {ELECTION, LEADER, RECOVERY}
InBox(b)    == {Entry(b[i]) : i \in {j \in DOMAIN b : IsLine(b[j])}}
Held(c)     == IF st[c] = "gone" THEN {}
               ELSE {last[c]} \cup {shown[c][i] : i \in DOMAIN shown[c]} \cup InBox(box[c])
Out(l)      == IF con[l].pc = "mcast" THEN {Entry(Multicast(l))} ELSE {}
Gathered(w) == {best[w]} \cup {answers[w][i] : i \in DOMAIN answers[w]}

\* All that anybody has shown, is sent, sends, or has gathered.
Extant == (UNION {Held(c) : c \in Clients}) \cup (UNION {Out(l) : l \in Leaders})
          \cup (UNION {Gathered(w) : w \in Clients})

\* One number is one message, except that an answer may have lost its message.
Agree == \A e, f \in Extant : e.seq = f.seq /\ e.msg # None /\ f.msg # None => e.msg = f.msg
\* An entry without a message has the empty one.
Plain == \A e \in Extant : e.msg.type = CLOSE_RECOVERY => e.msg = None

\* What a leader is going to number next is beyond all that; but a new leader
\* that has not taken CLOSE_RECOVERY yet will repeat its best answer in it.
Top(l)  == IF l \in Clients /\ ~Opened(l) THEN seqNum[l] + 1 ELSE seqNum[l]
Bounded == \A l \in Leaders : st[l] = "leading" => \A e \in Extant : e.seq <= Top(l)

\* No screen is ahead of what its client answers.
Screened == \A c \in Clients : \A i \in DOMAIN shown[c] : shown[c][i].seq <= last[c].seq

------------------------------------------------------------------------------
(* The new leader.                                                          *)

Elected(w) == best[w].seq > 0

\* There is one, after the first one has gone.
OneElected ==
  \A w \in Clients : Elected(w) =>
    /\ st[w] # "client" /\ st[Leader] = "gone"
    /\ \A v \in Clients : Elected(v) => v = w

\* A queue with one CLOSE_RECOVERY at most, and one without.
OneClose(q) ==
  \A i, j \in DOMAIN q : q[i].type = CLOSE_RECOVERY /\ q[j].type = CLOSE_RECOVERY => i = j
NoClose(q) == \A i \in DOMAIN q : q[i].type # CLOSE_RECOVERY

\* What a new leader has before its recovery is over, and what it has until its
\* consumer takes CLOSE_RECOVERY.
Fresh(w) ==
  /\ st[w] = "client" => asking[w] = [at |-> 0, waits |-> FALSE]
  /\ st[w] \in {"client", "recovering"} => queue[w] = <<>> /\ con[w].pc = "pop"
  /\ st[w] = "leading" /\ ~Opened(w) =>
       OneClose(queue[w]) /\ con[w].pc = "pop" /\ seqNum[w] = best[w].seq - 1

\* Who is elected has nothing that it has not gathered.
Surpassed == \A w \in Clients : Elected(w) => last[w].seq <= best[w].seq

\* Who has been asked and heard, who is being asked, and who is not asked yet.
Done(w, c)  == c < asking[w].at \/ (c = asking[w].at /\ ~asking[w].waits)
Turn(w, c)  == c = asking[w].at /\ asking[w].waits
Later(w, c) == c > asking[w].at

NoLine(b)     == \A i \in DOMAIN b : ~IsLine(b[i])
NoRecovery(b) == \A i \in DOMAIN b : b[i].code # RECOVERY
RecoveryLast(b) ==
  \A i, j \in DOMAIN b : b[i].code = RECOVERY /\ j > i => ~IsLine(b[j])
RecoveryOnce(b) ==
  \A i, j \in DOMAIN b : b[i].code = RECOVERY /\ b[j].code = RECOVERY => i = j

\* How far w is with its members: a member is on the new leader's side when it
\* has read everything of the first one, and then its answer counts.
Collects(w, c) ==
  /\ c \in room[w]
  /\ Done(w, c) => leaderOf[c] = w /\ NoLine(box[c]) /\ last[c].seq <= best[w].seq
  /\ Turn(w, c) => \/ leaderOf[c] = Leader /\ RecoveryLast(box[c]) /\ answers[w] = <<>>
                   \/ leaderOf[c] = w /\ NoLine(box[c]) /\ answers[w] = <<last[c]>>
  /\ Later(w, c) => leaderOf[c] = Leader /\ NoRecovery(box[c])
Recovers(w) ==
  /\ Len(answers[w]) <= (IF asking[w].waits THEN 1 ELSE 0)
  /\ last[w].seq <= best[w].seq
  /\ \A c \in Clients : st[c] = "client" => Collects(w, c)

\* What a client knows of its leader.
Follows(c) ==
  /\ leaderOf[c] # Leader =>
       /\ Elected(leaderOf[c]) /\ NoRecovery(box[c])
       /\ isRecovery[c] \/ isRecoveryDone[c]
  /\ RecoveryOnce(box[c])
  /\ \A i \in DOMAIN box[c] :
       /\ box[c][i].code = RECOVERY => Elected(box[c][i].from)
       /\ box[c][i].code = CLOSE_RECOVERY =>
            /\ leaderOf[c] \in Clients /\ st[leaderOf[c]] \in {"leading", "gone"}
            /\ Entry(box[c][i]) = best[leaderOf[c]]

\* Who has been let go on after a recovery has shown what came out of it.
Resumed(c) ==
  isRecoveryDone[c] =>
    /\ leaderOf[c] \in Clients /\ st[leaderOf[c]] \in {"leading", "gone"}
    /\ Elected(leaderOf[c])
    /\ best[leaderOf[c]].msg # None => last[c].seq >= best[leaderOf[c]].seq

AllFresh   == \A w \in Clients : Fresh(w)
Recovering == \A w \in Clients : st[w] = "recovering" => Recovers(w)
Headed     == \A w, c \in Clients : st[w] = "leading" /\ st[c] = "client" => leaderOf[c] = w
Following  == \A c \in Clients : st[c] = "client" => Follows(c)
Resuming   == \A c \in Clients : Resumed(c)
Silent     == \A l \in Leaders : st[l] = "gone" => con[l].pc = "pop"

Numbers    == Screened /\ Plain /\ Agree /\ Bounded
Succession ==
  /\ OneElected /\ Surpassed /\ AllFresh /\ Recovering /\ Headed /\ Following
  /\ Resuming /\ Silent

\* What holds as long as it goes orderly, and the invariant.
RTidy == Tidy /\ Numbers /\ Succession
RInv  == IInv /\ (Orderly => Numbers /\ Succession)

------------------------------------------------------------------------------
(* Steps that number nothing.                                               *)

\* An entry that is there already, or has only lost its message.
Old(e)  == \E f \in Extant : f.seq = e.seq /\ (e = f \/ e.msg = None)
NoNews  == \A e \in Extant' : Old(e)

\* Numbered messages are what the types say they are.
LEMMA EntriesOf ==
  ASSUME Types, OnlyDeadDeleted
  PROVE  /\ Extant \subseteq Entries
         /\ \A e \in Extant : Old(e)
<1>1. ASSUME NEW c \in Clients, NEW e \in Held(c) PROVE e \in Entries
  <2>1. last[c] \in Entries /\ shown[c] \in Seq(Entries) /\ box[c] \in Seq(Sent)
    BY DEF Types, ClientType, BoxType, Seen, Entries
  <2>2. \A i \in DOMAIN box[c] : IsLine(box[c][i]) => Entry(box[c][i]) \in Entries
    BY <2>1, SentForm DEF IsLine, Entry, Entries
  <2> QED BY <1>1, <2>1, <2>2 DEF Held, InBox
<1>2. ASSUME NEW l \in Leaders, NEW e \in Out(l) PROVE e \in Entries
  <2>1. con[l].pc = "mcast" /\ e = Entry(Multicast(l))
    BY <1>2 DEF Out
  <2>2. Multicast(l) \in Lines
    BY <2>1, MulticastForm
  <2> QED BY <2>1, <2>2 DEF Lines, Entry, Entries
<1>3. ASSUME NEW w \in Clients, NEW e \in Gathered(w) PROVE e \in Entries
  <2>1. best[w] \in Entries /\ answers[w] \in Seq(Seen)
    BY DEF Types, RecoveryType
  <2>2. \A i \in DOMAIN answers[w] : answers[w][i] \in Seen
    BY <2>1
  <2> QED BY <1>3, <2>1, <2>2 DEF Gathered, Seen, Entries
<1>4. Extant \subseteq Entries
  BY <1>1, <1>2, <1>3 DEF Extant
<1> QED BY <1>4 DEF Old

\* A step brings nothing new if it brings nothing new anywhere.
LEMMA NewsParts ==
  ASSUME \A c \in Clients : \A e \in Held(c)' : Old(e),
         \A l \in Leaders : \A e \in Out(l)' : Old(e),
         \A w \in Clients : \A e \in Gathered(w)' : Old(e)
  PROVE  NoNews
BY DEF NoNews, Extant

\* What is extant, place by place.
LEMMA Whereabouts ==
  /\ \A c \in Clients : \A e \in Held(c) : Old(e)
  /\ \A l \in Leaders : \A e \in Out(l) : Old(e)
  /\ \A w \in Clients : \A e \in Gathered(w) : Old(e)
BY DEF Old, Extant

\* What c has shown, or has in its socket, or would answer, is extant.
LEMMA Holdings ==
  ASSUME NEW c \in Clients, st[c] # "gone"
  PROVE  /\ last[c] \in Extant
         /\ \A i \in DOMAIN shown[c] : shown[c][i] \in Extant
         /\ \A i \in DOMAIN box[c] : IsLine(box[c][i]) => Entry(box[c][i]) \in Extant
<1>1. Held(c) \subseteq Extant
  BY DEF Extant
<1>2. /\ last[c] \in Held(c)
      /\ \A i \in DOMAIN shown[c] : shown[c][i] \in Held(c)
      /\ \A i \in DOMAIN box[c] : IsLine(box[c][i]) => Entry(box[c][i]) \in Held(c)
  BY DEF Held, InBox
<1> QED BY <1>1, <1>2

\* A client comes to hold nothing new if what it shows, has in its socket and
\* would answer is old.
LEMMA HeldOld ==
  ASSUME NEW c \in Clients, Old(last[c]'),
         \A i \in DOMAIN shown'[c] : Old(shown'[c][i]),
         \A i \in DOMAIN box'[c] : IsLine(box'[c][i]) => Old(Entry(box'[c][i]))
  PROVE  \A e \in Held(c)' : Old(e)
BY DEF Held, InBox

\* A client whose screen stays and that gets nothing but old news.
Undisturbed(c) ==
  /\ st[c] = "gone" => st'[c] = "gone"
  /\ last'[c] = last[c] /\ shown'[c] = shown[c]
  /\ \/ box'[c] = box[c] \/ box'[c] = <<>>
     \/ box[c] # <<>> /\ box'[c] = Tail(box[c])
     \/ \E x \in Sent : box'[c] = Append(box[c], x) /\ (IsLine(x) => Old(Entry(x)))

\* Such a client holds nothing new.
LEMMA HeldStays ==
  ASSUME Types, NEW c \in Clients, Undisturbed(c)
  PROVE  \A e \in Held(c)' : Old(e)
<1>1. CASE st[c] = "gone"
  BY <1>1 DEF Undisturbed, Held
<1>2. CASE st[c] # "gone"
  <2>1. Old(last[c]') /\ \A i \in DOMAIN shown'[c] : Old(shown'[c][i])
    BY <1>2, Holdings DEF Undisturbed, Old
  <2>2. \A i \in DOMAIN box[c] : IsLine(box[c][i]) => Old(Entry(box[c][i]))
    BY <1>2, Holdings DEF Old
  <2>3. box[c] \in Seq(Sent)
    BY DEF Types, BoxType
  <2>4. CASE box'[c] = box[c] \/ box'[c] = <<>>
    BY <2>1, <2>2, <2>4, HeldOld
  <2>5. CASE box[c] # <<>> /\ box'[c] = Tail(box[c])
    <3>1. \A i \in DOMAIN box'[c] : i + 1 \in DOMAIN box[c] /\ box'[c][i] = box[c][i + 1]
      BY <2>3, <2>5, TailElements
    <3> QED BY <2>1, <2>2, <3>1, HeldOld
  <2>6. ASSUME NEW x \in Sent, box'[c] = Append(box[c], x), IsLine(x) => Old(Entry(x))
        PROVE  \A e \in Held(c)' : Old(e)
    <3>1. \A i \in DOMAIN box'[c] : box'[c][i] = x \/ (i \in DOMAIN box[c] /\ box'[c][i] = box[c][i])
      BY <2>3, <2>6, AppendElements
    <3> QED BY <2>1, <2>2, <2>6, <3>1, HeldOld
  <2> QED BY <2>4, <2>5, <2>6 DEF Undisturbed
<1> QED BY <1>1, <1>2

\* A leader that goes on with its message sends nothing new.
LEMMA OutStays ==
  ASSUME NEW l \in Leaders,
         con'[l].pc = "mcast" =>
           con[l].pc = "mcast" /\ Multicast(l)' = Multicast(l)
  PROVE  \A e \in Out(l)' : Old(e)
BY Whereabouts DEF Out

\* Without news, numbers stay what they are.
LEMMA EmptyKeeps ==
  ASSUME Agree, Plain, \A e \in Extant' : Old(e) \/ e.msg = None
  PROVE  Agree' /\ Plain'
<1>1. Agree'
  BY DEF Agree, Old
<1>2. Plain'
  BY DEF Plain, Old
<1> QED BY <1>1, <1>2

\* So they do when all that is extant is old.
LEMMA NoNewsKeeps ==
  ASSUME Agree, Plain, NoNews
  PROVE  Agree' /\ Plain'
BY EmptyKeeps DEF NoNews

------------------------------------------------------------------------------
(* The leader's steps.                                                      *)

\* One leader at a time, whether it leads or recovers.
LEMMA Alone ==
  ASSUME Tidy, NEW l \in Leaders, st[l] = "leading"
  PROVE  /\ \A w \in Clients : st[w] # "recovering"
         /\ \A m \in Leaders : st[m] = "leading" => m = l
<1> Types /\ Calm /\ OneDeclared
  BY DEF Tidy
<1>1. CASE l = Leader
  BY <1>1 DEF Calm, Leaders
<1>2. CASE l # Leader
  <2>1. l \in Clients /\ Declared(l)
    BY <1>2 DEF Leaders, Declared, Lives
  <2>2. st[Leader] # "leading"
    BY <2>1 DEF Calm
  <2> QED BY <2>1, <2>2 DEF OneDeclared, Declared, Lives, Leaders
<1> QED BY <1>1, <1>2

\* Without news, a leader's next number stays beyond all there are.
LEMMA BoundKept ==
  ASSUME Tidy, Bounded, NoNews,
         \A l \in Leaders : st'[l] = "leading" => st[l] = "leading" /\ Top(l)' = Top(l)
  PROVE  Bounded'
<1> SUFFICES ASSUME NEW l \in Leaders, st'[l] = "leading", NEW e \in Extant'
             PROVE  e.seq <= Top(l)'
  BY DEF Bounded
<1>1. PICK f \in Extant : f.seq = e.seq
  BY DEF NoNews, Old
<1> QED BY <1>1 DEF Bounded

\* What a step leaves alone stays true of the succession.
LEMMA SuccessionStays ==
  ASSUME UNCHANGED <<st, best, leaderOf, isRecoveryDone, last>>,
         OneElected, Surpassed, Headed, Resuming
  PROVE  OneElected' /\ Surpassed' /\ Headed' /\ Resuming'
BY DEF OneElected, Elected, Surpassed, Headed, Resuming, Resumed

\* What a step leaves alone of a new leader stays as it is.
LEMMA FreshStays ==
  ASSUME NEW w \in Clients, Fresh(w), st'[w] = st[w], asking'[w] = asking[w],
         queue'[w] = queue[w], con'[w].pc = con[w].pc, seqNum'[w] = seqNum[w],
         best'[w] = best[w]
  PROVE  Fresh(w)'
BY DEF Fresh, Opened

\* Neither a push of a line nor a pop brings CLOSE_RECOVERY back.
LEMMA NoCloseHeap ==
  ASSUME NEW q \in Seq(Queueable), NoClose(q)
  PROVE  /\ \A m \in Queueable : m.type # CLOSE_RECOVERY => NoClose(PushHeap(q, m))
         /\ q # <<>> => NoClose(PopHeap(q))
<1> DEFINE S == {m \in Queueable : m.type # CLOSE_RECOVERY}
<1>1. q \in Seq(S)
  <2>1. \A i \in 1..Len(q) : q[i] \in S
    BY DEF NoClose
  <2> HIDE DEF S
  <2> QED BY <2>1
<1>2. ASSUME NEW p \in Seq(S) PROVE NoClose(p)
  <2>1. \A i \in DOMAIN p : p[i] \in S
    OBVIOUS
  <2> QED BY <2>1 DEF NoClose
<1> HIDE DEF S
<1>3. ASSUME NEW m \in Queueable, m.type # CLOSE_RECOVERY PROVE NoClose(PushHeap(q, m))
  <2>1. m \in S
    BY <1>3 DEF S
  <2> QED BY <1>1, <1>2, <2>1, PushHeapType
<1>4. ASSUME q # <<>> PROVE NoClose(PopHeap(q))
  BY <1>1, <1>2, <1>4, PopHeapType
<1> QED BY <1>3, <1>4

\* A push leaves all that is in the queue there, once.
LEMMA PushKeeps ==
  ASSUME NEW q \in Seq(Queueable), NEW m \in Queueable, m.type # CLOSE_RECOVERY
  PROVE  /\ OneClose(q) => OneClose(PushHeap(q, m))
         /\ NoClose(PushHeap(q, m)) => NoClose(q)
<1> DEFINE r == PushHeap(q, m)
           a == Append(q, m)
<1>1. /\ \A i \in DOMAIN q : i \in DOMAIN a /\ a[i] = q[i]
      /\ \A i \in DOMAIN a : (i \in DOMAIN q /\ a[i] = q[i]) \/ a[i] = m
  BY AppendElements
<1>2. PICK p \in Bijection(DOMAIN r, DOMAIN a) : \A j \in DOMAIN r : r[j] = a[p[j]]
  <2>1. Shuffles(r, a)
    BY PushShuffles
  <2> QED BY <2>1 DEF Shuffles
<1> HIDE DEF r, a
<1>3. /\ \A i, j \in DOMAIN r : p[i] = p[j] => i = j
      /\ \A i \in DOMAIN r : p[i] \in DOMAIN a
      /\ \A k \in DOMAIN a : \E i \in DOMAIN r : p[i] = k
  BY Fun_BijectionProperties
<1>4. OneClose(q) => OneClose(r)
  BY <1>1, <1>2, <1>3 DEF OneClose
<1>5. NoClose(r) => NoClose(q)
  BY <1>1, <1>2, <1>3 DEF NoClose
<1> QED BY <1>4, <1>5 DEF r

\* The only CLOSE_RECOVERY, at the root, is taken by a pop.
LEMMA PopTakesClose ==
  ASSUME NEW q \in Seq(Queueable), q # <<>>, OneClose(q), q[1].type = CLOSE_RECOVERY
  PROVE  NoClose(PopHeap(q))
<1> DEFINE r == PopHeap(q)
           b == Tail(q)
<1>1. /\ 1 \in DOMAIN q
      /\ \A i \in DOMAIN b : i + 1 \in DOMAIN q /\ b[i] = q[i + 1] /\ i + 1 # 1
  BY TailElements
<1>2. PICK p \in Bijection(DOMAIN r, DOMAIN b) : \A j \in DOMAIN r : r[j] = b[p[j]]
  BY PopShuffles DEF Shuffles
<1> HIDE DEF r, b
<1>3. \A i \in DOMAIN r : p[i] \in DOMAIN b
  BY Fun_BijectionProperties
<1> QED BY <1>1, <1>2, <1>3 DEF OneClose, NoClose, r

\* What a leader's user and its threads leave alone.
LeaderFrame(l) ==
  /\ UNCHANGED <<st, best, asking, answers, leaderOf, isRecoveryDone, last>>
  /\ st[l] = "leading"
  /\ \A m \in Leaders : m # l =>
       queue'[m] = queue[m] /\ con'[m] = con[m] /\ seqNum'[m] = seqNum[m]

\* What has to be shown of a leader's step beside that.
LEMMA LeaderFrameKeeps ==
  ASSUME Tidy, Succession, NEW l \in Leaders, LeaderFrame(l),
         l \in Clients => Fresh(l)',
         Following'
  PROVE  Succession'
<1> st' = st
  BY DEF LeaderFrame
<1>1. OneElected' /\ Surpassed' /\ Headed' /\ Resuming'
  BY SuccessionStays DEF Succession, LeaderFrame
<1>2. AllFresh'
  <2>1. ASSUME NEW w \in Clients, w # l PROVE Fresh(w)'
    BY <2>1, FreshStays, SomeMessages DEF Succession, AllFresh, LeaderFrame
  <2> QED BY <2>1 DEF AllFresh
<1>3. Recovering'
  BY Alone DEF LeaderFrame, Recovering
<1>4. Silent'
  BY DEF LeaderFrame, Silent, Succession
<1> QED BY <1>1, <1>2, <1>3, <1>4 DEF Succession

\* Without a datagram sent, what the clients know stays.
LEMMA FollowingStays ==
  ASSUME Following, UNCHANGED <<st, best, leaderOf, isRecovery, isRecoveryDone, box>>
  PROVE  Following'
BY DEF Following, Follows, Elected

\* A leader's user does nothing that counts until the producer takes it.
LEMMA LeaderTypesSucceeds ==
  ASSUME RTidy, NEW l \in Leaders, SenderTop(l) \/ LeaderTypes(l)
  PROVE  NoNews /\ Bounded' /\ Screened' /\ Succession'
<1> Tidy /\ Numbers /\ Succession /\ Types
  BY DEF RTidy, Tidy
<1>1. /\ UNCHANGED <<st, queue, con, seqNum, recoverVars, clientVars, box>> /\ st[l] = "leading"
  BY DEF SenderTop, LeaderTypes
<1>2. LeaderFrame(l)
  BY <1>1 DEF LeaderFrame, recoverVars, clientVars
<1>3. NoNews
  <2>1. \A m \in Leaders : con'[m].pc = "mcast" => Multicast(m)' = Multicast(m)
    BY <1>1 DEF Multicast, Numbered, recoverVars
  <2>2. \A m \in Leaders : \A e \in Out(m)' : Old(e)
    BY <1>1, <2>1, OutStays
  <2>3. \A c \in Clients : \A e \in Held(c)' : Old(e)
    BY <1>1, Whereabouts DEF Held, clientVars
  <2>4. \A w \in Clients : \A e \in Gathered(w)' : Old(e)
    BY <1>1, Whereabouts DEF Gathered, recoverVars
  <2> QED BY <2>2, <2>3, <2>4, NewsParts
<1>4. Bounded'
  BY <1>1, <1>3, BoundKept DEF Numbers, Top, Opened
<1>5. Screened'
  BY <1>1 DEF Numbers, Screened, clientVars
<1>6. l \in Clients => Fresh(l)'
  BY <1>1, FreshStays DEF Succession, AllFresh, recoverVars
<1>7. Following'
  BY <1>1, FollowingStays DEF Succession, clientVars, recoverVars
<1> QED BY <1>2, <1>3, <1>4, <1>5, <1>6, <1>7, LeaderFrameKeeps

\* The producer and the failure detector push lines only.
LEMMA LeaderPushesSucceeds ==
  ASSUME RTidy, NEW l \in Leaders, HandleChat(l) \/ \E c \in Clients : Eliminate(l, c)
  PROVE  NoNews /\ Bounded' /\ Screened' /\ Succession'
<1> Tidy /\ Numbers /\ Succession /\ Types
  BY DEF RTidy, Tidy
<1>1. UNCHANGED <<st, con, seqNum, recoverVars, clientVars, box>> /\ st[l] = "leading"
  BY DEF HandleChat, Eliminate
<1>2. PICK m \in Queueable : m.type # CLOSE_RECOVERY /\ queue' = [queue EXCEPT ![l] = PushHeap(queue[l], m)]
  <2>1. CASE HandleChat(l)
    <3> DEFINE r == Head(requests[l])
               t == IF r.from = l THEN CHAT + r.mid ELSE CHAT + 1
    <3>1. r \in [from : Leaders, mid : Nat]
      <4>1. requests[l] \in Seq([from : Leaders, mid : Nat]) /\ requests[l] # <<>>
        BY <2>1 DEF HandleChat, Types, LeaderType
      <4> QED BY <4>1, TailElements
    <3>2. [type |-> t, from |-> r.from, mid |-> r.mid] \in Queueable /\ t # CLOSE_RECOVERY
      BY <3>1 DEF Queueable, LineTypes, CHAT, CLOSE_RECOVERY
    <3> QED BY <2>1, <3>2 DEF HandleChat
  <2>2. ASSUME NEW c \in Clients, Eliminate(l, c)
        PROVE  \E m \in Queueable :
                 m.type # CLOSE_RECOVERY /\ queue' = [queue EXCEPT ![l] = PushHeap(queue[l], m)]
    <3>1. [type |-> DELETE, from |-> c, mid |-> 0] \in Queueable /\ DELETE # CLOSE_RECOVERY
      BY SomeMessages, Distinct DEF Queueable, LineTypes
    <3> QED BY <2>2, <3>1 DEF Eliminate
  <2> QED BY <2>1, <2>2
<1>3. \A k \in Leaders : queue'[k] = IF k = l THEN PushHeap(queue[l], m) ELSE queue[k]
  BY <1>2 DEF Types, LeaderType
<1>4. LeaderFrame(l)
  BY <1>1, <1>3 DEF LeaderFrame, recoverVars, clientVars
<1>5. /\ OneClose(queue[l]) => OneClose(queue'[l])
      /\ Opened(l)' => Opened(l)
      /\ Opened(l) => Opened(l)'
  <2>1. queue[l] \in Seq(Queueable)
    BY DEF Types, LeaderType
  <2>2. Opened(l) => Opened(l)'
    BY <1>2, <1>3, <2>1, NoCloseHeap DEF Opened, NoClose
  <2>3. Opened(l)' => Opened(l)
    <3>1. Opened(l)' => NoClose(queue'[l])
      BY DEF Opened, NoClose
    <3>2. NoClose(queue[l]) => Opened(l)
      BY DEF Opened, NoClose
    <3>3. NoClose(PushHeap(queue[l], m)) => NoClose(queue[l])
      BY <1>2, <2>1, PushKeeps
    <3> QED BY <1>3, <3>1, <3>2, <3>3
  <2>4. OneClose(queue[l]) => OneClose(queue'[l])
    BY <1>2, <1>3, <2>1, PushKeeps
  <2> QED BY <2>2, <2>3, <2>4
<1>6. NoNews
  <2>1. \A k \in Leaders : con'[k].pc = "mcast" => Multicast(k)' = Multicast(k)
    BY <1>1 DEF Multicast, Numbered, recoverVars
  <2>2. \A k \in Leaders : \A e \in Out(k)' : Old(e)
    BY <1>1, <2>1, OutStays
  <2>3. \A c \in Clients : \A e \in Held(c)' : Old(e)
    BY <1>1, Whereabouts DEF Held, clientVars
  <2>4. \A w \in Clients : \A e \in Gathered(w)' : Old(e)
    BY <1>1, Whereabouts DEF Gathered, recoverVars
  <2> QED BY <2>2, <2>3, <2>4, NewsParts
<1>7. Bounded'
  <2>1. \A k \in Leaders : k # l => Top(k)' = Top(k)
    BY <1>1, <1>3 DEF Top, Opened
  <2>2. Top(l)' = Top(l)
    BY <1>1, <1>5 DEF Top
  <2> QED BY <1>1, <1>6, <2>1, <2>2, BoundKept DEF Numbers
<1>8. Screened'
  BY <1>1 DEF Numbers, Screened, clientVars
<1>9. Following'
  BY <1>1, FollowingStays DEF Succession, clientVars, recoverVars
<1>10. l \in Clients => Fresh(l)'
  BY <1>1, <1>5 DEF Succession, AllFresh, Fresh, recoverVars
<1> QED BY <1>4, <1>6, <1>7, <1>8, <1>9, <1>10, LeaderFrameKeeps

\* The consumer takes CLOSE_RECOVERY first, which repeats the best answer, and
\* gives every other message a number that there is not.
LEMMA PopMessageSucceeds ==
  ASSUME RTidy, NEW l \in Leaders, PopMessage(l), ~overtaken'
  PROVE  Numbers' /\ Succession'
<1> Tidy /\ Numbers /\ Succession /\ Types /\ OnlyDeadDeleted
  BY DEF RTidy, Tidy
<1> DEFINE m == queue[l][1]
           n == seqNum[l] + 1
<1>1. /\ st[l] = "leading" /\ con[l].pc = "pop" /\ queue[l] # <<>>
      /\ queue' = [queue EXCEPT ![l] = PopHeap(queue[l])]
      /\ seqNum' = [seqNum EXCEPT ![l] = n]
      /\ con' = [con EXCEPT ![l] = [pc |-> "mcast", msg |-> m, at |-> 0]]
      /\ UNCHANGED <<st, best, asking, answers, clientVars, box>>
      /\ m.type # CLOSE_RECOVERY => Opened(l)
  BY DEF PopMessage
<1>2. \A k \in Leaders : k # l =>
        queue'[k] = queue[k] /\ con'[k] = con[k] /\ seqNum'[k] = seqNum[k]
  BY <1>1 DEF Types, LeaderType
<1>3. LeaderFrame(l)
  BY <1>1, <1>2 DEF LeaderFrame, clientVars
<1>4. /\ queue'[l] = PopHeap(queue[l]) /\ seqNum'[l] = n /\ seqNum[l] \in Nat
      /\ con'[l] = [pc |-> "mcast", msg |-> m, at |-> 0] /\ queue[l] \in Seq(Queueable)
      /\ m \in Queueable /\ 1 \in DOMAIN queue[l]
  BY <1>1 DEF Types, LeaderType
<1>5. l \in Clients => Opened(l)'
  <2>1. CASE Opened(l)
    <3>1. NoClose(queue'[l])
      BY <1>1, <1>4, <2>1, NoCloseHeap DEF Opened, NoClose
    <3> QED BY <3>1 DEF Opened, NoClose
  <2>2. ASSUME l \in Clients, ~Opened(l) PROVE Opened(l)'
    <3>1. OneClose(queue[l])
      BY <1>1, <2>2 DEF Succession, AllFresh, Fresh
    <3>2. NoClose(queue'[l])
      BY <1>1, <1>4, <2>2, <3>1, PopTakesClose
    <3> QED BY <3>2 DEF Opened, NoClose
  <2> QED BY <2>1, <2>2
<1>6. Following'
  BY <1>1, FollowingStays DEF Succession, clientVars
<1>7. Succession'
  <2>1. l \in Clients => Fresh(l)'
    BY <1>1, <1>5 DEF Fresh
  <2> QED BY <1>3, <1>6, <2>1, LeaderFrameKeeps
<1>8. Screened'
  BY <1>1 DEF Numbers, Screened, clientVars
<1>9. ASSUME NEW k \in Leaders, k # l, NEW e \in Out(k)' PROVE Old(e)
  <2>1. Multicast(k)' = Multicast(k)
    BY <1>1, <1>2, <1>9 DEF Multicast, Numbered
  <2> QED BY <1>2, <1>9, <2>1, OutStays
<1>10. ASSUME NEW c \in Clients, NEW e \in Held(c)' PROVE Old(e)
  BY <1>1, <1>10, Whereabouts DEF Held, clientVars
<1>11. ASSUME NEW w \in Clients, NEW e \in Gathered(w)' PROVE Old(e)
  BY <1>1, <1>11, Whereabouts DEF Gathered
<1>12. CASE m.type = CLOSE_RECOVERY
  <2>1. l # Leader
    <3>1. queue[Leader] \in Seq(FirstQueueable)
      BY DEF OnlyDeadDeleted
    <3>2. l = Leader => m \in FirstQueueable
      BY <1>1, <3>1
    <3> QED BY <1>12, <3>2 DEF FirstQueueable
  <2>2. l \in Clients /\ ~Opened(l)
    BY <1>4, <1>12, <2>1 DEF Leaders, Opened
  <2>3. Multicast(l)' = Numbered(CLOSE_RECOVERY, best[l].seq, best[l].msg)
    BY <1>1, <1>4, <1>12 DEF Multicast
  <2>4. Entry(Multicast(l)') = best[l]
    BY <2>2, <2>3 DEF Entry, Numbered, Types, RecoveryType, Entries
  <2>5. Old(best[l])
    BY <2>2, Whereabouts DEF Gathered
  <2>6. \A e \in Out(l)' : Old(e)
    BY <2>4, <2>5 DEF Out
  <2>7. NoNews
    BY <1>9, <1>10, <1>11, <2>6, NewsParts
  <2>8. Top(l)' = Top(l)
    BY <1>4, <1>5, <2>2 DEF Top
  <2>9. \A k \in Leaders : k # l => Top(k)' = Top(k)
    BY <1>2 DEF Top, Opened
  <2>10. Bounded'
    BY <1>1, <2>7, <2>8, <2>9, BoundKept DEF Numbers
  <2> QED BY <1>7, <1>8, <2>7, <2>10, NoNewsKeeps DEF Numbers
<1>13. CASE m.type # CLOSE_RECOVERY
  <2> DEFINE x == [seq |-> n, msg |-> m]
  <2>1. Entry(Multicast(l)') = x
    BY <1>4, <1>13 DEF Multicast, Numbered, Entry
  <2>2. ASSUME NEW e \in Extant' PROVE Old(e) \/ e = x
    <3>1. \A y \in Out(l)' : y = x
      BY <2>1 DEF Out
    <3> QED BY <1>9, <1>10, <1>11, <2>2, <3>1 DEF Extant
  <2>3. Top(l) = seqNum[l]
    <3>1. Opened(l)
      BY <1>1, <1>13
    <3> QED BY <3>1 DEF Top
  <2>4. \A e \in Extant : e.seq <= seqNum[l] /\ e.seq \in Nat
    BY <1>1, <2>3, EntriesOf DEF Numbers, Bounded, Entries
  <2>5. ASSUME NEW e \in Extant', e # x PROVE e.seq < n
    BY <1>4, <2>2, <2>4, <2>5 DEF Old
  <2>6. Agree'
    <3> SUFFICES ASSUME NEW e \in Extant', NEW f \in Extant', e.seq = f.seq, e.msg # None,
                        f.msg # None
                 PROVE  e.msg = f.msg
      BY DEF Agree
    <3>1. CASE e = x \/ f = x
      <4>1. x.seq = n
        OBVIOUS
      <4>2. e = x /\ f = x
        BY <1>4, <2>5, <3>1, <4>1
      <4> QED BY <4>2
    <3>2. CASE e # x /\ f # x
      <4>1. Old(e) /\ Old(f)
        BY <2>2, <3>2
      <4> QED BY <4>1 DEF Old, Numbers, Agree
    <3> QED BY <3>1, <3>2
  <2>7. Plain'
    <3> SUFFICES ASSUME NEW e \in Extant', e.msg.type = CLOSE_RECOVERY PROVE e.msg = None
      BY DEF Plain
    <3>1. e # x
      BY <1>13
    <3>2. Old(e)
      BY <2>2, <3>1
    <3> QED BY <3>2 DEF Old, Numbers, Plain
  <2>8. Bounded'
    <3> SUFFICES ASSUME NEW k \in Leaders, st'[k] = "leading", NEW e \in Extant'
                 PROVE  e.seq <= Top(k)'
      BY DEF Bounded
    <3>1. k = l
      BY <1>1, Alone
    <3>2. Top(l)' = n
      BY <1>4, <1>5 DEF Top
    <3>3. e.seq <= n
      <4>1. x.seq = n /\ n \in Nat
        BY <1>4
      <4>2. e # x => e.seq \in Nat /\ e.seq < n
        BY <2>2, <2>4, <2>5 DEF Old
      <4> QED BY <4>1, <4>2
    <3> QED BY <3>1, <3>2, <3>3
  <2> QED BY <1>7, <1>8, <2>6, <2>7, <2>8 DEF Numbers
<1> QED BY <1>12, <1>13

\* A multicast sends what is extant already; a member that gets CLOSE_RECOVERY
\* follows the one that sends it.
LEMMA NextRecipientSucceeds ==
  ASSUME RTidy, NEW l \in Leaders, NextRecipient(l)
  PROVE  NoNews /\ Bounded' /\ Screened' /\ Succession'
<1> Tidy /\ Numbers /\ Succession /\ Types /\ OnlyDeadDeleted
  BY DEF RTidy, Tidy
<1> DEFINE d == Multicast(l)
<1>1. /\ st[l] = "leading" /\ con[l].pc = "mcast"
      /\ UNCHANGED <<st, queue, seqNum, recoverVars, clientVars>>
  BY DEF NextRecipient
<1>2. con' = [con EXCEPT ![l] = Idle] \/ \E c \in Clients : con' = [con EXCEPT ![l].at = c]
  <2>1. Next_(room[l], con[l].at) \subseteq Clients
    BY DEF Next_, Types, LeaderType
  <2> QED BY <2>1 DEF NextRecipient
<1>3. /\ \A k \in Leaders : k # l => con'[k] = con[k]
      /\ con'[l].pc = "mcast" => con'[l].msg = con[l].msg
  BY <1>2 DEF Types, LeaderType, Idle
<1>4. LeaderFrame(l)
  BY <1>1, <1>3 DEF LeaderFrame, recoverVars, clientVars
<1>5. d \in Lines /\ d \in Sent /\ IsLine(d) /\ Old(Entry(d))
  <2>1. d \in Lines
    BY <1>1, MulticastForm
  <2>2. IsLine(d)
    BY <2>1, Distinct DEF IsLine, Lines, CLOSE_RECOVERY, ELECTION, LEADER, RECOVERY
  <2>3. Entry(d) \in Out(l)
    BY <1>1 DEF Out
  <2> QED BY <2>1, <2>2, <2>3, Whereabouts DEF Sent
<1>6. ASSUME NEW c \in Clients
      PROVE  box'[c] = box[c] \/ (st[c] = "client" /\ box'[c] = Append(box[c], d))
  <2>1. box' = box \/ \E k \in Clients : SendClient(k, d)
    <3>1. Next_(room[l], con[l].at) \subseteq Clients
      BY DEF Next_, Types, LeaderType
    <3> QED BY <3>1 DEF NextRecipient
  <2>2. box \in [Clients -> Seq(Sent)]
    BY DEF Types, BoxType
  <2> QED BY <2>1, <2>2 DEF SendClient
<1>7. NoNews
  <2>1. \A k \in Leaders : con'[k].pc = "mcast" => con[k].pc = "mcast" /\ Multicast(k)' = Multicast(k)
    BY <1>1, <1>3 DEF Multicast, Numbered, recoverVars
  <2>2. \A k \in Leaders : \A e \in Out(k)' : Old(e)
    BY <2>1, OutStays
  <2>3. \A c \in Clients : Undisturbed(c)
    BY <1>1, <1>5, <1>6 DEF Undisturbed, clientVars
  <2>4. \A c \in Clients : \A e \in Held(c)' : Old(e)
    BY <2>3, HeldStays
  <2>5. \A w \in Clients : \A e \in Gathered(w)' : Old(e)
    BY <1>1, Whereabouts DEF Gathered, recoverVars
  <2> QED BY <2>2, <2>4, <2>5, NewsParts
<1>8. Bounded'
  BY <1>1, <1>7, BoundKept DEF Numbers, Top, Opened
<1>9. Screened'
  BY <1>1 DEF Numbers, Screened, clientVars
<1>10. l \in Clients => Fresh(l)'
  BY <1>1 DEF Succession, AllFresh, Fresh, Opened
<1>11. ASSUME NEW c \in Clients, st[c] = "client" PROVE Follows(c)'
  <2>1. Follows(c) /\ box[c] \in Seq(Sent)
    BY <1>11 DEF Succession, Following, Types, BoxType
  <2>2. d.code # RECOVERY
    BY <1>5 DEF IsLine
  <2>3. d.code = CLOSE_RECOVERY => l \in Clients /\ leaderOf[c] = l /\ Entry(d) = best[l]
    <3> SUFFICES ASSUME d.code = CLOSE_RECOVERY
                 PROVE  l \in Clients /\ leaderOf[c] = l /\ Entry(d) = best[l]
      OBVIOUS
    <3>1. con[l].msg.type = CLOSE_RECOVERY
      BY <1>1, MulticastForm
    <3>2. l \in Clients
      BY <1>1, <3>1 DEF OnlyDeadDeleted, FirstQueueable, Leaders
    <3>3. Entry(d) = best[l]
      BY <3>1, <3>2 DEF Multicast, Numbered, Entry, Types, RecoveryType, Entries
    <3> QED BY <1>1, <1>11, <3>2, <3>3 DEF Succession, Headed
  <2>4. CASE box'[c] = box[c]
    BY <1>1, <2>1, <2>4 DEF Follows, Elected, clientVars, recoverVars
  <2>5. CASE box'[c] = Append(box[c], d)
    <3>1. /\ \A i \in DOMAIN box[c] : box'[c][i] = box[c][i]
          /\ box'[c][Len(box[c]) + 1] = d
          /\ DOMAIN box'[c] = DOMAIN box[c] \cup {Len(box[c]) + 1}
      BY <1>5, <2>1, <2>5, AppendElements
    <3>2. NoRecovery(box[c]) => NoRecovery(box'[c])
      BY <2>2, <3>1 DEF NoRecovery
    <3>3. RecoveryOnce(box'[c])
      BY <2>1, <2>2, <3>1 DEF Follows, RecoveryOnce
    <3> QED BY <1>1, <2>1, <2>2, <2>3, <3>1, <3>2, <3>3
        DEF Follows, Elected, clientVars, recoverVars
  <2> QED BY <1>6, <2>4, <2>5
<1>12. Following'
  BY <1>1, <1>11 DEF Following
<1> QED BY <1>4, <1>7, <1>8, <1>9, <1>10, <1>12, LeaderFrameKeeps

------------------------------------------------------------------------------
(* Datagrams in a socket that are no lines, and what is left of it.         *)

\* A call appended to a socket brings no line, and no RECOVERY but its own.
LEMMA SentOther ==
  ASSUME NEW b \in Seq(Sent), NEW x \in Sent, ~IsLine(x)
  PROVE  /\ NoLine(b) => NoLine(Append(b, x))
         /\ RecoveryLast(b) => RecoveryLast(Append(b, x))
         /\ x.code # RECOVERY =>
              /\ NoRecovery(b) => NoRecovery(Append(b, x))
              /\ RecoveryOnce(b) => RecoveryOnce(Append(b, x))
         /\ NoRecovery(b) => RecoveryOnce(Append(b, x))
<1> DEFINE n == Len(b) + 1
           a == Append(b, x)
<1>1. /\ DOMAIN a = DOMAIN b \cup {n} /\ n \in Nat /\ DOMAIN b = 1..Len(b) /\ a[n] = x
      /\ \A i \in DOMAIN b : a[i] = b[i] /\ i < n
  BY AppendElements
<1> HIDE DEF a, n
<1>2. /\ NoLine(b) => NoLine(a)
      /\ NoRecovery(b) /\ x.code # RECOVERY => NoRecovery(a)
  BY <1>1 DEF NoLine, NoRecovery
<1>3. RecoveryLast(b) => RecoveryLast(a)
  BY <1>1 DEF RecoveryLast
<1>4. /\ RecoveryOnce(b) /\ x.code # RECOVERY => RecoveryOnce(a)
      /\ NoRecovery(b) => RecoveryOnce(a)
  BY <1>1 DEF RecoveryOnce, NoRecovery
<1> QED BY <1>2, <1>3, <1>4 DEF a

\* A socket that has no RECOVERY trivially has nothing after it.
LEMMA NoneLast ==
  ASSUME NEW b, NoRecovery(b)
  PROVE  RecoveryLast(b) /\ RecoveryOnce(b)
BY DEF NoRecovery, RecoveryLast, RecoveryOnce

\* Whoever reads RECOVERY has read all lines that came before it.
LEMMA ReadOther ==
  ASSUME NEW b \in Seq(Sent), b # <<>>
  PROVE  /\ NoLine(b) => NoLine(Tail(b)) /\ ~IsLine(Head(b))
         /\ NoRecovery(b) => NoRecovery(Tail(b)) /\ Head(b).code # RECOVERY
         /\ RecoveryLast(b) => RecoveryLast(Tail(b))
         /\ RecoveryOnce(b) => RecoveryOnce(Tail(b))
         /\ RecoveryLast(b) /\ Head(b).code = RECOVERY => NoLine(Tail(b))
         /\ RecoveryOnce(b) /\ Head(b).code = RECOVERY => NoRecovery(Tail(b))
<1> DEFINE a == Tail(b)
<1>1. /\ \A i \in DOMAIN a : i \in Nat \ {0} /\ i + 1 \in DOMAIN b /\ a[i] = b[i + 1] /\ i + 1 > 1
      /\ 1 \in DOMAIN b /\ Head(b) = b[1]
  BY TailElements
<1> HIDE DEF a
<1>2. /\ NoLine(b) => NoLine(a) /\ ~IsLine(Head(b))
      /\ NoRecovery(b) => NoRecovery(a) /\ Head(b).code # RECOVERY
  BY <1>1 DEF NoLine, NoRecovery
<1>3. RecoveryLast(b) => RecoveryLast(a)
  BY <1>1 DEF RecoveryLast
<1>4. RecoveryOnce(b) => RecoveryOnce(a)
  <2>1. \A i, j \in DOMAIN a : i + 1 = j + 1 => i = j
    BY <1>1
  <2> QED BY <1>1, <2>1 DEF RecoveryOnce
<1>5. RecoveryLast(b) /\ Head(b).code = RECOVERY => NoLine(a)
  BY <1>1 DEF RecoveryLast, NoLine
<1>6. RecoveryOnce(b) /\ Head(b).code = RECOVERY => NoRecovery(a)
  BY <1>1 DEF RecoveryOnce, NoRecovery
<1> QED BY <1>2, <1>3, <1>4, <1>5, <1>6 DEF a

\* c gets at most a call that is no RECOVERY, and reads none.
Overhears(c) ==
  /\ leaderOf'[c] = leaderOf[c] /\ last'[c] = last[c]
  /\ isRecovery'[c] = isRecovery[c] /\ isRecoveryDone'[c] = isRecoveryDone[c]
  /\ \/ box'[c] = box[c]
     \/ \E x \in Sent : ~IsLine(x) /\ x.code # RECOVERY /\ box'[c] = Append(box[c], x)

\* Such a client goes on to follow its leader, and to be collected by it.
LEMMA OverhearsFollows ==
  ASSUME Types, NEW c \in Clients, st[c] = "client", Overhears(c), Follows(c),
         UNCHANGED best,
         \A w \in Clients : st[w] \in {"leading", "gone"} => st'[w] \in {"leading", "gone"}
  PROVE  Follows(c)'
<1>1. box[c] \in Seq(Sent)
  BY DEF Types, BoxType
<1>2. CASE box'[c] = box[c]
  BY <1>2 DEF Follows, Overhears, Elected
<1>3. ASSUME NEW x \in Sent, ~IsLine(x), x.code # RECOVERY, box'[c] = Append(box[c], x)
      PROVE  Follows(c)'
  <2>1. /\ \A i \in DOMAIN box[c] : box'[c][i] = box[c][i]
        /\ box'[c][Len(box[c]) + 1] = x
        /\ DOMAIN box'[c] = DOMAIN box[c] \cup {Len(box[c]) + 1}
    BY <1>1, <1>3, AppendElements
  <2>2. /\ NoRecovery(box[c]) => NoRecovery(box'[c])
        /\ RecoveryOnce(box'[c])
    BY <1>1, <1>3, SentOther DEF Follows
  <2>3. x.code # CLOSE_RECOVERY
    BY <1>3, Distinct DEF IsLine, CLOSE_RECOVERY, ELECTION, LEADER, RECOVERY
  <2> QED BY <1>3, <2>1, <2>2, <2>3 DEF Follows, Overhears, Elected
<1> QED BY <1>2, <1>3 DEF Overhears

\* What w has collected of it stays collected.
LEMMA OverhearsCollects ==
  ASSUME Types, NEW c \in Clients, Overhears(c), NEW w \in Clients, Collects(w, c),
         best'[w] = best[w], asking'[w] = asking[w], answers'[w] = answers[w],
         room'[w] = room[w]
  PROVE  Collects(w, c)'
<1>1. box[c] \in Seq(Sent)
  BY DEF Types, BoxType
<1>2. /\ NoLine(box[c]) => NoLine(box'[c])
      /\ NoRecovery(box[c]) => NoRecovery(box'[c])
      /\ RecoveryLast(box[c]) => RecoveryLast(box'[c])
  BY <1>1, SentOther DEF Overhears
<1> QED BY <1>2 DEF Overhears, Collects, Done, Turn, Later

------------------------------------------------------------------------------
(* Clients' steps that show nothing.                                        *)

\* Nobody says anything to a leader that is not the first one.
LEMMA SendChatSucceeds ==
  ASSUME RTidy, NEW c \in Clients, SendChat(c)
  PROVE  NoNews /\ Bounded' /\ Screened' /\ Succession'
<1> Tidy /\ Numbers /\ Succession /\ Types
  BY DEF RTidy, Tidy
<1>1. /\ st[c] = "client" /\ ~isRecovery[c] /\ ~isRecoveryDone[c] /\ Lives(leaderOf[c])
      /\ UNCHANGED <<st, queue, con, seqNum, recoverVars, leaderOf, isRecovery,
                     isRecoveryDone, last, shown, box>>
  BY DEF SendChat
<1>2. leaderOf[c] = Leader
  BY <1>1 DEF Succession, Following, Follows
<1>3. st[Leader] = "leading"
  BY <1>1, <1>2 DEF Lives, Types, LeaderType
<1>4. LeaderFrame(Leader)
  BY <1>1, <1>3 DEF LeaderFrame, recoverVars
<1>5. NoNews
  <2>1. \A m \in Leaders : con'[m].pc = "mcast" => Multicast(m)' = Multicast(m)
    BY <1>1 DEF Multicast, Numbered, recoverVars
  <2>2. \A m \in Leaders : \A e \in Out(m)' : Old(e)
    BY <1>1, <2>1, OutStays
  <2>3. \A d \in Clients : \A e \in Held(d)' : Old(e)
    BY <1>1, Whereabouts DEF Held
  <2>4. \A w \in Clients : \A e \in Gathered(w)' : Old(e)
    BY <1>1, Whereabouts DEF Gathered, recoverVars
  <2> QED BY <2>2, <2>3, <2>4, NewsParts
<1>6. Bounded'
  BY <1>1, <1>5, BoundKept DEF Numbers, Top, Opened
<1>7. Screened'
  BY <1>1 DEF Numbers, Screened
<1>8. Following'
  BY <1>1, FollowingStays DEF Succession, recoverVars
<1> QED BY <1>4, <1>5, <1>6, <1>7, <1>8, SomeMessages, LeaderFrameKeeps

\* Elections are about nothing that is numbered.
LEMMA ElectionSucceeds ==
  ASSUME RTidy, NEW c \in Clients, DetectFailure(c) \/ \E t \in Threads : ElectionStep(c, t)
  PROVE  NoNews /\ Bounded' /\ Screened' /\ Succession'
<1> Tidy /\ Numbers /\ Succession /\ Types
  BY DEF RTidy, Tidy
<1>1. UNCHANGED <<st, leaderVars, recoverVars, clientVars>>
  BY DEF ElectionStep, DetectFailure, StartElection, SendElection, WakeUp, TellOthers
<1>2. box' = box \/ \E d \in Clients, x \in Sent :
                      ~IsLine(x) /\ x.code # RECOVERY /\ SendClient(d, x)
  <2>1. CASE DetectFailure(c)
    BY <2>1 DEF DetectFailure
  <2>2. ASSUME NEW t \in Threads, StartElection(c, t) \/ WakeUp(c, t) PROVE box' = box
    BY <2>2 DEF StartElection, WakeUp
  <2>3. ASSUME NEW t \in Threads, SendElection(c, t)
        PROVE  box' = box \/ \E d \in Clients, x \in Sent :
                                ~IsLine(x) /\ x.code # RECOVERY /\ SendClient(d, x)
    <3>1. Next_(Higher(c), thread[c][t].at) \subseteq Clients
      BY DEF Next_, Higher
    <3>2. From(ELECTION, c) \in Sent /\ ~IsLine(From(ELECTION, c)) /\ From(ELECTION, c).code # RECOVERY
      BY DEF From, Sent, Calls, IsLine, ELECTION, RECOVERY
    <3> QED BY <2>3, <3>1, <3>2 DEF SendElection, SendElectionTo
  <2>4. ASSUME NEW t \in Threads, TellOthers(c, t)
        PROVE  box' = box \/ \E d \in Clients, x \in Sent :
                                ~IsLine(x) /\ x.code # RECOVERY /\ SendClient(d, x)
    <3>1. Next_((roster[c] \cap Clients) \ {c}, thread[c][t].at) \subseteq Clients
      BY DEF Next_
    <3>2. From(LEADER, c) \in Sent /\ ~IsLine(From(LEADER, c)) /\ From(LEADER, c).code # RECOVERY
      BY DEF From, Sent, Calls, IsLine, LEADER, RECOVERY
    <3> QED BY <2>4, <3>1, <3>2 DEF TellOthers
  <2> QED BY <2>1, <2>2, <2>3, <2>4 DEF ElectionStep
<1>3. \A d \in Clients : Overhears(d)
  BY <1>1, <1>2 DEF Overhears, SendClient, clientVars, Types, BoxType
<1>4. NoNews
  <2>1. \A m \in Leaders : con'[m].pc = "mcast" => con[m].pc = "mcast" /\ Multicast(m)' = Multicast(m)
    BY <1>1 DEF Multicast, Numbered, recoverVars, leaderVars
  <2>2. \A m \in Leaders : \A e \in Out(m)' : Old(e)
    BY <2>1, OutStays
  <2>3. \A d \in Clients : Undisturbed(d)
    BY <1>1, <1>3 DEF Undisturbed, Overhears, clientVars
  <2>4. \A d \in Clients : \A e \in Held(d)' : Old(e)
    BY <2>3, HeldStays
  <2>5. \A w \in Clients : \A e \in Gathered(w)' : Old(e)
    BY <1>1, Whereabouts DEF Gathered, recoverVars
  <2> QED BY <2>2, <2>4, <2>5, NewsParts
<1>5. Bounded'
  BY <1>1, <1>4, BoundKept DEF Numbers, Top, Opened, leaderVars
<1>6. Screened'
  BY <1>1 DEF Numbers, Screened, clientVars
<1>7. OneElected' /\ Surpassed' /\ Headed' /\ Resuming'
  BY <1>1, SuccessionStays DEF Succession, recoverVars, clientVars
<1>8. AllFresh' /\ Silent'
  BY <1>1, FreshStays DEF Succession, AllFresh, Silent, leaderVars, recoverVars
<1>9. Following'
  <2>1. ASSUME NEW d \in Clients, st'[d] = "client" PROVE Follows(d)'
    <3>1. st[d] = "client" /\ Follows(d)
      BY <1>1, <2>1 DEF Succession, Following
    <3> QED BY <1>1, <1>3, <3>1, OverhearsFollows DEF recoverVars
  <2> QED BY <2>1 DEF Following
<1>10. Recovering'
  <2>1. ASSUME NEW w \in Clients, st'[w] = "recovering" PROVE Recovers(w)'
    <3>1. Recovers(w)
      BY <1>1, <2>1 DEF Succession, Recovering
    <3>2. ASSUME NEW d \in Clients, st'[d] = "client" PROVE Collects(w, d)'
      <4>1. Collects(w, d)
        BY <1>1, <3>1, <3>2 DEF Recovers
      <4> QED BY <1>1, <1>3, <4>1, OverhearsCollects DEF recoverVars, leaderVars
    <3> QED BY <1>1, <3>1, <3>2 DEF Recovers, recoverVars, clientVars
  <2> QED BY <2>1 DEF Recovering
<1> QED BY <1>4, <1>5, <1>6, <1>7, <1>8, <1>9, <1>10 DEF Succession

\* What ends leaves the others as they were.
LEMMA CrashSucceeds ==
  ASSUME RTidy, NEW p \in Leaders, Crash(p)
  PROVE  NoNews /\ Bounded' /\ Screened' /\ Succession'
<1> Tidy /\ Numbers /\ Succession /\ Types
  BY DEF RTidy, Tidy
<1>1. st'[p] = "gone" /\ \A l \in Leaders : l # p => st'[l] = st[l]
  <2>1. st' = [st EXCEPT ![p] = "gone"]
    BY DEF Crash
  <2> QED BY <2>1 DEF Types, LeaderType
<1>2. con'[p].pc = "pop"
  <2>1. con' = [con EXCEPT ![p] = Idle]
    BY DEF Crash
  <2> QED BY <2>1 DEF Types, LeaderType, Idle
<1>3. ASSUME NEW l \in Leaders, l # p
      PROVE  /\ room'[l] = room[l] /\ queue'[l] = queue[l] /\ seqNum'[l] = seqNum[l]
             /\ con'[l] = con[l]
  <2>1. room' = [room EXCEPT ![p] = {}] /\ queue' = [queue EXCEPT ![p] = <<>>]
        /\ seqNum' = [seqNum EXCEPT ![p] = 0] /\ con' = [con EXCEPT ![p] = Idle]
    BY DEF Crash
  <2> QED BY <1>3, <2>1 DEF Types, LeaderType
<1>4. ASSUME NEW c \in Clients
      PROVE  /\ c # p => /\ answers'[c] = answers[c] /\ asking'[c] = asking[c]
                         /\ isRecovery'[c] = isRecovery[c] /\ box'[c] = box[c]
             /\ shown'[c] = <<>> \/ shown'[c] = shown[c]
             /\ c # p => shown'[c] = shown[c]
             /\ answers'[c] = <<>> \/ answers'[c] = answers[c]
  <2>1. CASE p = Leader
    BY <2>1, SomeMessages DEF Crash
  <2>2. CASE p # Leader
    <3>1. answers' = [answers EXCEPT ![p] = <<>>]
          /\ asking' = [asking EXCEPT ![p] = [at |-> 0, waits |-> FALSE]]
      BY <2>2 DEF Crash
    <3>2. isRecovery' = [isRecovery EXCEPT ![p] = FALSE]
          /\ box' = [box EXCEPT ![p] = <<>>] /\ shown' = [shown EXCEPT ![p] = <<>>]
      BY <2>2 DEF Crash
    <3> QED BY <3>1, <3>2 DEF Types, RecoveryType, ClientType, BoxType
  <2> QED BY <2>1, <2>2
<1>5. UNCHANGED <<best, leaderOf, isRecoveryDone, last>>
  BY DEF Crash
<1> Leader \in Leaders /\ Clients \subseteq Leaders
  BY SomeMessages
<1>6. \A c \in Clients : c # p => Overhears(c) /\ Undisturbed(c)
  BY <1>1, <1>4, <1>5 DEF Overhears, Undisturbed
<1>7. NoNews
  <2>1. \A m \in Leaders : con'[m].pc = "mcast" => con[m].pc = "mcast" /\ Multicast(m)' = Multicast(m)
    BY <1>2, <1>3, <1>5 DEF Multicast, Numbered
  <2>2. \A m \in Leaders : \A e \in Out(m)' : Old(e)
    BY <2>1, OutStays
  <2>3. ASSUME NEW d \in Clients PROVE \A e \in Held(d)' : Old(e)
    <3>1. CASE d = p
      BY <1>1, <3>1 DEF Held
    <3>2. CASE d # p
      BY <1>6, <3>2, HeldStays
    <3> QED BY <3>1, <3>2
  <2>4. \A w \in Clients : \A e \in Gathered(w)' : Old(e)
    BY <1>4, <1>5, Whereabouts DEF Gathered
  <2> QED BY <2>2, <2>3, <2>4, NewsParts
<1>8. Bounded'
  BY <1>1, <1>3, <1>7, BoundKept DEF Numbers, Top, Opened
<1>9. Screened'
  BY <1>4, <1>5 DEF Numbers, Screened
<1>10. OneElected' /\ Surpassed' /\ Headed' /\ Resuming' /\ Silent'
  <2>1. OneElected' /\ Surpassed'
    BY <1>1, <1>5 DEF Succession, OneElected, Surpassed, Elected
  <2>2. Headed'
    BY <1>1, <1>5 DEF Succession, Headed
  <2>3. Resuming'
    BY <1>1, <1>5 DEF Succession, Resuming, Resumed, Elected
  <2>4. Silent'
    BY <1>1, <1>2, <1>3 DEF Succession, Silent
  <2> QED BY <2>1, <2>2, <2>3, <2>4
<1>11. AllFresh'
  <2>1. ASSUME NEW w \in Clients PROVE Fresh(w)'
    <3>1. CASE w = p
      BY <1>1, <3>1 DEF Fresh
    <3>2. CASE w # p
      BY <1>1, <1>3, <1>4, <1>5, <3>2, FreshStays DEF Succession, AllFresh
    <3> QED BY <3>1, <3>2
  <2> QED BY <2>1 DEF AllFresh
<1>12. Following'
  <2>1. ASSUME NEW c \in Clients, st'[c] = "client" PROVE Follows(c)'
    <3>1. c # p /\ st[c] = "client"
      BY <1>1, <2>1
    <3>2. Follows(c)
      BY <3>1 DEF Succession, Following
    <3>3. \A w \in Clients : st[w] \in {"leading", "gone"} => st'[w] \in {"leading", "gone"}
      BY <1>1
    <3> QED BY <1>5, <1>6, <3>1, <3>2, <3>3, OverhearsFollows
  <2> QED BY <2>1 DEF Following
<1>13. Recovering'
  <2>1. ASSUME NEW w \in Clients, st'[w] = "recovering" PROVE Recovers(w)'
    <3>1. w # p /\ Recovers(w)
      BY <1>1, <2>1 DEF Succession, Recovering
    <3>2. ASSUME NEW c \in Clients, st'[c] = "client" PROVE Collects(w, c)'
      <4>1. c # p /\ Collects(w, c)
        BY <1>1, <3>1, <3>2 DEF Recovers
      <4> QED BY <1>3, <1>4, <1>5, <1>6, <3>1, <4>1, OverhearsCollects
    <3> QED BY <1>4, <1>5, <3>1, <3>2 DEF Recovers
  <2> QED BY <2>1 DEF Recovering
<1> QED BY <1>7, <1>8, <1>9, <1>10, <1>11, <1>12, <1>13 DEF Succession

------------------------------------------------------------------------------
(* The recovery.                                                            *)

\* Nobody leads while one recovers, and one at a time recovers.
LEMMA RecoversAlone ==
  ASSUME Tidy, NEW w \in Clients, st[w] = "recovering"
  PROVE  /\ \A v \in Clients : Lives(v) => v = w
         /\ \A l \in Leaders : st[l] # "leading"
         /\ Elected(w)
<1> Types /\ Calm /\ OneDeclared
  BY DEF Tidy
<1>1. \A v \in Clients : Lives(v) => v = w
  BY DEF OneDeclared, Declared, Lives
<1>2. st[Leader] # "leading"
  BY DEF Calm
<1>3. Elected(w)
  BY DEF Elected, Lives, Types, RecoveryType, Seen
<1> QED BY <1>1, <1>2, <1>3 DEF Lives, Leaders

\* The next member to be asked is the first one of those not asked yet.
LEMMA AskMemberSucceeds ==
  ASSUME RTidy, NEW w \in Clients, AskMember(w)
  PROVE  NoNews /\ Bounded' /\ Screened' /\ Succession'
<1> Tidy /\ Numbers /\ Succession /\ Types
  BY DEF RTidy, Tidy
<1> DEFINE x == From(RECOVERY, w)
<1>1. /\ st[w] = "recovering" /\ ~asking[w].waits
      /\ UNCHANGED <<st, leaderVars, best, answers, clientVars>>
  BY DEF AskMember
<1>2. PICK c \in Clients :
        /\ c \in Next_(room[w], asking[w].at) /\ SendClient(c, x)
        /\ asking' = [asking EXCEPT ![w] = [at |-> c, waits |-> TRUE]]
  <2>1. Next_(room[w], asking[w].at) \subseteq Clients
    BY SomeMessages DEF Next_, Types, LeaderType
  <2> QED BY <2>1 DEF AskMember
<1>3. /\ asking'[w] = [at |-> c, waits |-> TRUE]
      /\ \A v \in Clients : v # w => asking'[v] = asking[v]
  BY <1>2 DEF Types, RecoveryType
<1>4. x \in Sent /\ x.code = RECOVERY /\ x.from = w /\ ~IsLine(x)
  BY DEF From, Sent, Calls, IsLine
<1>5. \A d \in Clients : box'[d] = IF d = c /\ st[c] = "client" THEN Append(box[d], x) ELSE box[d]
  BY <1>2 DEF SendClient, Types, BoxType
<1>6. Recovers(w)
  BY <1>1 DEF Succession, Recovering
<1>7. NoNews
  <2>1. \A m \in Leaders : con'[m].pc = "mcast" => con[m].pc = "mcast" /\ Multicast(m)' = Multicast(m)
    BY <1>1 DEF Multicast, Numbered, leaderVars
  <2>2. \A m \in Leaders : \A e \in Out(m)' : Old(e)
    BY <2>1, OutStays
  <2>3. \A d \in Clients : Undisturbed(d)
    BY <1>1, <1>4, <1>5 DEF Undisturbed, clientVars
  <2>4. \A d \in Clients : \A e \in Held(d)' : Old(e)
    BY <2>3, HeldStays
  <2>5. \A v \in Clients : \A e \in Gathered(v)' : Old(e)
    BY <1>1, Whereabouts DEF Gathered
  <2> QED BY <2>2, <2>4, <2>5, NewsParts
<1>8. Bounded'
  BY <1>1, <1>7, BoundKept DEF Numbers, Top, Opened, leaderVars
<1>9. Screened'
  BY <1>1 DEF Numbers, Screened, clientVars
<1>10. OneElected' /\ Surpassed' /\ Headed' /\ Resuming'
  BY <1>1, SuccessionStays DEF Succession, clientVars
<1>11. AllFresh' /\ Silent'
  <2>1. ASSUME NEW v \in Clients PROVE Fresh(v)'
    BY <1>1, <1>3 DEF Succession, AllFresh, Fresh, Opened, leaderVars
  <2>2. Silent'
    BY <1>1 DEF Succession, Silent, leaderVars
  <2> QED BY <2>1, <2>2 DEF AllFresh
<1>12. ASSUME NEW d \in Clients, st[d] = "client"
       PROVE  Follows(d)' /\ Collects(w, d)'
  <2>1. Follows(d) /\ Collects(w, d) /\ box[d] \in Seq(Sent)
    BY <1>6, <1>12 DEF Succession, Following, Recovers, Types, BoxType
  <2>2. d \in room[w] /\ c > asking[w].at /\ (d > asking[w].at => c <= d)
    BY <1>2, <2>1 DEF Next_, Collects
  <2>3. c \in Nat /\ d \in Nat /\ asking[w].at \in Nat
    <3>1. Clients \subseteq Nat
      BY FailoverAssumption
    <3>2. asking \in [Clients -> [at : {0} \cup Clients, waits : BOOLEAN]]
      BY DEF Types, RecoveryType
    <3>3. asking[w].at = 0 \/ asking[w].at \in Clients
      BY <3>2
    <3>4. 0 \in Nat
      OBVIOUS
    <3>5. asking[w].at \in Nat
      BY <3>1, <3>3, <3>4, Zenon
    <3> QED BY <3>1, <3>5
  <2>4. CASE d # c
    <3>1. Overhears(d) /\ box'[d] = box[d]
      BY <1>1, <1>5, <2>4 DEF Overhears, clientVars
    <3>2. Follows(d)'
      BY <1>1, <1>12, <2>1, <3>1, OverhearsFollows
    <3>3. /\ Done(w, d)' => Done(w, d)
          /\ ~Turn(w, d)'
          /\ Later(w, d)' => Later(w, d)
      BY <1>1, <1>3, <2>2, <2>3, <2>4 DEF Done, Turn, Later
    <3> QED BY <1>1, <2>1, <3>1, <3>2, <3>3 DEF Collects, clientVars, leaderVars
  <2>5. CASE d = c
    <3>1. Later(w, d) /\ leaderOf[d] = Leader /\ NoRecovery(box[d])
      BY <2>1, <2>2, <2>5 DEF Later, Collects
    <3>2. box'[d] = Append(box[d], x)
      BY <1>5, <1>12, <2>5
    <3>3. RecoveryLast(box'[d]) /\ RecoveryOnce(box'[d])
      BY <1>4, <2>1, <3>1, <3>2, SentOther, NoneLast
    <3>4. answers[w] = <<>>
      <4>1. Len(answers[w]) <= 0 /\ answers[w] \in Seq(Seen)
        BY <1>1, <1>6 DEF Recovers, Types, RecoveryType
      <4> QED BY <4>1
    <3>5. ~Done(w, d)' /\ ~Later(w, d)'
      BY <1>3, <2>3, <2>5 DEF Done, Later
    <3>6. Collects(w, d)'
      BY <1>1, <2>2, <3>1, <3>3, <3>4, <3>5 DEF Collects, clientVars, leaderVars
    <3>7. /\ \A i \in DOMAIN box[d] : box'[d][i] = box[d][i]
          /\ box'[d][Len(box[d]) + 1] = x
          /\ DOMAIN box'[d] = DOMAIN box[d] \cup {Len(box[d]) + 1}
      BY <1>4, <2>1, <3>2, AppendElements
    <3>8. Elected(w) /\ x.code # CLOSE_RECOVERY
      BY <1>1, <1>4, RecoversAlone DEF RECOVERY, CLOSE_RECOVERY
    <3>9. \A i \in DOMAIN box[d] :
            /\ box[d][i].code = RECOVERY => Elected(box[d][i].from)
            /\ box[d][i].code # CLOSE_RECOVERY
      BY <2>1, <3>1, SomeMessages DEF Follows
    <3>10. Follows(d)'
      BY <1>1, <1>4, <3>1, <3>3, <3>7, <3>8, <3>9 DEF Follows, Elected, clientVars
    <3> QED BY <3>6, <3>10
  <2> QED BY <2>4, <2>5
<1>13. Following'
  BY <1>1, <1>12 DEF Following
<1>14. Recovering'
  <2>1. Recovers(w)'
    <3>1. Len(answers[w]) <= 0 /\ last[w].seq <= best[w].seq
      BY <1>1, <1>6 DEF Recovers
    <3>2. Len(answers[w]) \in Nat
      BY DEF Types, RecoveryType
    <3>3. Len(answers'[w]) <= 1 /\ asking'[w].waits /\ last'[w] = last[w] /\ best'[w] = best[w]
      BY <1>1, <1>3, <3>1, <3>2 DEF clientVars
    <3> QED BY <1>1, <1>12, <3>1, <3>3 DEF Recovers
  <2>2. \A v \in Clients : st'[v] = "recovering" => v = w
    BY <1>1, RecoversAlone DEF Lives
  <2> QED BY <2>1, <2>2 DEF Recovering
<1> QED BY <1>7, <1>8, <1>9, <1>10, <1>11, <1>13, <1>14 DEF Succession

\* What a wait has left behind counts if it is better than the best so far.
LEMMA LearnSucceeds ==
  ASSUME RTidy, NEW w \in Clients, st[w] = "recovering", asking[w].waits,
         NEW x \in Entries, Learn(w, x), x \in Extant \/ x.msg = None,
         UNCHANGED <<st, leaderVars, clientVars, box>>,
         \A v \in Clients : v # w => answers'[v] = answers[v],
         answers'[w] = <<>>,
         \A d \in Clients : d = asking[w].at /\ st[d] = "client" =>
           leaderOf[d] = w /\ NoLine(box[d]) /\ last[d].seq <= x.seq
  PROVE  Numbers' /\ Succession'
<1> Tidy /\ Numbers /\ Succession /\ Types
  BY DEF RTidy, Tidy
<1>1. /\ best' = [best EXCEPT ![w] = Better(best[w], x)]
      /\ asking' = [asking EXCEPT ![w].waits = FALSE]
  BY DEF Learn
<1>2. /\ best'[w] = Better(best[w], x) /\ \A v \in Clients : v # w => best'[v] = best[v]
      /\ asking'[w].at = asking[w].at /\ ~asking'[w].waits
      /\ \A v \in Clients : v # w => asking'[v] = asking[v]
  BY <1>1 DEF Types, RecoveryType
<1>3. /\ best[w].seq \in Nat /\ x.seq \in Nat /\ best'[w].seq \in Nat
      /\ best'[w].seq >= best[w].seq /\ best'[w].seq >= x.seq
      /\ best'[w] \in {best[w], x}
  BY <1>2 DEF Better, Types, RecoveryType, Entries
<1>4. Recovers(w)
  BY DEF Succession, Recovering
<1>5. /\ \A v \in Clients : Elected(v) <=> v = w
      /\ \A v \in Clients : st[v] \in {"leading", "gone"} => v # w
      /\ \A l \in Leaders : st[l] # "leading"
      /\ \A v \in Clients : st[v] = "recovering" => v = w
  <2>1. Elected(w) /\ \A l \in Leaders : st[l] # "leading"
    BY RecoversAlone
  <2> QED BY <2>1, RecoversAlone DEF Succession, OneElected, Lives
<1>6. \A v \in Clients : Elected(v)' <=> Elected(v)
  BY <1>2, <1>3, <1>5 DEF Elected
<1>7. ASSUME NEW e \in Extant' PROVE Old(e) \/ e.msg = None
  <2>1. ASSUME NEW l \in Leaders, e \in Out(l)' PROVE Old(e)
    <3>1. con'[l].pc = "pop"
      <4>1. CASE l \in Clients
        <5>1. st[l] \in {"client", "recovering", "gone"} /\ con' = con
          BY <1>5 DEF leaderVars, Types, LeaderType
        <5>2. st[l] \in {"client", "recovering"} => con[l].pc = "pop"
          BY <4>1 DEF Succession, AllFresh, Fresh
        <5> QED BY <5>1, <5>2 DEF Succession, Silent
      <4>2. CASE l = Leader
        BY <1>5, <4>2 DEF Succession, OneElected, Silent, leaderVars
      <4> QED BY <4>1, <4>2 DEF Leaders
    <3> QED BY <2>1, <3>1 DEF Out
  <2>2. ASSUME NEW d \in Clients, e \in Held(d)' PROVE Old(e)
    BY <2>2, Whereabouts DEF Held, clientVars
  <2>3. ASSUME NEW v \in Clients, e \in Gathered(v)' PROVE Old(e) \/ e.msg = None
    <3>1. CASE v # w
      BY <1>2, <2>3, <3>1, Whereabouts DEF Gathered
    <3>2. CASE v = w
      <4>1. e = best'[w]
        BY <2>3, <3>2 DEF Gathered
      <4>2. Old(best[w])
        BY Whereabouts DEF Gathered
      <4>3. x \in Extant => Old(x)
        BY DEF Old
      <4> QED BY <1>3, <4>1, <4>2, <4>3
    <3> QED BY <3>1, <3>2
  <2> QED BY <2>1, <2>2, <2>3 DEF Extant
<1>8. Agree' /\ Plain'
  BY <1>7, EmptyKeeps DEF Numbers
<1>9. Bounded' /\ Screened'
  BY <1>5 DEF Bounded, Numbers, Screened, clientVars
<1>10. OneElected' /\ Surpassed' /\ Headed' /\ Silent' /\ AllFresh'
  <2>1. OneElected' /\ Headed' /\ Silent'
    BY <1>5, <1>6 DEF Succession, OneElected, Headed, Silent, leaderVars, clientVars
  <2>3. Surpassed'
    <3>1. last' = last /\ last[w].seq \in Nat /\ last[w].seq <= best[w].seq
      BY <1>4 DEF Types, ClientType, Seen, clientVars, Recovers
    <3> QED BY <1>3, <1>5, <1>6, <3>1 DEF Surpassed
  <2>2. ASSUME NEW v \in Clients PROVE Fresh(v)'
    <3>1. CASE v = w
      BY <3>1 DEF Succession, AllFresh, Fresh, leaderVars
    <3>2. CASE v # w
      BY <1>2, <3>2, FreshStays DEF Succession, AllFresh, leaderVars
    <3> QED BY <3>1, <3>2
  <2> QED BY <2>1, <2>2, <2>3 DEF AllFresh
<1>11. Resuming'
  BY <1>2, <1>5, <1>6 DEF Succession, Resuming, Resumed, clientVars
<1>12. Following'
  <2>1. ASSUME NEW d \in Clients, st[d] = "client" PROVE Follows(d)'
    <3>1. Follows(d) /\ leaderOf[d] \in Leaders /\ (leaderOf[d] # Leader => leaderOf[d] \in Clients)
      BY <2>1 DEF Succession, Following, Types, ClientType, Leaders
    <3>2. box[d] \in Seq(Sent)
      BY DEF Types, BoxType
    <3>3. \A i \in DOMAIN box[d] : box[d][i].code = RECOVERY => Elected(box[d][i].from)'
      <4> SUFFICES ASSUME NEW i \in DOMAIN box[d], box[d][i].code = RECOVERY
                   PROVE  Elected(box[d][i].from)'
        OBVIOUS
      <4>1. box[d][i] \in Sent
        BY <3>2
      <4>2. box[d][i].from \in Clients
        BY <4>1, SentForm
      <4> QED BY <1>6, <3>1, <4>2 DEF Follows
    <3>4. \A i \in DOMAIN box[d] : box[d][i].code = CLOSE_RECOVERY =>
            /\ leaderOf[d] \in Clients /\ st[leaderOf[d]] \in {"leading", "gone"}
            /\ Entry(box[d][i]) = best'[leaderOf[d]]
      BY <1>2, <1>5, <3>1 DEF Follows
    <3> QED BY <1>6, <3>1, <3>3, <3>4 DEF Follows, clientVars
  <2> QED BY <2>1 DEF Following
<1>13. Recovering'
  <2>1. ASSUME NEW d \in Clients, st[d] = "client" PROVE Collects(w, d)'
    <3>1. Collects(w, d)
      BY <1>4, <2>1 DEF Recovers
    <3>2. Done(w, d)' => leaderOf[d] = w /\ NoLine(box[d]) /\ last[d].seq <= best'[w].seq
      <4>1. CASE Done(w, d)
        <5>1. last[d].seq \in Nat
          BY DEF Types, ClientType, Seen
        <5> QED BY <1>3, <3>1, <4>1, <5>1 DEF Collects
      <4>2. CASE d = asking[w].at
        <5>1. last[d].seq \in Nat
          BY DEF Types, ClientType, Seen
        <5> QED BY <1>3, <2>1, <4>2, <5>1
      <4> QED BY <1>2, <4>1, <4>2 DEF Done
    <3>3. ~Turn(w, d)' /\ (Later(w, d)' => Later(w, d))
      BY <1>2 DEF Turn, Later
    <3> QED BY <3>1, <3>2, <3>3 DEF Collects, clientVars, leaderVars
  <2>2. Recovers(w)'
    <3>1. Len(answers'[w]) = 0
      OBVIOUS
    <3>2. last[w].seq \in Nat
      BY DEF Types, ClientType, Seen
    <3> QED BY <1>2, <1>3, <1>4, <2>1, <3>1, <3>2 DEF Recovers, clientVars
  <2> QED BY <1>5, <2>2 DEF Recovering
<1> QED BY <1>8, <1>9, <1>10, <1>11, <1>12, <1>13 DEF Numbers, Succession

\* An answer is the number and message that its member had last when it had
\* read all of the first leader's; without one, the member has gone.
LEMMA RecoveryAnswersSucceeds ==
  ASSUME RTidy, NEW w \in Clients, HearAnswer(w) \/ GiveUp(w)
  PROVE  Numbers' /\ Succession'
<1> Tidy /\ Numbers /\ Succession /\ Types
  BY DEF RTidy, Tidy
<1>1. st[w] = "recovering" /\ asking[w].waits /\ UNCHANGED <<st, leaderVars, clientVars, box>>
  BY DEF HearAnswer, GiveUp
<1>2. Recovers(w) /\ answers[w] \in Seq(Seen)
  BY <1>1 DEF Succession, Recovering, Types, RecoveryType
<1>3. CASE GiveUp(w)
  <2>1. /\ st[asking[w].at] # "client" /\ answers[w] = <<>> /\ answers' = answers
    BY <1>3 DEF GiveUp
  <2>2. PICK n \in UninitSeq : Learn(w, [seq |-> n, msg |-> None])
    BY <1>3 DEF GiveUp
  <2> DEFINE x == [seq |-> n, msg |-> None]
  <2>3. x \in Entries /\ x.msg = None
    BY FailoverAssumption, SomeMessages DEF Entries
  <2> HIDE DEF x
  <2>4. Learn(w, x)
    BY <2>2 DEF x
  <2> QED BY <1>1, <2>1, <2>3, <2>4, LearnSucceeds
<1>4. CASE HearAnswer(w)
  <2> DEFINE x == Head(answers[w])
             a == asking[w].at
  <2>1. /\ answers[w] # <<>> /\ Learn(w, x)
        /\ answers' = [answers EXCEPT ![w] = Tail(answers[w])]
    BY <1>4 DEF HearAnswer
  <2>2. /\ answers'[w] = Tail(answers[w])
        /\ \A v \in Clients : v # w => answers'[v] = answers[v]
    BY <2>1 DEF Types, RecoveryType
  <2>3. x \in Seen /\ x = answers[w][1] /\ 1 \in DOMAIN answers[w]
        /\ Len(Tail(answers[w])) = Len(answers[w]) - 1 /\ Len(answers[w]) \in Nat \ {0}
        /\ Tail(answers[w]) \in Seq(Seen)
    BY <1>2, <2>1, TailElements
  <2>4. answers'[w] = <<>>
    <3>1. Len(answers[w]) <= 1
      BY <1>1, <1>2 DEF Recovers
    <3> DEFINE k == Len(answers[w])
               r == Tail(answers[w])
    <3>2. k \in Nat \ {0} /\ Len(r) = k - 1 /\ r \in Seq(Seen) /\ k <= 1
      BY <2>3, <3>1
    <3> HIDE DEF k, r
    <3>3. r = <<>>
      BY <3>2
    <3> QED BY <2>2, <3>3 DEF r
  <2>5. x \in Entries /\ x \in Extant
    <3>1. x \in Gathered(w)
      BY <2>3 DEF Gathered
    <3> QED BY <2>3, <3>1 DEF Seen, Entries, Extant
  <2>6. ASSUME NEW d \in Clients, d = a, st[d] = "client"
        PROVE  leaderOf[d] = w /\ NoLine(box[d]) /\ last[d].seq <= x.seq
    <3>1. Turn(w, d) /\ Collects(w, d)
      BY <1>1, <1>2, <2>6 DEF Turn, Recovers
    <3>2. leaderOf[d] = w /\ NoLine(box[d]) /\ answers[w] = <<last[d]>>
      BY <2>1, <3>1 DEF Collects
    <3>3. x = last[d]
      BY <3>2
    <3>4. last[d].seq \in Nat
      BY DEF Types, ClientType, Seen
    <3> QED BY <3>2, <3>3, <3>4
  <2> HIDE DEF x, a
  <2> QED BY <1>1, <2>1, <2>2, <2>4, <2>5, <2>6, LearnSucceeds DEF a
<1> QED BY <1>3, <1>4

\* When all have been asked, the best answer is the greatest number there is.
LEMMA StartThreadsSucceeds ==
  ASSUME RTidy, NEW w \in Clients, StartThreads(w)
  PROVE  NoNews /\ Bounded' /\ Screened' /\ Succession'
<1> Tidy /\ Numbers /\ Succession /\ Types
  BY DEF RTidy, Tidy
<1> Clients \subseteq Leaders
  BY SomeMessages
<1>1. /\ st[w] = "recovering" /\ ~asking[w].waits /\ Next_(room[w], asking[w].at) = {}
      /\ st' = [st EXCEPT ![w] = "leading"]
      /\ seqNum' = [seqNum EXCEPT ![w] = FirstNumber(w)]
      /\ queue' = [queue EXCEPT ![w] = <<[None EXCEPT !.from = w]>>]
      /\ UNCHANGED <<room, con, recoverVars, clientVars, box>>
  BY DEF StartThreads
<1>2. /\ st'[w] = "leading" /\ seqNum'[w] = best[w].seq - 1
      /\ queue'[w] = <<[None EXCEPT !.from = w]>>
      /\ \A l \in Leaders : l # w =>
           st'[l] = st[l] /\ seqNum'[l] = seqNum[l] /\ queue'[l] = queue[l]
  BY <1>1 DEF FirstNumber, Types, LeaderType
<1>3. Recovers(w)
  BY <1>1 DEF Succession, Recovering
<1>4. /\ \A v \in Clients : Elected(v) <=> v = w
      /\ \A v \in Clients : Lives(v) => v = w
      /\ \A l \in Leaders : st[l] # "leading"
  <2>1. Elected(w) /\ \A l \in Leaders : st[l] # "leading"
    BY <1>1, RecoversAlone
  <2> QED BY <1>1, <2>1, RecoversAlone DEF Succession, OneElected
<1>5. ASSUME NEW d \in Clients, st[d] = "client"
      PROVE  leaderOf[d] = w /\ NoLine(box[d]) /\ last[d].seq <= best[w].seq
  <2>1. Collects(w, d) /\ d \in room[w]
    BY <1>3, <1>5 DEF Recovers, Collects
  <2>2. room[w] \in SUBSET Clients /\ asking \in [Clients -> [at : {0} \cup Clients, waits : BOOLEAN]]
    BY DEF Types, LeaderType, RecoveryType
  <2>3. asking[w].at \in Nat /\ d \in Nat
    <3>1. Clients \subseteq Nat /\ 0 \in Nat
      BY FailoverAssumption
    <3>2. asking[w].at = 0 \/ asking[w].at \in Clients
      BY <2>2
    <3> QED BY <3>1, <3>2, Zenon
  <2>4. d <= asking[w].at
    BY <1>1, <2>1, <2>2, <2>3, NextEmpty
  <2>5. Done(w, d)
    BY <1>1, <2>3, <2>4 DEF Done
  <2> QED BY <2>1, <2>5 DEF Collects
<1>6. \A l \in Leaders : con[l].pc = "pop"
  <2>1. ASSUME NEW l \in Clients PROVE con[l].pc = "pop"
    <3>1. st[l] \in {"client", "recovering", "gone"}
      BY <1>4 DEF Types, LeaderType
    <3>2. st[l] \in {"client", "recovering"} => con[l].pc = "pop"
      BY DEF Succession, AllFresh, Fresh
    <3> QED BY <3>1, <3>2 DEF Succession, Silent
  <2>2. con[Leader].pc = "pop"
    BY <1>4, SomeMessages DEF Succession, OneElected, Silent
  <2> QED BY <2>1, <2>2 DEF Leaders
<1>7. ASSUME NEW e \in Extant' PROVE Old(e) /\ e.seq <= best[w].seq
  <2>1. \A l \in Leaders : e \notin Out(l)'
    BY <1>1, <1>6 DEF Out
  <2>2. ASSUME NEW d \in Clients, e \in Held(d)' PROVE Old(e) /\ e.seq <= best[w].seq
    <3>1. st'[d] # "gone" /\ st[d] # "gone"
      BY <1>1, <1>2, <2>2 DEF Held
    <3>2. e \in Held(d)
      BY <1>1, <2>2, <3>1 DEF Held, clientVars
    <3>3. last[d].seq <= best[w].seq /\ NoLine(box[d])
      <4>1. CASE d = w
        <5>1. box[d] = <<>>
          BY <1>1, <4>1 DEF Types, BoxType
        <5> QED BY <1>3, <4>1, <5>1 DEF Recovers, NoLine
      <4>2. CASE d # w
        <5>1. st[d] = "client"
          BY <1>4, <3>1, <4>2 DEF Lives, Types, LeaderType
        <5> QED BY <1>5, <5>1
      <4> QED BY <4>1, <4>2
    <3>4. e = last[d] \/ \E i \in DOMAIN shown[d] : e = shown[d][i]
      BY <3>1, <3>2, <3>3 DEF Held, InBox, NoLine
    <3>5. e.seq <= last[d].seq
      <4>1. last[d].seq \in Nat
        BY DEF Types, ClientType, Seen
      <4> QED BY <3>4, <4>1 DEF Numbers, Screened
    <3>6. e.seq \in Nat /\ last[d].seq \in Nat /\ best[w].seq \in Nat
      <4>1. shown[d] \in Seq(Entries) /\ last[d] \in Seen /\ best[w] \in Entries
        BY DEF Types, ClientType, RecoveryType
      <4>2. \A i \in DOMAIN shown[d] : shown[d][i] \in Entries
        BY <4>1
      <4> QED BY <3>4, <4>1, <4>2 DEF Seen, Entries
    <3> QED BY <3>2, <3>3, <3>5, <3>6, Whereabouts
  <2>3. ASSUME NEW v \in Clients, e \in Gathered(v)' PROVE Old(e) /\ e.seq <= best[w].seq
    <3>1. e \in Gathered(v)
      BY <1>1, <2>3 DEF Gathered, recoverVars
    <3>2. best[w].seq \in Nat /\ best[v].seq \in Nat
      BY DEF Types, RecoveryType, Entries
    <3>3. answers[v] = <<>>
      <4>1. CASE v = w
        <5>1. Len(answers[w]) <= 0 /\ answers[w] \in Seq(Seen)
          BY <1>1, <1>3 DEF Recovers, Types, RecoveryType
        <5> QED BY <4>1, <5>1
      <4>2. CASE v # w
        BY <1>4, <4>2 DEF Types, RecoveryType
      <4> QED BY <4>1, <4>2
    <3>4. e = best[v]
      BY <3>1, <3>3 DEF Gathered
    <3>5. best[v].seq <= best[w].seq
      <4>1. CASE v = w
        BY <3>2, <4>1
      <4>2. CASE v # w
        BY <1>4, <3>2, <4>2 DEF Elected
      <4> QED BY <4>1, <4>2
    <3> QED BY <3>1, <3>4, <3>5, Whereabouts
  <2> QED BY <2>1, <2>2, <2>3 DEF Extant
<1>8. NoNews
  BY <1>7 DEF NoNews
<1>9. Bounded'
  <2> SUFFICES ASSUME NEW l \in Leaders, st'[l] = "leading", NEW e \in Extant'
               PROVE  e.seq <= Top(l)'
    BY DEF Bounded
  <2>1. l = w
    BY <1>2, <1>4
  <2>2. ~Opened(w)'
    BY <1>2 DEF Opened, None
  <2>3. Top(w)' = best[w].seq
    BY <1>2, <2>2 DEF Top, Types, RecoveryType, Entries
  <2> QED BY <1>7, <2>1, <2>3
<1>10. Screened'
  BY <1>1 DEF Numbers, Screened, clientVars
<1>11. OneElected' /\ Surpassed' /\ Silent'
  BY <1>1, <1>2, SomeMessages
  DEF Succession, OneElected, Surpassed, Elected, Silent, recoverVars, clientVars
<1>12. Headed' /\ Recovering'
  <2>1. \A d \in Clients : st'[d] = "client" => st[d] = "client"
    BY <1>2
  <2>2. \A v \in Clients : st'[v] \in {"leading", "recovering"} => v = w
    BY <1>2, <1>4 DEF Lives
  <2> QED BY <1>1, <1>2, <1>5, <2>1, <2>2 DEF Headed, Recovering, clientVars
<1>13. AllFresh'
  <2>1. ASSUME NEW v \in Clients PROVE Fresh(v)'
    <3>1. CASE v = w
      <4>1. con[w].pc = "pop"
        BY <1>1 DEF Succession, AllFresh, Fresh
      <4>2. OneClose(queue'[w])
        BY <1>2 DEF OneClose
      <4> QED BY <1>1, <1>2, <3>1, <4>1, <4>2 DEF Fresh, recoverVars
    <3>2. CASE v # w
      BY <1>1, <1>2, <3>2, FreshStays DEF Succession, AllFresh, recoverVars
    <3> QED BY <3>1, <3>2
  <2> QED BY <2>1 DEF AllFresh
<1>14. \A v \in Clients : st[v] \in {"leading", "gone"} => st'[v] \in {"leading", "gone"}
  BY <1>2
<1>15. Resuming'
  BY <1>1, <1>14 DEF Succession, Resuming, Resumed, Elected, clientVars, recoverVars
<1>16. Following'
  <2>1. ASSUME NEW d \in Clients, st'[d] = "client" PROVE Follows(d)'
    <3>1. st[d] = "client" /\ Follows(d) /\ Overhears(d)
      BY <1>1, <1>2, <2>1 DEF Succession, Following, Overhears, clientVars
    <3> QED BY <1>1, <1>14, <3>1, OverhearsFollows DEF recoverVars
  <2> QED BY <2>1 DEF Following
<1> QED BY <1>8, <1>9, <1>10, <1>11, <1>12, <1>13, <1>15, <1>16 DEF Succession

------------------------------------------------------------------------------
(* What clients read.                                                       *)

\* A message is shown under its number if it comes after the last one, and then
\* it is what the client would answer, or is without its text.
LEMMA DisplayForm ==
  ASSUME Types, NEW c \in Clients, NEW d \in Lines, Display(c, d)
  PROVE  /\ \A b \in Clients : b # c => last'[b] = last[b] /\ shown'[b] = shown[b]
         /\ \/ /\ last'[c] = last[c] /\ shown'[c] = shown[c]
               /\ d.msg.type # CLOSE_RECOVERY => d.seq <= last[c].seq
            \/ /\ d.seq > last[c].seq /\ d.msg.type # CLOSE_RECOVERY
               /\ last'[c].seq = d.seq
               /\ last'[c] = Entry(d) \/ last'[c].msg = None
               /\ shown'[c] = Append(shown[c], Entry(d))
<1> d.seq \in Nat /\ last[c].seq \in Nat
  BY DEF Lines, Types, ClientType, Seen
<1>1. CASE d.seq > last[c].seq /\ d.msg.type # CLOSE_RECOVERY
  <2>1. /\ last' = [last EXCEPT ![c] =
              [seq |-> d.seq, msg |-> IF d.code = CLOSE_RECOVERY THEN None ELSE d.msg]]
        /\ shown' = [shown EXCEPT ![c] = Append(shown[c], Entry(d))]
    BY <1>1 DEF Display, Entry
  <2> QED BY <1>1, <2>1 DEF Types, ClientType, Entry
<1>2. CASE ~(d.seq > last[c].seq /\ d.msg.type # CLOSE_RECOVERY)
  BY <1>2 DEF Display
<1> QED BY <1>1, <1>2

\* c reads a datagram that is no RECOVERY, and shows it if it is a message.
Takes(c) ==
  LET d == Head(box[c]) IN
  /\ st[c] = "client" /\ box[c] # <<>> /\ d.code # RECOVERY
  /\ box' = [box EXCEPT ![c] = Tail(box[c])]
  /\ UNCHANGED <<st, leaderVars, recoverVars, leaderOf>>
  /\ \/ d \in Lines /\ IsLine(d) /\ Display(c, d)
     \/ ~IsLine(d) /\ UNCHANGED <<last, shown>>
  /\ \A b \in Clients : b # c => isRecovery'[b] = isRecovery[b] /\ isRecoveryDone'[b] = isRecoveryDone[b]
  /\ \/ isRecovery'[c] = isRecovery[c] /\ isRecoveryDone'[c] = isRecoveryDone[c]
     \/ IsLine(d) /\ d.code = CLOSE_RECOVERY /\ isRecoveryDone'[c]

\* What a client shows was extant, so its reading brings no news; CLOSE_RECOVERY
\* brings whoever reads it up to the best answer.
LEMMA TakesSucceeds ==
  ASSUME RTidy, NEW c \in Clients, Takes(c)
  PROVE  NoNews /\ Bounded' /\ Screened' /\ Succession'
<1> Tidy /\ Numbers /\ Succession /\ Types /\ OnlyDeadDeleted
  BY DEF RTidy, Tidy
<1> DEFINE d == Head(box[c])
<1>1. /\ st[c] = "client" /\ box[c] # <<>> /\ d.code # RECOVERY
      /\ UNCHANGED <<st, leaderVars, recoverVars, leaderOf>> /\ box[c] \in Seq(Sent)
      /\ box'[c] = Tail(box[c]) /\ \A b \in Clients : b # c => box'[b] = box[b]
  BY DEF Takes, Types, BoxType
<1>2. /\ 1 \in DOMAIN box[c] /\ d = box[c][1]
      /\ \A i \in DOMAIN box'[c] : i + 1 \in DOMAIN box[c] /\ box'[c][i] = box[c][i + 1]
  BY <1>1, TailElements
<1>3. /\ \A b \in Clients : b # c => last'[b] = last[b] /\ shown'[b] = shown[b]
      /\ \/ last'[c] = last[c] /\ shown'[c] = shown[c]
         \/ /\ IsLine(d) /\ d.seq > last[c].seq /\ last'[c].seq = d.seq
            /\ last'[c] = Entry(d) \/ last'[c].msg = None
            /\ shown'[c] = Append(shown[c], Entry(d))
  BY DisplayForm DEF Takes
<1>4. last[c] \in Seen /\ shown[c] \in Seq(Entries)
  BY DEF Types, ClientType
<1>5. IsLine(d) => Entry(d) \in Extant /\ Entry(d) \in Entries
  BY <1>1, <1>2, Holdings, EntriesOf
<1>6. /\ \A i \in DOMAIN shown'[c] :
           \/ i \in DOMAIN shown[c] /\ shown'[c][i] = shown[c][i]
           \/ IsLine(d) /\ shown'[c][i] = Entry(d) /\ last'[c].seq = d.seq
      /\ last'[c].seq \in Nat /\ last'[c].seq >= last[c].seq /\ last[c].seq \in Nat
  <2>1. CASE last'[c] = last[c] /\ shown'[c] = shown[c]
    BY <1>4, <2>1 DEF Seen
  <2>2. CASE /\ IsLine(d) /\ d.seq > last[c].seq /\ last'[c].seq = d.seq
             /\ shown'[c] = Append(shown[c], Entry(d))
    <3>1. \A i \in DOMAIN shown'[c] :
            shown'[c][i] = Entry(d) \/ (i \in DOMAIN shown[c] /\ shown'[c][i] = shown[c][i])
      BY <1>4, <1>5, <2>2, AppendElements
    <3>2. d.seq \in Nat /\ last[c].seq \in Nat
      BY <1>4, <1>5, <2>2 DEF Entry, Entries, Seen
    <3> QED BY <2>2, <3>1, <3>2
  <2> QED BY <1>3, <2>1, <2>2
<1>7. NoNews
  <2>1. \A m \in Leaders : con'[m].pc = "mcast" => con[m].pc = "mcast" /\ Multicast(m)' = Multicast(m)
    BY <1>1 DEF Multicast, Numbered, leaderVars, recoverVars
  <2>2. \A m \in Leaders : \A e \in Out(m)' : Old(e)
    BY <2>1, OutStays
  <2>3. \A e \in Held(c)' : Old(e)
    <3>1. Old(last[c]) /\ (\A i \in DOMAIN shown[c] : Old(shown[c][i]))
          /\ (\A i \in DOMAIN box[c] : IsLine(box[c][i]) => Old(Entry(box[c][i])))
      BY <1>1, Holdings DEF Old
    <3>2. IsLine(d) => Old(Entry(d))
      BY <1>5 DEF Old
    <3>3. Old(last'[c])
      <4>1. CASE last'[c] = last[c]
        BY <3>1, <4>1
      <4>2. CASE IsLine(d) /\ last'[c].seq = d.seq /\ (last'[c] = Entry(d) \/ last'[c].msg = None)
        BY <1>5, <4>2 DEF Old, Entry
      <4> QED BY <1>3, <4>1, <4>2
    <3>4. \A i \in DOMAIN shown'[c] : Old(shown'[c][i])
      BY <1>6, <3>1, <3>2
    <3>5. \A i \in DOMAIN box'[c] : IsLine(box'[c][i]) => Old(Entry(box'[c][i]))
      BY <1>2, <3>1
    <3> QED BY <3>3, <3>4, <3>5, HeldOld
  <2>4. ASSUME NEW b \in Clients, b # c PROVE \A e \in Held(b)' : Old(e)
    BY <1>1, <1>3, <2>4, HeldStays DEF Undisturbed
  <2>5. \A v \in Clients : \A e \in Gathered(v)' : Old(e)
    BY <1>1, Whereabouts DEF Gathered, recoverVars
  <2> QED BY <2>2, <2>3, <2>4, <2>5, NewsParts
<1>8. Bounded'
  BY <1>1, <1>7, BoundKept DEF Numbers, Top, Opened, leaderVars
<1>9. Screened'
  <2>1. ASSUME NEW i \in DOMAIN shown'[c] PROVE shown'[c][i].seq <= last'[c].seq
    <3>1. CASE i \in DOMAIN shown[c] /\ shown'[c][i] = shown[c][i]
      <4>1. shown[c][i] \in Entries /\ shown[c][i].seq <= last[c].seq
        BY <1>4, <3>1 DEF Numbers, Screened
      <4>2. shown[c][i].seq \in Nat
        BY <4>1 DEF Entries
      <4> QED BY <1>6, <3>1, <4>1, <4>2
    <3>2. CASE shown'[c][i] = Entry(d) /\ last'[c].seq = d.seq
      BY <1>6, <3>2 DEF Entry
    <3> QED BY <1>6, <3>1, <3>2
  <2>2. \A b \in Clients : b # c => \A i \in DOMAIN shown'[b] : shown'[b][i].seq <= last'[b].seq
    BY <1>3 DEF Numbers, Screened
  <2> QED BY <2>1, <2>2 DEF Screened
<1>10. OneElected' /\ Surpassed' /\ Headed' /\ AllFresh' /\ Silent'
  <2>1. OneElected' /\ Headed' /\ Silent'
    BY <1>1 DEF Succession, OneElected, Elected, Headed, Silent, leaderVars, recoverVars
  <2>3. Surpassed'
    BY <1>1, <1>3 DEF Succession, OneElected, Surpassed, Elected, recoverVars
  <2>2. AllFresh'
    BY <1>1, FreshStays DEF Succession, AllFresh, leaderVars, recoverVars
  <2> QED BY <2>1, <2>2, <2>3
<1>11. Follows(c)
  BY <1>1 DEF Succession, Following
<1>12. ASSUME NEW b \in Clients, b # c PROVE Overhears(b)
  BY <1>1, <1>3, <1>12 DEF Overhears, Takes
<1>13. Resuming'
  <2>1. ASSUME NEW b \in Clients, b # c PROVE Resumed(b)'
    <3>1. Resumed(b)
      BY DEF Succession, Resuming
    <3> QED BY <1>1, <1>12, <2>1, <3>1 DEF Resumed, Overhears, Elected, recoverVars
  <2>2. ASSUME isRecoveryDone'[c] PROVE Resumed(c)'
    <3>1. CASE isRecoveryDone[c]
      <4>1. /\ leaderOf[c] \in Clients /\ st[leaderOf[c]] \in {"leading", "gone"}
            /\ Elected(leaderOf[c])
            /\ best[leaderOf[c]].msg # None => last[c].seq >= best[leaderOf[c]].seq
        BY <3>1 DEF Succession, Resuming, Resumed
      <4>2. best[leaderOf[c]].seq \in Nat
        BY <4>1 DEF Types, RecoveryType, Entries
      <4>3. best[leaderOf[c]].msg # None => last'[c].seq >= best[leaderOf[c]].seq
        BY <1>6, <4>1, <4>2
      <4> QED BY <1>1, <4>1, <4>3 DEF Resumed, Elected, recoverVars
    <3>2. CASE ~isRecoveryDone[c]
      <4> DEFINE w == leaderOf[c]
      <4>1. IsLine(d) /\ d.code = CLOSE_RECOVERY
        BY <2>2, <3>2 DEF Takes
      <4>2. w \in Clients /\ st[w] \in {"leading", "gone"} /\ Entry(d) = best[w] /\ Elected(w)
        BY <1>2, <1>11, <4>1, SomeMessages DEF Follows
      <4>3. d.seq = best[w].seq /\ d.msg = best[w].msg /\ d.seq \in Nat
        BY <1>5, <4>1, <4>2 DEF Entry, Entries
      <4>4. ASSUME best[w].msg # None PROVE last'[c].seq >= best[w].seq
        <5>1. d.msg.type # CLOSE_RECOVERY
          BY <1>5, <4>1, <4>2, <4>3, <4>4 DEF Numbers, Plain
        <5>2. d \in Lines /\ Display(c, d)
          BY <4>1 DEF Takes
        <5>3. last'[c].seq = d.seq \/ (last'[c] = last[c] /\ d.seq <= last[c].seq)
          BY <5>1, <5>2, DisplayForm
        <5> QED BY <1>6, <4>3, <5>3
      <4> QED BY <1>1, <4>2, <4>4 DEF Resumed, Elected, recoverVars
    <3> QED BY <3>1, <3>2
  <2> QED BY <2>1, <2>2 DEF Resuming, Resumed
<1>14. /\ NoLine(box[c]) => NoLine(box'[c]) /\ ~IsLine(d)
       /\ NoRecovery(box[c]) => NoRecovery(box'[c])
       /\ RecoveryLast(box[c]) => RecoveryLast(box'[c])
       /\ RecoveryOnce(box[c]) => RecoveryOnce(box'[c])
  BY <1>1, ReadOther
<1>15. Following'
  <2>1. ASSUME NEW b \in Clients, b # c, st[b] = "client" PROVE Follows(b)'
    <3>1. Follows(b)
      BY <2>1 DEF Succession, Following
    <3> QED BY <1>1, <1>12, <2>1, <3>1, OverhearsFollows DEF recoverVars
  <2>2. isRecovery[c] \/ isRecoveryDone[c] => isRecovery'[c] \/ isRecoveryDone'[c]
    BY DEF Takes
  <2>3. Follows(c)'
    BY <1>1, <1>2, <1>11, <1>14, <2>2 DEF Follows, Elected, recoverVars
  <2> QED BY <1>1, <2>1, <2>3 DEF Following
<1>16. Recovering'
  <2>1. ASSUME NEW w \in Clients, st[w] = "recovering" PROVE Recovers(w)'
    <3>1. Recovers(w) /\ w # c
      BY <1>1, <2>1 DEF Succession, Recovering
    <3>2. ASSUME NEW b \in Clients, b # c, st[b] = "client" PROVE Collects(w, b)'
      <4>1. Collects(w, b)
        BY <3>1, <3>2 DEF Recovers
      <4> QED BY <1>1, <1>12, <3>2, <4>1, OverhearsCollects DEF leaderVars, recoverVars
    <3>3. Collects(w, c)'
      <4>1. Collects(w, c)
        BY <1>1, <3>1 DEF Recovers
      <4>2. NoLine(box[c]) => last'[c] = last[c]
        BY <1>3, <1>14
      <4> QED BY <1>1, <1>14, <4>1, <4>2 DEF Collects, Done, Turn, Later, leaderVars, recoverVars
    <3> QED BY <1>1, <1>3, <3>1, <3>2, <3>3 DEF Recovers, recoverVars
  <2> QED BY <1>1, <2>1 DEF Recovering
<1> QED BY <1>7, <1>8, <1>9, <1>10, <1>13, <1>15, <1>16 DEF Succession

\* Lines, ELECTION, LEADER and CLOSE_RECOVERY are all read like that.
LEMMA ReceiverTakes ==
  ASSUME Types, NEW c \in Clients,
         ReceiveMulticast(c) \/ ReceiveElection(c) \/ ReceiveLeader(c) \/ ReceiveClose(c)
  PROVE  Takes(c)
<1> DEFINE d == Head(box[c])
           codes == {DELETE} \cup {n \in CHAT..(CHAT + 1 + MaxLines) : IsChat(n)}
<1>1. ASSUME NEW S, Hears(c, S)
      PROVE  /\ st[c] = "client" /\ box[c] # <<>> /\ d \in Sent /\ d.code \in S
             /\ box' = [box EXCEPT ![c] = Tail(box[c])]
  <2>1. box[c] \in Seq(Sent)
    BY DEF Types, BoxType
  <2> QED BY <1>1, <2>1, TailElements DEF Hears
<1>2. CASE ReceiveMulticast(c)
  <2>1. Hears(c, codes) /\ Display(c, d)
        /\ UNCHANGED <<st, leaderVars, recoverVars, leaderOf, isRecovery, isRecoveryDone>>
    BY <1>2 DEF ReceiveMulticast
  <2>2. d \in Sent /\ d.code \in codes
    BY <1>1, <2>1
  <2>3. d \in Lines
    BY <2>2, LineCodes
  <2>4. d.code # RECOVERY /\ IsLine(d)
    BY <2>2, FailoverAssumption DEF IsLine, DELETE, CHAT, ELECTION, LEADER, RECOVERY
  <2> QED BY <1>1, <2>1, <2>3, <2>4 DEF Takes
<1>3. CASE ReceiveElection(c)
  <2>1. Hears(c, {ELECTION}) /\ UNCHANGED <<st, leaderVars, recoverVars, clientVars>>
    BY <1>3 DEF ReceiveElection
  <2>2. d.code # RECOVERY /\ ~IsLine(d)
    BY <1>1, <2>1 DEF IsLine, ELECTION, RECOVERY
  <2> QED BY <1>1, <2>1, <2>2 DEF Takes, clientVars
<1>4. CASE ReceiveLeader(c)
  <2>1. Hears(c, {LEADER}) /\ UNCHANGED <<st, leaderVars, recoverVars, clientVars>>
    BY <1>4 DEF ReceiveLeader
  <2>2. d.code # RECOVERY /\ ~IsLine(d)
    BY <1>1, <2>1 DEF IsLine, LEADER, RECOVERY
  <2> QED BY <1>1, <2>1, <2>2 DEF Takes, clientVars
<1>5. CASE ReceiveClose(c)
  <2>1. Hears(c, {CLOSE_RECOVERY}) /\ Display(c, d)
        /\ UNCHANGED <<st, leaderVars, recoverVars, leaderOf>>
        /\ isRecovery' = [isRecovery EXCEPT ![c] = FALSE]
        /\ isRecoveryDone' = [isRecoveryDone EXCEPT ![c] = TRUE]
    BY <1>5 DEF ReceiveClose
  <2>2. d \in Sent /\ d.code = CLOSE_RECOVERY
    BY <1>1, <2>1
  <2>3. d \in Lines
    BY <2>2, LineCodes
  <2>4. d.code # RECOVERY /\ IsLine(d)
    BY <2>2 DEF IsLine, CLOSE_RECOVERY, ELECTION, LEADER, RECOVERY
  <2>5. /\ \A b \in Clients : b # c =>
             isRecovery'[b] = isRecovery[b] /\ isRecoveryDone'[b] = isRecoveryDone[b]
        /\ isRecoveryDone'[c]
    BY <2>1 DEF Types, ClientType
  <2> QED BY <1>1, <2>1, <2>2, <2>3, <2>4, <2>5 DEF Takes
<1> QED BY <1>2, <1>3, <1>4, <1>5

\* Whoever reads RECOVERY has read all that the first leader sent it, and
\* answers with the last of it.
LEMMA ReceiveRecoverySucceeds ==
  ASSUME RTidy, NEW c \in Clients, ReceiveRecovery(c)
  PROVE  NoNews /\ Bounded' /\ Screened' /\ Succession'
<1> Tidy /\ Numbers /\ Succession /\ Types
  BY DEF RTidy, Tidy
<1> DEFINE d == Head(box[c])
<1>1. /\ st[c] = "client" /\ box[c] # <<>> /\ d.code = RECOVERY
      /\ UNCHANGED <<st, leaderVars, best, asking, isRecoveryDone, last, shown>>
      /\ box' = [box EXCEPT ![c] = Tail(box[c])]
      /\ leaderOf' = [leaderOf EXCEPT ![c] = d.from]
      /\ isRecovery' = [isRecovery EXCEPT ![c] = TRUE]
  BY DEF ReceiveRecovery, Hears
<1>2. box[c] \in Seq(Sent)
  BY DEF Types, BoxType
<1>3. /\ d \in Sent /\ 1 \in DOMAIN box[c] /\ d = box[c][1]
      /\ \A i \in DOMAIN Tail(box[c]) : i + 1 \in DOMAIN box[c] /\ Tail(box[c])[i] = box[c][i + 1]
  BY <1>1, <1>2, TailElements
<1>4. /\ NoLine(box[c]) => NoLine(Tail(box[c])) /\ ~IsLine(d)
      /\ RecoveryOnce(box[c]) => NoRecovery(Tail(box[c]))
      /\ RecoveryLast(box[c]) => NoLine(Tail(box[c]))
  BY <1>1, <1>2, ReadOther
<1>5. Follows(c) /\ RecoveryOnce(box[c])
  BY <1>1 DEF Succession, Following, Follows
<1>6. PICK w \in Clients : w = d.from /\ Elected(w) /\ w # c
  <2>1. d.from \in Clients /\ Elected(d.from)
    BY <1>1, <1>3, <1>5, SentForm DEF Follows
  <2> QED BY <1>1, <2>1 DEF Succession, OneElected
<1>7. leaderOf[c] = Leader
  BY <1>1, <1>3, <1>5 DEF Follows, NoRecovery
<1>8. /\ \A b \in Clients : b # c => /\ box'[b] = box[b] /\ leaderOf'[b] = leaderOf[b]
                                     /\ isRecovery'[b] = isRecovery[b]
      /\ box'[c] = Tail(box[c]) /\ leaderOf'[c] = w /\ isRecovery'[c]
  BY <1>1, <1>6 DEF Types, BoxType, ClientType
<1>9. /\ \A v \in Clients : v # w => answers'[v] = answers[v]
      /\ IF st[w] = "recovering" THEN answers'[w] = Append(answers[w], last[c])
         ELSE answers'[w] = answers[w]
  <2>1. answers' = IF st[w] = "recovering" THEN [answers EXCEPT ![w] = Append(@, last[c])]
                   ELSE answers
    BY <1>6 DEF ReceiveRecovery
  <2> HIDE DEF d
  <2> QED BY <1>6, <2>1 DEF Types, RecoveryType
<1> HIDE DEF d
<1>10. NoNews
  <2>1. \A m \in Leaders : con'[m].pc = "mcast" => con[m].pc = "mcast" /\ Multicast(m)' = Multicast(m)
    BY <1>1 DEF Multicast, Numbered, leaderVars
  <2>2. \A m \in Leaders : \A e \in Out(m)' : Old(e)
    BY <2>1, OutStays
  <2>3. \A b \in Clients : Undisturbed(b)
    BY <1>1, <1>8 DEF Undisturbed
  <2>4. \A b \in Clients : \A e \in Held(b)' : Old(e)
    BY <2>3, HeldStays
  <2>5. ASSUME NEW v \in Clients, NEW e \in Gathered(v)' PROVE Old(e)
    <3>1. CASE answers'[v] = answers[v]
      BY <1>1, <2>5, <3>1, Whereabouts DEF Gathered
    <3>2. CASE answers'[v] = Append(answers[v], last[c])
      <4>1. answers[v] \in Seq(Seen) /\ last[c] \in Seen
        BY DEF Types, RecoveryType, ClientType
      <4>2. \A i \in DOMAIN answers'[v] :
              answers'[v][i] = last[c] \/ (i \in DOMAIN answers[v] /\ answers'[v][i] = answers[v][i])
        BY <3>2, <4>1, AppendElements
      <4>3. Old(last[c])
        BY <1>1, Holdings DEF Old
      <4>4. \A f \in Gathered(v) : Old(f)
        BY Whereabouts
      <4> QED BY <1>1, <2>5, <4>2, <4>3, <4>4 DEF Gathered
    <3> QED BY <1>9, <3>1, <3>2
  <2> QED BY <2>2, <2>4, <2>5, NewsParts
<1>11. Bounded'
  BY <1>1, <1>10, BoundKept DEF Numbers, Top, Opened, leaderVars
<1>12. Screened'
  BY <1>1 DEF Numbers, Screened
<1>13. OneElected' /\ Surpassed' /\ AllFresh' /\ Silent'
  <2>1. OneElected' /\ Surpassed' /\ Silent'
    BY <1>1 DEF Succession, OneElected, Surpassed, Elected, Silent, leaderVars
  <2>2. AllFresh'
    BY <1>1, FreshStays DEF Succession, AllFresh, leaderVars
  <2> QED BY <2>1, <2>2
<1>14. Headed'
  BY <1>1, <1>7, <1>8, SomeMessages DEF Succession, Headed
<1>15. Resuming'
  <2>1. ~isRecoveryDone[c]
    BY <1>7, SomeMessages DEF Succession, Resuming, Resumed
  <2> QED BY <1>1, <1>8, <2>1 DEF Succession, Resuming, Resumed, Elected
<1>16. ASSUME NEW b \in Clients, b # c PROVE Overhears(b)
  BY <1>1, <1>8, <1>16 DEF Overhears
<1>17. Following'
  <2>1. ASSUME NEW b \in Clients, b # c, st[b] = "client" PROVE Follows(b)'
    <3>1. Follows(b)
      BY <2>1 DEF Succession, Following
    <3> QED BY <1>1, <1>16, <2>1, <3>1, OverhearsFollows
  <2>2. \A i \in DOMAIN box[c] : box[c][i].code # CLOSE_RECOVERY
    BY <1>5, <1>7, SomeMessages DEF Follows
  <2>3. NoRecovery(box'[c]) /\ RecoveryOnce(box'[c])
    BY <1>4, <1>5, <1>8, NoneLast
  <2>4. Elected(w)'
    BY <1>1, <1>6 DEF Elected
  <2>5. \A i \in DOMAIN box'[c] : box'[c][i].code \notin {RECOVERY, CLOSE_RECOVERY}
    BY <1>3, <1>8, <2>2, <2>3 DEF NoRecovery
  <2>6. Follows(c)'
    BY <1>8, <2>3, <2>4, <2>5 DEF Follows
  <2> QED BY <1>1, <2>1, <2>6 DEF Following
<1>18. Recovering'
  <2> SUFFICES ASSUME NEW v \in Clients, st[v] = "recovering" PROVE Recovers(v)'
    BY <1>1 DEF Recovering
  <2>1. Recovers(v) /\ v = w
    <3>1. Elected(v)
      BY RecoversAlone
    <3> QED BY <1>6, <3>1 DEF Succession, Recovering, OneElected
  <2>2. Collects(w, c)
    BY <1>1, <2>1 DEF Recovers
  <2>3. Turn(w, c) /\ answers[w] = <<>> /\ RecoveryLast(box[c])
    <3>1. ~Done(w, c)
      BY <1>6, <1>7, <2>2, SomeMessages DEF Collects
    <3>2. ~Later(w, c)
      BY <1>1, <1>3, <2>2 DEF Collects, NoRecovery
    <3>3. Turn(w, c)
      <4>1. asking[w].at \in Nat /\ c \in Nat
        <5>1. Clients \subseteq Nat
          BY FailoverAssumption
        <5>2. asking \in [Clients -> [at : {0} \cup Clients, waits : BOOLEAN]]
          BY DEF Types, RecoveryType
        <5>3. asking[w].at = 0 \/ asking[w].at \in Clients
          BY <1>6, <5>2
        <5>4. 0 \in Nat
          OBVIOUS
        <5>5. asking[w].at \in Nat
          BY <5>1, <5>3, <5>4, Zenon
        <5> QED BY <5>1, <5>5
      <4>2. c = asking[w].at
        BY <3>1, <3>2, <4>1 DEF Done, Later
      <4> QED BY <3>1, <4>2 DEF Done, Turn
    <3> QED BY <1>6, <1>7, <2>2, <3>3, SomeMessages DEF Collects
  <2>4. answers'[w] = <<last[c]>>
    BY <1>9, <2>1, <2>3
  <2>5. Collects(w, c)'
    <3>1. NoLine(box'[c]) /\ leaderOf'[c] = w /\ last'[c] = last[c]
      BY <1>1, <1>4, <1>8, <2>3
    <3>2. c \in room'[w] /\ Turn(w, c)' /\ asking' = asking
      BY <1>1, <2>2, <2>3 DEF Collects, Turn, leaderVars
    <3>3. ~Done(w, c)' /\ ~Later(w, c)'
      <4>1. c \in Nat
        BY FailoverAssumption
      <4> QED BY <3>2, <4>1 DEF Turn, Done, Later
    <3> QED BY <2>4, <3>1, <3>2, <3>3 DEF Collects
  <2>6. ASSUME NEW b \in Clients, b # c, st[b] = "client" PROVE Collects(w, b)'
    <3>1. Collects(w, b) /\ ~Turn(w, b)
      BY <2>1, <2>3, <2>6 DEF Recovers, Turn
    <3>2. box'[b] = box[b] /\ leaderOf'[b] = leaderOf[b]
      BY <1>8, <2>6
    <3> QED BY <1>1, <3>1, <3>2 DEF Collects, Done, Turn, Later, leaderVars
  <2>7. Len(answers'[w]) <= (IF asking'[w].waits THEN 1 ELSE 0)
    BY <1>1, <2>3, <2>4 DEF Turn
  <2> QED BY <1>1, <2>1, <2>5, <2>6, <2>7 DEF Recovers
<1> QED BY <1>10, <1>11, <1>12, <1>13, <1>14, <1>15, <1>17, <1>18 DEF Succession

\* Who is elected has not heard of another, so that there has been none; and
\* everyone alive is in its map and still follows the first leader.
LEMMA BecomeLeaderSucceeds ==
  ASSUME RTidy, NEW c \in Clients, BecomeLeader(c)
  PROVE  NoNews /\ Bounded' /\ Screened' /\ Succession'
<1> Tidy /\ Numbers /\ Succession /\ Types /\ Calm /\ Clientwise /\ Announced
  BY DEF RTidy, Tidy
<1> c \in Leaders /\ c # Leader /\ Leader \in Leaders /\ Clients \subseteq Leaders
  BY SomeMessages
<1>1. /\ st[c] = "client" /\ Declares(c)
      /\ box' = [box EXCEPT ![c] = <<>>]
      /\ st' = [st EXCEPT ![c] = "recovering"]
      /\ room' = [room EXCEPT ![c] = roster[c] \cap Clients]
      /\ best' = [best EXCEPT ![c] = last[c]]
      /\ UNCHANGED <<queue, seqNum, con, asking, answers, clientVars>>
  BY DEF BecomeLeader, NewSocket, Dead, Declares
<1>2. /\ st'[c] = "recovering" /\ \A l \in Leaders : l # c => st'[l] = st[l]
      /\ box'[c] = <<>> /\ \A d \in Clients : d # c => box'[d] = box[d]
      /\ best'[c] = last[c] /\ \A d \in Clients : d # c => best'[d] = best[d]
      /\ room'[c] = roster[c] \cap Clients
  BY <1>1 DEF Types, BoxType, LeaderType, RecoveryType
<1>3. ~Knows(c) /\ ~leaderFound[c]
  BY <1>1 DEF Clientwise, Sound, Sole, Knows
<1>4. \A v \in Clients : ~Elected(v)
  <2> SUFFICES ASSUME NEW v \in Clients, Elected(v) PROVE FALSE
    OBVIOUS
  <2>1. v # c
    BY <1>1 DEF Succession, OneElected
  <2>2. Told(v, c)
    BY DEF Told, Elected
  <2> QED BY <1>1, <1>3, <2>1, <2>2 DEF Announced, Heard
<1>5. \A v \in Clients : st[v] \in {"client", "gone"}
  <2> SUFFICES ASSUME NEW v \in Clients, Lives(v) PROVE FALSE
    BY DEF Lives, Types, LeaderType
  <2>1. best[v] \in Seen
    BY DEF Types, RecoveryType
  <2> QED BY <1>4, <2>1 DEF Elected, Seen
<1>6. st[Leader] = "gone"
  <2>1. \E t \in Threads : thread[c][t].pc # "none"
    BY <1>1 DEF Declares
  <2>2. st[Leader] # "leading"
    BY <1>1, <2>1 DEF Calm
  <2> QED BY <2>2 DEF Types, LeaderType
<1>7. \A l \in Leaders : st'[l] # "leading"
  BY <1>2, <1>5, <1>6 DEF Leaders
<1>8. ASSUME NEW d \in Clients, st[d] = "client"
      PROVE  /\ leaderOf[d] = Leader /\ NoRecovery(box[d])
             /\ \A i \in DOMAIN box[d] : box[d][i].code # CLOSE_RECOVERY
  <2>1. Follows(d) /\ box[d] \in Seq(Sent) /\ leaderOf[d] \in Leaders
    BY <1>8 DEF Succession, Following, Types, BoxType, ClientType
  <2>2. leaderOf[d] = Leader
    BY <1>4, <2>1 DEF Follows, Leaders
  <2>3. ASSUME NEW i \in DOMAIN box[d] PROVE box[d][i].code # RECOVERY
    <3>1. box[d][i] \in Sent
      BY <2>1
    <3>2. box[d][i].code = RECOVERY => box[d][i].from \in Clients
      BY <3>1, SentForm
    <3> QED BY <1>4, <2>1, <3>2 DEF Follows
  <2> QED BY <2>1, <2>2, <2>3, SomeMessages DEF Follows, NoRecovery
<1>9. last[c] \in Seen /\ last'[c] = last[c]
  BY <1>1 DEF Types, ClientType, clientVars
<1>10. NoNews
  <2>1. ASSUME NEW m \in Leaders, con'[m].pc = "mcast"
        PROVE  con[m].pc = "mcast" /\ Multicast(m)' = Multicast(m)
    <3>1. con[m].pc = "mcast"
      BY <1>1, <2>1
    <3>2. m # c
      BY <1>1, <3>1 DEF Succession, AllFresh, Fresh
    <3>3. m # Leader
      BY <1>6, <3>1 DEF Succession, Silent
    <3>4. m \in Clients
      BY <3>3 DEF Leaders
    <3> QED BY <1>1, <1>2, <3>1, <3>2, <3>4 DEF Multicast, Numbered
  <2>2. \A m \in Leaders : \A e \in Out(m)' : Old(e)
    BY <2>1, OutStays
  <2>3. \A d \in Clients : Undisturbed(d)
    BY <1>1, <1>2 DEF Undisturbed, clientVars
  <2>4. \A d \in Clients : \A e \in Held(d)' : Old(e)
    BY <2>3, HeldStays
  <2>5. ASSUME NEW v \in Clients, NEW e \in Gathered(v)' PROVE Old(e)
    <3>1. CASE v # c
      BY <1>1, <1>2, <2>5, <3>1, Whereabouts DEF Gathered
    <3>2. CASE v = c
      <4>1. Old(last[c])
        BY <1>1, Holdings DEF Old
      <4>2. \A f \in Gathered(v) : Old(f)
        BY Whereabouts
      <4> QED BY <1>1, <1>2, <2>5, <3>2, <4>1, <4>2 DEF Gathered
    <3> QED BY <3>1, <3>2
  <2> QED BY <2>2, <2>4, <2>5, NewsParts
<1>11. Bounded' /\ Headed'
  BY <1>7 DEF Bounded, Headed
<1>12. Screened'
  BY <1>1 DEF Numbers, Screened, clientVars
<1>13. OneElected' /\ Surpassed'
  <2>1. last[c].seq \in Nat /\ last'[c].seq <= best'[c].seq
    BY <1>2, <1>9 DEF Seen
  <2> QED BY <1>2, <1>4, <1>6, <2>1 DEF OneElected, Surpassed, Elected
<1>14. AllFresh'
  <2>1. ASSUME NEW v \in Clients, v # c PROVE Fresh(v)'
    BY <1>1, <1>2, <2>1, FreshStays DEF Succession, AllFresh
  <2>2. Fresh(c)'
    BY <1>1, <1>2 DEF Succession, AllFresh, Fresh
  <2> QED BY <2>1, <2>2 DEF AllFresh
<1>15. Silent'
  BY <1>1, <1>2 DEF Succession, Silent
<1>16. Resuming'
  <2>1. ASSUME NEW d \in Clients, isRecoveryDone'[d] PROVE Resumed(d)'
    <3>1. /\ leaderOf[d] \in Clients /\ st[leaderOf[d]] \in {"leading", "gone"}
          /\ Elected(leaderOf[d])
          /\ best[leaderOf[d]].msg # None => last[d].seq >= best[leaderOf[d]].seq
      BY <1>1, <2>1 DEF Succession, Resuming, Resumed, clientVars
    <3>2. leaderOf[d] # c /\ leaderOf'[d] = leaderOf[d] /\ last'[d] = last[d]
      BY <1>1, <3>1 DEF clientVars
    <3> QED BY <1>2, <3>1, <3>2 DEF Resumed, Elected
  <2> QED BY <2>1 DEF Resuming, Resumed
<1>17. Following'
  <2>1. ASSUME NEW d \in Clients, st'[d] = "client" PROVE Follows(d)'
    <3>1. d # c /\ st[d] = "client" /\ box'[d] = box[d] /\ leaderOf'[d] = leaderOf[d]
      BY <1>1, <1>2, <2>1 DEF clientVars
    <3>2. leaderOf[d] = Leader /\ NoRecovery(box[d]) /\ RecoveryOnce(box[d])
          /\ \A i \in DOMAIN box[d] : box[d][i].code \notin {RECOVERY, CLOSE_RECOVERY}
      BY <1>8, <3>1, NoneLast DEF NoRecovery
    <3> QED BY <3>1, <3>2 DEF Follows
  <2> QED BY <2>1 DEF Following
<1>18. Recovering'
  <2>1. asking[c] = [at |-> 0, waits |-> FALSE] /\ asking' = asking
    BY <1>1 DEF Succession, AllFresh, Fresh
  <2>2. answers'[c] = <<>>
    BY <1>1 DEF Types, RecoveryType, Lives
  <2>3. ASSUME NEW d \in Clients, st'[d] = "client" PROVE Collects(c, d)'
    <3>1. d # c /\ st[d] = "client" /\ box'[d] = box[d] /\ leaderOf'[d] = leaderOf[d]
      BY <1>1, <1>2, <2>3 DEF clientVars
    <3>2. d \in roster[c]
      BY <1>1, <1>3, <3>1 DEF Clientwise, Sound, Unaware
    <3>3. d > 0 /\ d \in Nat
      BY FailoverAssumption
    <3>4. ~Done(c, d)' /\ ~Turn(c, d)'
      BY <2>1, <3>3 DEF Done, Turn
    <3> QED BY <1>2, <1>8, <3>1, <3>2, <3>4 DEF Collects
  <2>4. Recovers(c)'
    <3>1. Len(answers'[c]) = 0 /\ ~asking'[c].waits
      BY <2>1, <2>2
    <3>2. last'[c].seq <= best'[c].seq
      BY <1>2, <1>9 DEF Seen
    <3> QED BY <2>3, <3>1, <3>2 DEF Recovers
  <2>5. \A v \in Clients : st'[v] = "recovering" => v = c
    BY <1>2, <1>5
  <2> QED BY <2>4, <2>5 DEF Recovering
<1> QED BY <1>10, <1>11, <1>12, <1>13, <1>14, <1>15, <1>16, <1>17, <1>18 DEF Succession

------------------------------------------------------------------------------
(* The invariant.                                                           *)

\* Before the crash, each number is the notice of who joined with it.
LEMMA InitNumbers == Init => Numbers /\ Succession
<1> SUFFICES ASSUME Init PROVE Numbers /\ Succession
  OBVIOUS
<1> USE SomeMessages
<1>1. PICK G \in Groups : GroupInit(G)
  BY DEF Init
<1> DEFINE size == Cardinality(G)
<1>2. /\ G \subseteq Clients /\ size \in Nat \ {0}
      /\ \A c \in G : Joined(G, c) \in 1..size
  BY Newcomers
<1> HIDE DEF size
<1>3. \A n : Welcome(G, n).seq = n /\ Welcome(G, n).msg.type # CLOSE_RECOVERY
  BY DEF Welcome, Notice, ADD_USER, CLOSE_RECOVERY
<1>4. ASSUME NEW c \in Clients
      PROVE  /\ st[c] \in {"client", "gone"} /\ box[c] = <<>> /\ answers[c] = <<>>
             /\ best[c] = [seq |-> 0, msg |-> None] /\ asking[c] = [at |-> 0, waits |-> FALSE]
             /\ queue[c] = <<>> /\ con[c].pc = "pop"
             /\ leaderOf[c] = Leader /\ ~isRecoveryDone[c] /\ last[c] = Welcome(G, size)
             /\ \A i \in DOMAIN shown[c] :
                  shown[c][i].seq \in 1..size /\ shown[c][i] = Welcome(G, shown[c][i].seq)
  <2>1. /\ box[c] = <<>> /\ answers[c] = <<>>
        /\ best[c] = [seq |-> 0, msg |-> None] /\ asking[c] = [at |-> 0, waits |-> FALSE]
        /\ queue[c] = <<>> /\ con[c].pc = "pop" /\ leaderOf[c] = Leader /\ ~isRecoveryDone[c]
    BY DEF Init, Idle
  <2>2. st[c] \in {"client", "gone"} /\ last[c] = Welcome(G, size)
    BY <1>1 DEF GroupInit, size
  <2>3. ASSUME NEW i \in DOMAIN shown[c]
        PROVE  shown[c][i].seq \in 1..size /\ shown[c][i] = Welcome(G, shown[c][i].seq)
    <3>1. CASE c \notin G
      <4>1. shown[c] = <<>>
        BY <1>1, <3>1 DEF GroupInit
      <4> QED BY <4>1
    <3>2. CASE c \in G
      <4> DEFINE n == Joined(G, c)
      <4>1. shown[c] = [j \in 1..(size + 1 - n) |-> Welcome(G, n + j - 1)]
        BY <1>1, <3>2 DEF GroupInit, size
      <4>2. n \in 1..size
        BY <1>2, <3>2
      <4> HIDE DEF n
      <4>3. n + i - 1 \in 1..size /\ shown[c][i] = Welcome(G, n + i - 1)
        BY <1>2, <4>1, <4>2
      <4> QED BY <1>3, <4>3
    <3> QED BY <3>1, <3>2
  <2> QED BY <2>1, <2>2, <2>3
<1>5. \A l \in Leaders : con[l].pc = "pop" /\ (st[l] = "leading" => l = Leader)
  BY <1>1 DEF Init, GroupInit, Idle
<1>6. seqNum[Leader] = size
  BY <1>1 DEF GroupInit, size
<1>7. ASSUME NEW e \in Extant
      PROVE  \/ e.seq \in 1..size /\ e = Welcome(G, e.seq)
             \/ e = [seq |-> 0, msg |-> None]
  <2>1. ASSUME NEW c \in Clients, e \in Held(c)
        PROVE  e.seq \in 1..size /\ e = Welcome(G, e.seq)
    BY <1>2, <1>3, <1>4, <2>1 DEF Held, InBox
  <2>2. ASSUME NEW l \in Leaders PROVE e \notin Out(l)
    BY <1>5 DEF Out
  <2>3. ASSUME NEW w \in Clients, e \in Gathered(w) PROVE e = [seq |-> 0, msg |-> None]
    BY <1>4, <2>3 DEF Gathered
  <2> QED BY <2>1, <2>2, <2>3 DEF Extant
<1>8. Agree
  BY <1>7 DEF Agree
<1>9. Plain
  BY <1>3, <1>7 DEF Plain
<1>10. Bounded
  <2>1. \A e \in Extant : e.seq <= size
    BY <1>2, <1>7
  <2>2. Top(Leader) = size
    BY <1>6 DEF Top
  <2> QED BY <1>5, <2>1, <2>2 DEF Bounded
<1>11. Screened
  BY <1>2, <1>3, <1>4 DEF Screened
<1>12. \A w \in Clients : ~Elected(w)
  BY <1>4 DEF Elected
<1>13. OneElected /\ Surpassed /\ Recovering /\ Headed /\ Resuming
  BY <1>4, <1>12 DEF OneElected, Surpassed, Recovering, Headed, Resuming, Resumed
<1>14. AllFresh /\ Following
  BY <1>4 DEF AllFresh, Fresh, Following, Follows, RecoveryOnce
<1>15. Silent
  BY <1>5 DEF Silent
<1> QED BY <1>8, <1>9, <1>10, <1>11, <1>13, <1>14, <1>15 DEF Numbers, Succession

\* What has not gone orderly does not become so.
LEMMA NextOrderly == Types /\ [Next]_vars /\ Orderly' => Orderly
<1> SUFFICES ASSUME Types, [Next]_vars, ~overtaken', ~raced' PROVE ~overtaken /\ ~raced
  BY DEF Orderly, DistinctPorts
<1>1. CASE UNCHANGED vars
  BY <1>1 DEF vars, recoverVars, electionVars
<1>2. CASE Next
  <2>1. ~raced
    BY <1>2, NextRaced
  <2>2. ASSUME NEW l \in Leaders,
               \/ SenderTop(l) \/ LeaderTypes(l) \/ LeaderStep(l) \/ Crash(l)
               \/ \E c \in Clients : Eliminate(l, c)
        PROVE  ~overtaken
    <3>1. PopMessage(l) => ~overtaken
      BY DEF PopMessage
    <3> QED BY <2>2, <3>1 DEF SenderTop, LeaderTypes, LeaderStep, HandleChat, NextRecipient,
          Eliminate, Crash, recoverVars
  <2>3. ASSUME NEW c \in Clients, DetectFailure(c) \/ RecoveryStep(c) \/ SendChat(c) \/ Receiver(c)
        PROVE  ~overtaken
    BY <2>3 DEF DetectFailure, RecoveryStep, AskMember, HearAnswer, GiveUp, StartThreads, SendChat,
       Receiver, ReceiveMulticast, ReceiveElection, ReceiveLeader, ReceiveRecovery, ReceiveClose,
       BecomeLeader, recoverVars
  <2>4. ASSUME NEW c \in Clients, NEW t \in Threads, ElectionStep(c, t) PROVE ~overtaken
    BY <2>4 DEF ElectionStep, StartElection, SendElection, WakeUp, TellOthers, recoverVars
  <2> QED BY <1>2, <2>1, <2>2, <2>3, <2>4 DEF Next
<1> QED BY <1>1, <1>2

\* A step that goes orderly preserves what has held until then.
LEMMA NextRTidy ==
  ASSUME RTidy, [Next]_vars, ~overtaken'
  PROVE  Numbers' /\ Succession'
<1> Types /\ Tidy /\ Agree /\ Plain
  BY DEF RTidy, Tidy, Numbers
<1>2. ASSUME NoNews /\ Bounded' /\ Screened' /\ Succession'
      PROVE  Numbers' /\ Succession'
  BY <1>2, NoNewsKeeps DEF Numbers
<1>3. ASSUME NEW l \in Leaders,
             \/ SenderTop(l) \/ LeaderTypes(l) \/ LeaderStep(l) \/ Crash(l)
             \/ \E c \in Clients : Eliminate(l, c)
      PROVE  Numbers' /\ Succession'
  <2>1. CASE PopMessage(l)
    BY <2>1, PopMessageSucceeds
  <2>2. CASE ~PopMessage(l)
    BY <1>2, <1>3, <2>2, LeaderTypesSucceeds, LeaderPushesSucceeds, NextRecipientSucceeds,
       CrashSucceeds
    DEF LeaderStep
  <2> QED BY <2>1, <2>2
<1>4. ASSUME NEW c \in Clients,
             \/ DetectFailure(c) \/ RecoveryStep(c) \/ SendChat(c)
             \/ \E t \in Threads : ElectionStep(c, t)
      PROVE  Numbers' /\ Succession'
  <2>1. CASE HearAnswer(c) \/ GiveUp(c)
    BY <2>1, RecoveryAnswersSucceeds
  <2>2. CASE ~HearAnswer(c) /\ ~GiveUp(c)
    BY <1>2, <1>4, <2>2, ElectionSucceeds, AskMemberSucceeds, StartThreadsSucceeds,
       SendChatSucceeds
    DEF RecoveryStep
  <2> QED BY <2>1, <2>2
<1>5. ASSUME NEW c \in Clients, Receiver(c) PROVE Numbers' /\ Succession'
  <2>1. CASE ReceiveRecovery(c) \/ BecomeLeader(c)
    BY <1>2, <2>1, ReceiveRecoverySucceeds, BecomeLeaderSucceeds
  <2>2. CASE ~ReceiveRecovery(c) /\ ~BecomeLeader(c)
    <3>1. Takes(c)
      BY <1>5, <2>2, ReceiverTakes DEF Receiver
    <3> QED BY <1>2, <3>1, TakesSucceeds
  <2> QED BY <2>1, <2>2
<1>6. ASSUME UNCHANGED vars PROVE Numbers' /\ Succession'
  <2> Numbers /\ Succession
    BY DEF RTidy
  <2>1. UNCHANGED <<st, leaderVars, recoverVars, clientVars, box>>
    BY <1>6 DEF vars
  <2>2. /\ \A c \in Clients : Held(c)' = Held(c)
        /\ \A l \in Leaders : Out(l)' = Out(l)
        /\ \A w \in Clients : Gathered(w)' = Gathered(w)
    BY <2>1 DEF Held, InBox, Out, Multicast, Gathered, leaderVars, recoverVars, clientVars
  <2>3. Extant' = Extant
    BY <2>2 DEF Extant
  <2>4. Numbers'
    BY <2>1, <2>3 DEF Numbers, Screened, Plain, Agree, Bounded, Top, Opened, leaderVars, clientVars
  <2>5. OneElected' /\ Surpassed' /\ AllFresh' /\ Headed' /\ Resuming' /\ Silent'
    BY <2>1, SuccessionStays, FreshStays
    DEF Succession, AllFresh, Silent, leaderVars, recoverVars, clientVars
  <2>6. Recovering'
    BY <2>1 DEF Succession, Recovering, Recovers, Collects, Done, Turn, Later, leaderVars,
       recoverVars, clientVars
  <2>7. Following'
    BY <2>1 DEF Succession, Following, Follows, Elected, leaderVars, recoverVars, clientVars
  <2> QED BY <2>4, <2>5, <2>6, <2>7 DEF Succession
<1> QED BY <1>3, <1>4, <1>5, <1>6 DEF Next

\* Every step preserves the invariant.
LEMMA NextRInv == RInv /\ [Next]_vars => RInv'
<1> SUFFICES ASSUME RInv, [Next]_vars PROVE RInv'
  OBVIOUS
<1>1. IInv /\ Types /\ IInv'
  BY NextIInv DEF RInv, IInv
<1>2. ASSUME Orderly' PROVE Numbers' /\ Succession'
  <2>1. Orderly
    BY <1>1, <1>2, NextOrderly
  <2>2. RTidy
    BY <2>1 DEF RInv, IInv, RTidy, Tidy, Orderly
  <2>3. ~overtaken'
    BY <1>2 DEF Orderly
  <2> QED BY <2>2, <2>3, NextRTidy
<1> QED BY <1>1, <1>2 DEF RInv

\* All of it holds throughout.
THEOREM RecoveryInvariance == Spec => []RInv
<1>1. Init => RInv
  BY InitIInv, InitNumbers DEF RInv
<1> QED BY <1>1, NextRInv, PTL DEF Spec

------------------------------------------------------------------------------
(* The screens.                                                             *)

\* Nobody who has gone shows anything, and nobody shows the empty message.
Legible ==
  \A c \in Clients :
    /\ st[c] = "gone" => shown[c] = <<>>
    /\ \A i \in DOMAIN shown[c] : shown[c][i].msg # None

\* c shows the next extant message, e.
Shows(c, e) ==
  /\ st[c] = "client" /\ e.seq > last[c].seq /\ e.msg # None
  /\ shown' = [shown EXCEPT ![c] = Append(shown[c], e)]
Clears(c) == shown' = [shown EXCEPT ![c] = <<>>]

\* A screen is changed by a receiver that shows a line, or by a crash.
LEMMA ShownSteps ==
  ASSUME IInv, [Next]_vars
  PROVE  \/ shown' = shown /\ \A c \in Clients : st'[c] = "gone" => st[c] = "gone"
         \/ \E c \in Clients :
              Clears(c) /\ \A d \in Clients : d # c => (st'[d] = "gone" => st[d] = "gone")
         \/ st' = st /\ \E c \in Clients : \E e \in Extant : Shows(c, e)
<1> Types
  BY DEF IInv
<1> DEFINE Stays == shown' = shown /\ \A c \in Clients : st'[c] = "gone" => st[c] = "gone"
<1>1. ASSUME NEW l \in Leaders,
             \/ SenderTop(l) \/ LeaderTypes(l) \/ LeaderStep(l)
             \/ \E c \in Clients : Eliminate(l, c)
      PROVE  Stays
  <2>1. UNCHANGED <<st, shown>>
    BY <1>1 DEF SenderTop, LeaderTypes, LeaderStep, HandleChat, PopMessage, NextRecipient,
                Eliminate, clientVars
  <2> QED BY <2>1
<1>2. ASSUME NEW p \in Leaders, Crash(p)
      PROVE  \/ Stays
             \/ \E c \in Clients :
                  Clears(c) /\ \A d \in Clients : d # c => (st'[d] = "gone" => st[d] = "gone")
  <2>1. st' = [st EXCEPT ![p] = "gone"]
    BY <1>2 DEF Crash
  <2>2. IF p = Leader THEN shown' = shown ELSE Clears(p)
    BY <1>2 DEF Crash, Clears
  <2>3. \A d \in Clients : d # p => st'[d] = st[d]
    BY <2>1, SomeMessages DEF Types, LeaderType
  <2> QED BY <2>2, <2>3, SomeMessages DEF Leaders
<1>3. ASSUME NEW c \in Clients,
             \/ DetectFailure(c) \/ RecoveryStep(c) \/ SendChat(c)
             \/ \E t \in Threads : ElectionStep(c, t)
      PROVE  Stays
  <2>1. shown' = shown /\ (st' = st \/ st' = [st EXCEPT ![c] = "leading"])
    BY <1>3 DEF ElectionStep, DetectFailure, StartElection, SendElection, WakeUp, TellOthers,
                RecoveryStep, AskMember, HearAnswer, GiveUp, StartThreads, SendChat, clientVars
  <2> QED BY <2>1, SomeMessages DEF Types, LeaderType
<1>4. ASSUME NEW c \in Clients,
             ReceiveElection(c) \/ ReceiveLeader(c) \/ ReceiveRecovery(c) \/ BecomeLeader(c)
      PROVE  Stays
  <2>1. shown' = shown /\ (st' = st \/ st' = [st EXCEPT ![c] = "recovering"])
    BY <1>4 DEF ReceiveElection, ReceiveLeader, ReceiveRecovery, BecomeLeader, clientVars
  <2> QED BY <2>1, SomeMessages DEF Types, LeaderType
<1>5. ASSUME NEW c \in Clients, ReceiveMulticast(c) \/ ReceiveClose(c)
      PROVE  Stays \/ (st' = st /\ \E e \in Extant : Shows(c, e))
  <2> DEFINE d == Head(box[c])
  <2>1. Display(c, d) /\ st' = st
    BY <1>5 DEF ReceiveMulticast, ReceiveClose
  <2>2. CASE shown' = shown
    BY <2>1, <2>2
  <2>3. CASE d.seq > last[c].seq /\ d.msg.type # CLOSE_RECOVERY
    <3>1. st[c] = "client" /\ box[c] # <<>> /\ (d \in Lines => IsLine(d))
      <4>1. IsLine(d) \/ d \notin Lines
        BY Distinct DEF IsLine, Lines, CLOSE_RECOVERY, ELECTION, LEADER, RECOVERY
      <4> QED BY <1>5, <4>1 DEF ReceiveMulticast, ReceiveClose, Hears
    <3>2. d \in Lines
      <4>1. CASE ReceiveMulticast(c)
        BY <4>1, HearsTypes, LineCodes DEF ReceiveMulticast
      <4>2. CASE ReceiveClose(c)
        BY <4>2, HearsTypes, LineCodes DEF ReceiveClose
      <4> QED BY <1>5, <4>1, <4>2
    <3>3. box[c] \in Seq(Sent)
      BY DEF Types, BoxType
    <3>4. Entry(d) \in Extant
      BY <3>1, <3>2, <3>3, Holdings, TailElements
    <3>5. shown' = [shown EXCEPT ![c] = Append(shown[c], Entry(d))]
      BY <2>1, <2>3 DEF Display, Entry
    <3>6. Entry(d).seq > last[c].seq /\ Entry(d).msg # None
      BY <2>3 DEF Entry, None
    <3>7. Shows(c, Entry(d))
      BY <3>1, <3>5, <3>6 DEF Shows
    <3> QED BY <2>1, <3>4, <3>7
  <2> QED BY <2>1, <2>2, <2>3 DEF Display
<1>6. CASE UNCHANGED vars
  BY <1>6 DEF vars, clientVars
<1> HIDE DEF Stays
<1>7. CASE Next
  BY <1>1, <1>2, <1>3, <1>4, <1>5, <1>7 DEF Next, Receiver, Stays
<1> QED BY <1>6, <1>7 DEF Stays

\* What is on the screens before the crash is there to be read.
LEMMA InitLegible == Init => Legible
<1> SUFFICES ASSUME Init, NEW c \in Clients
             PROVE  /\ st[c] = "gone" => shown[c] = <<>>
                    /\ \A i \in DOMAIN shown[c] : shown[c][i].msg # None
  BY DEF Legible
<1>1. PICK G \in Groups : GroupInit(G)
  BY DEF Init
<1>2. \A n : Welcome(G, n).msg # None
  BY DEF Welcome, Notice, None, ADD_USER, CLOSE_RECOVERY
<1>3. CASE c \notin G
  <2>1. shown[c] = <<>>
    BY <1>1, <1>3 DEF GroupInit
  <2> QED BY <2>1
<1>4. CASE c \in G
  <2>1. st[c] = "client"
    BY <1>1, <1>4, SomeMessages DEF GroupInit
  <2>2. \A i \in DOMAIN shown[c] : \E n : shown[c][i] = Welcome(G, n)
    BY <1>1, <1>4 DEF GroupInit
  <2> QED BY <1>2, <2>1, <2>2
<1> QED BY <1>3, <1>4

\* It remains so.
LEMMA NextLegible ==
  ASSUME IInv, Legible, [Next]_vars
  PROVE  Legible'
<1> shown \in [Clients -> Seq(Entries)]
  BY DEF IInv, Types, ClientType
<1>1. CASE shown' = shown /\ \A c \in Clients : st'[c] = "gone" => st[c] = "gone"
  BY <1>1 DEF Legible
<1>2. ASSUME NEW c \in Clients, Clears(c),
             \A d \in Clients : d # c => (st'[d] = "gone" => st[d] = "gone")
      PROVE  Legible'
  BY <1>2 DEF Legible, Clears
<1>3. ASSUME st' = st, NEW c \in Clients, NEW e \in Extant, Shows(c, e)
      PROVE  Legible'
  <2>1. e \in Entries
    BY EntriesOf DEF IInv
  <2>2. /\ shown'[c] = Append(shown[c], e) /\ e.msg # None /\ st[c] = "client"
        /\ \A d \in Clients : d # c => shown'[d] = shown[d]
    BY <1>3 DEF Shows
  <2>3. \A i \in DOMAIN shown'[c] :
          shown'[c][i] = e \/ (i \in DOMAIN shown[c] /\ shown'[c][i] = shown[c][i])
    BY <2>1, <2>2, AppendElements
  <2> QED BY <1>3, <2>2, <2>3 DEF Legible
<1> QED BY <1>1, <1>2, <1>3, ShownSteps

\* What a client shows is extant, and is no empty message.
LEMMA ScreensExtant ==
  ASSUME IInv, Legible, NEW c \in Clients, NEW i \in DOMAIN shown[c]
  PROVE  shown[c][i] \in Extant /\ shown[c][i].msg # None
<1>1. st[c] # "gone"
  BY DEF Legible, IInv, Types, ClientType
<1> QED BY <1>1, Holdings DEF Legible

------------------------------------------------------------------------------
(* The theorems.                                                            *)

\* A leader numbers on, for any group, whoever crashes, as long as it goes
\* orderly: what it is about to number comes after all that a member has shown.
THEOREM NumbersGoOn == Spec => []NumbersOnward
<1>1. RInv => NumbersOnward
  <2> SUFFICES ASSUME RInv, Orderly, NEW l \in Leaders, NEW c \in Clients, st[l] = "leading",
                      Opened(l), st[c] = "client"
               PROVE  last[c].seq <= seqNum[l]
    BY DEF NumbersOnward
  <2>1. last[c].seq <= Top(l)
    BY Holdings DEF RInv, Numbers, Bounded
  <2> QED BY <2>1 DEF Top
<1> QED BY <1>1, RecoveryInvariance, PTL

\* No message that a surviving member has shown last is missing, after the
\* recovery, at another member that has come through it, as long as it goes
\* orderly; and the new leader has missed none that it had seen itself.
THEOREM RecoveryCompletes == Spec => []RecoveredUpToDate
<1>1. RInv => RecoveredUpToDate
  <2> SUFFICES ASSUME RInv, Orderly, NEW c \in Clients, NEW w \in Clients, leaderOf[c] = w,
                      isRecoveryDone[c], best[w].msg # None
               PROVE  last[c].seq >= best[w].seq /\ best[w].seq >= last[w].seq
    BY DEF RecoveredUpToDate
  <2>1. Elected(w) /\ last[c].seq >= best[w].seq
    BY DEF RInv, Succession, Resuming, Resumed
  <2>2. last[w].seq <= best[w].seq
    BY <2>1 DEF RInv, Succession, Surpassed
  <2>3. last[w].seq \in Nat /\ best[w].seq \in Nat
    BY DEF RInv, IInv, Types, ClientType, RecoveryType, Seen, Entries
  <2> QED BY <2>1, <2>2, <2>3
<1> QED BY <1>1, RecoveryInvariance, PTL

\* All of it, with what can be read.
LEMMA LegibleInvariance == Spec => [](RInv /\ Legible)
<1>1. RInv /\ Legible /\ [Next]_vars => Legible'
  BY NextLegible DEF RInv
<1> QED BY <1>1, RecoveryInvariance, InitLegible, PTL DEF Spec

\* Two screens never show two messages under one number, whoever leads, as long
\* as no client races with itself and nothing passes CLOSE_RECOVERY.
THEOREM ScreensAgree == Spec => [](Orderly => TotalOrder)
<1>1. RInv /\ Legible => (Orderly => TotalOrder)
  BY ScreensExtant DEF TotalOrder, RInv, Numbers, Agree
<1> QED BY <1>1, LegibleInvariance, PTL

\* On a screen that has been shown before the crash, numbers follow each other.
LEMMA InitScreens == Init => Screens!SInit
<1> SUFFICES ASSUME Init, NEW c \in Clients, NEW i \in DOMAIN shown[c]
             PROVE  /\ Screens!Agreed(shown[c][i].seq, shown[c][i].msg)
                    /\ i > 1 => shown[c][i - 1].seq < shown[c][i].seq
  BY DEF Screens!SInit
<1>1. IInv /\ Numbers /\ Legible
  BY InitIInv, InitNumbers, InitLegible
<1>2. Screens!Agreed(shown[c][i].seq, shown[c][i].msg)
  BY <1>1, ScreensExtant DEF Screens!Agreed, Numbers, Agree
<1>3. ASSUME i > 1 PROVE shown[c][i - 1].seq < shown[c][i].seq
  <2>1. PICK G \in Groups : GroupInit(G)
    BY DEF Init
  <2> DEFINE n == Joined(G, c)
             k == Cardinality(G) + 1 - n
             At(j) == Welcome(G, n + j - 1)
  <2>2. c \in G /\ shown[c] = [j \in 1..k |-> At(j)]
    <3>1. c \notin G => shown[c] = <<>>
      BY <2>1 DEF GroupInit
    <3>2. c \in G
      BY <3>1
    <3> QED BY <2>1, <3>2 DEF GroupInit
  <2>3. k \in Int /\ n \in Int
    BY <2>2, Newcomers
  <2>4. \A j : At(j).seq = n + j - 1
    BY DEF Welcome
  <2> HIDE DEF n, k, At
  <2>5. i \in 1..k /\ i - 1 \in 1..k
    BY <1>3, <2>2, <2>3
  <2>6. shown[c][i].seq = n + i - 1 /\ shown[c][i - 1].seq = n + (i - 1) - 1
    BY <2>2, <2>4, <2>5
  <2> QED BY <2>3, <2>5, <2>6
<1> QED BY <1>2, <1>3

\* A receiver that shows a line shows the next one of the order all share.
LEMMA ShowsNext ==
  ASSUME IInv, Numbers, Legible, NEW c \in Clients, NEW e \in Extant, Shows(c, e)
  PROVE  Screens!Show(c)
<1> DEFINE k == Len(shown[c])
<1>1. /\ e \in Entries /\ shown \in [Clients -> Seq(Entries)] /\ last[c] \in Seen
      /\ Screened /\ Agree
  BY EntriesOf DEF IInv, Types, ClientType, Numbers
<1>2. /\ shown' = [shown EXCEPT ![c] = Append(shown[c], e)] /\ e.seq > last[c].seq
      /\ e.msg # None
  BY DEF Shows
<1>3. /\ shown'[c] = Append(shown[c], e) /\ Len(shown'[c]) = k + 1
      /\ shown'[c][k + 1] = e
  BY <1>1, <1>2, AppendProperties
<1>4. e.seq > Screens!LastOn(shown[c])
  <2>1. e.seq \in Nat /\ last[c].seq \in Nat
    BY <1>1 DEF Entries, Seen
  <2>2. CASE shown[c] = <<>>
    BY <1>2, <2>1, <2>2 DEF Screens!LastOn
  <2>3. CASE shown[c] # <<>>
    <3>1. k \in DOMAIN shown[c]
      BY <1>1, <2>3
    <3>2. shown[c][k].seq <= last[c].seq /\ shown[c][k] \in Entries
      BY <1>1, <3>1 DEF Screened
    <3>3. shown[c][k].seq \in Nat
      BY <3>2 DEF Entries
    <3> QED BY <1>2, <2>1, <2>3, <3>2, <3>3 DEF Screens!LastOn
  <2> QED BY <2>2, <2>3
<1>5. Screens!Agreed(e.seq, e.msg)
  BY <1>1, <1>2, ScreensExtant DEF Screens!Agreed, Agree
<1>6. e.seq \in Nat /\ e.msg \in Messages
  BY <1>1 DEF Entries
<1> HIDE DEF k
<1> QED BY <1>2, <1>3, <1>4, <1>5, <1>6 DEF Screens!Show, k

\* What comes before and after a crash implements an order that all share, as
\* long as it goes orderly.
THEOREM ImplementsScreens == Spec => ImplementsSharedOrder
<1>1. RInv /\ Legible /\ [Next]_vars => [Orderly' => Screens!SNext]_shown
  <2> SUFFICES ASSUME RInv, Legible, [Next]_vars, Orderly', shown' # shown PROVE Screens!SNext
    OBVIOUS
  <2>1. IInv /\ Numbers
    <3>1. IInv /\ Types
      BY DEF RInv, IInv
    <3> QED BY <3>1, NextOrderly DEF RInv
  <2>2. ASSUME NEW c \in Clients, Clears(c) PROVE Screens!SNext
    BY <2>2 DEF Clears, Screens!SNext, Screens!Leave
  <2>3. ASSUME NEW c \in Clients, NEW e \in Extant, Shows(c, e) PROVE Screens!SNext
    BY <2>1, <2>3, ShowsNext DEF Screens!SNext
  <2> QED BY <2>1, <2>2, <2>3, ShownSteps
<1> QED BY <1>1, InitScreens, LegibleInvariance, PTL DEF Spec, ImplementsSharedOrder
=============================================================================
