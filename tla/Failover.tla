------------------------------- MODULE Failover -------------------------------
(****************************************************************************)
(* What follows when the chat's leader is gone: the clients' failure        *)
(* detectors and elections (client.cpp), the second Leader constructor that *)
(* the elected client runs, with its recovery of the sequence (leader.cpp), *)
(* and the chat under the new leader, until it is gone too.                 *)
(*                                                                          *)
(* Nobody joins any more, and everybody who has joined knows all the others. *)
(* What the leader's threads do to one another, and DEQUEUE, are in Sequencer. *)
(****************************************************************************)
EXTENDS ChatCodes, MessageHeap, Integers, FiniteSets

CONSTANTS
  Clients,      \* the clients' Ids; numbers, because maps iterate by Id
  Leader,       \* the first leader's Id
  Groups,       \* which clients may be those that have joined
  Port,         \* the port of each client's socket
  Speakers,     \* the clients whose users type a line (bound)
  Authors,      \* the leaders whose users type lines (bound)
  MaxLines,     \* how many lines a leader's user types (bound)
  Mortal,       \* which processes may crash
  MaxThreads,   \* how many election threads a client has at a time (bound)
  Racers,       \* the clients that have more than one at a time (bound)
  Prompt,       \* whether a sleep of three seconds outlasts the others' steps
  UninitSeq     \* what an uninitialised sequence number may hold

ASSUME FailoverAssumption ==
  /\ Clients \subseteq Nat \ {0} /\ IsFiniteSet(Clients) /\ Clients # {}
  /\ Leader \in Nat \ Clients
  /\ Groups \subseteq (SUBSET Clients) \ {{}}
  /\ Port \in [Clients -> Nat]
  /\ Speakers \subseteq Clients /\ Authors \subseteq Clients \cup {Leader}
  /\ Mortal \subseteq Clients \cup {Leader}
  /\ MaxLines \in Nat /\ (Authors # {} => MaxLines > 0)
  /\ MaxThreads \in Nat \ {0} /\ Racers \subseteq Clients /\ Prompt \in BOOLEAN
  /\ UninitSeq \subseteq Nat

\* generatePortNumber draws each port at random: nothing keeps two clients of
\* different hosts from drawing the same.
DistinctPorts == \A c, d \in Clients : Port[c] = Port[d] => c = d

Threads == 1..MaxThreads

\* A leader is known by the Id its process has had: Leader, or the client it
\* was before it was elected.
Leaders == Clients \cup {Leader}

\* A queued Message, as in Sequencer.
Messages == [type : Nat, from : Leaders, mid : Nat]
\* The empty string, as a message; without its text CLOSE_RECOVERY is one too.
None     == [type |-> CLOSE_RECOVERY, from |-> Leader, mid |-> 0]

VARIABLES
  st,           \* each process: "client", "recovering", "leading" or "gone"
  room,         \* the keys of each Leader::chatRoom, its own left out
  queue,        \* each Leader::q
  seqNum,       \* each Leader::seqNum
  con,          \* each consumer thread: its place, message and iterator
  requests,     \* the CHAT datagrams on their way to each leader
  muted,        \* each Leader::isRecoveryDone
  typing,       \* each leader's sender thread: where it is, lines typed
  best,         \* each new leader's maxSeqNum and msgToDeliver
  asking,       \* the recovery loop: whom it has asked, whether it waits
  answers,      \* the datagrams in each new leader's ack socket
  roster,       \* the keys of each Client::chatRoom
  leaderOf,     \* each Client's leaderAddress
  isElection, leaderFound, isOk, isRecovery, isRecoveryDone, \* as in Client
  thread,       \* each client's election threads: their places and iterators
  last,         \* each client's lastSeenSequenceNum and lastSeenMsg
  spoke,        \* which clients' sender threads have had their turn
  box,          \* datagrams on their way to each client's socket
  shown,        \* history: what each client has displayed
  raced,        \* history: a client without a leader had two election threads
  overtaken     \* history: a message has passed CLOSE_RECOVERY in the queue

leaderVars == <<room, queue, seqNum, con, requests, muted, typing>>
recoverVars == <<best, asking, answers, overtaken>>
electionVars == <<roster, isElection, leaderFound, isOk, thread, raced>>
clientVars == <<leaderOf, isRecovery, isRecoveryDone, last, spoke, shown>>
vars == <<st, leaderVars, recoverVars, electionVars, clientVars, box>>

------------------------------------------------------------------------------
(* Datagrams, and who is there to get them.                                 *)

Numbered(code, seq, m) == [code |-> code, seq |-> seq, msg |-> m]
From(code, x)          == [code |-> code, from |-> x]

Lives(l) == st[l] \in {"recovering", "leading"}

SendClient(c, d) ==
  box' = IF st[c] = "client" THEN [box EXCEPT ![c] = Append(@, d)] ELSE box

\* The next key of a map after the iterator's.
Next_(keys, at) == {c \in keys : c > at /\ \A d \in keys : d > at => c <= d}

------------------------------------------------------------------------------
(* The group G before the crash.  Clients joined in the order of their Ids. *)

Joined(G, c)   == Cardinality({d \in G : d <= c})
Notice(c)      == [type |-> ADD_USER, from |-> c, mid |-> 0]
Newcomer(G, n) == CHOOSE c \in G : Joined(G, c) = n
Welcome(G, n)  == [seq |-> n, msg |-> Notice(Newcomer(G, n))]

Idle == [pc |-> "pop", msg |-> None, at |-> 0]
NoThread == [pc |-> "none", at |-> 0]
NoThreads == [t \in Threads |-> NoThread]

GroupInit(G) ==
  /\ st = [l \in Leaders |-> IF l = Leader THEN "leading"
                             ELSE IF l \in G THEN "client" ELSE "gone"]
  /\ room = [l \in Leaders |-> IF l = Leader THEN G ELSE {}]
  /\ seqNum = [l \in Leaders |-> IF l = Leader THEN Cardinality(G) ELSE 0]
  /\ roster = [c \in Clients |-> IF c \in G THEN G \cup {Leader} ELSE {}]
  /\ last = [c \in Clients |-> Welcome(G, Cardinality(G))]
  /\ shown = [c \in Clients |->
                IF c \in G THEN [i \in 1..(Cardinality(G) + 1 - Joined(G, c)) |->
                                   Welcome(G, Joined(G, c) + i - 1)]
                ELSE <<>>]

Init ==
  /\ \E G \in Groups : GroupInit(G)
  /\ queue = [l \in Leaders |-> <<>>]
  /\ con = [l \in Leaders |-> Idle]
  /\ requests = [l \in Leaders |-> <<>>]
  /\ muted = [l \in Leaders |-> FALSE]
  /\ typing = [l \in Leaders |->
                 [pc |-> IF l = Leader THEN "read" ELSE "top", lines |-> 0]]
  /\ best = [c \in Clients |-> [seq |-> 0, msg |-> None]]
  /\ asking = [c \in Clients |-> [at |-> 0, waits |-> FALSE]]
  /\ answers = [c \in Clients |-> <<>>]
  /\ leaderOf = [c \in Clients |-> Leader]
  /\ isElection = [c \in Clients |-> FALSE]
  /\ leaderFound = [c \in Clients |-> FALSE]
  /\ isOk = [c \in Clients |-> FALSE]
  /\ isRecovery = [c \in Clients |-> FALSE]
  /\ isRecoveryDone = [c \in Clients |-> FALSE]
  /\ thread = [c \in Clients |-> NoThreads]
  /\ spoke = {}
  /\ box = [c \in Clients |-> <<>>]
  /\ raced = FALSE /\ overtaken = FALSE

------------------------------------------------------------------------------
(* A leader, the first or a new one.                                        *)

\* consumerTask has taken CLOSE_RECOVERY, if it was ever there; and sent it,
\* or waits for the ack of one who is dead.
Opened(l) == \A i \in DOMAIN queue[l] : queue[l][i].type # CLOSE_RECOVERY
Welcomed(l) ==
  Opened(l) /\ (con[l].pc = "mcast" /\ con[l].msg.type = CLOSE_RECOVERY =>
                  con[l].at \in Clients /\ st[con[l].at] = "gone")

\* Leader::sender, top of its loop: whatever isRecoveryDone was, it is reset.
SenderTop(l) ==
  /\ l \in Authors /\ typing[l].lines < MaxLines
  /\ st[l] = "leading" /\ typing[l].pc = "top"
  /\ typing' = [typing EXCEPT ![l].pc = "read"]
  /\ muted' = [muted EXCEPT ![l] = FALSE]
  /\ UNCHANGED <<st, room, queue, seqNum, con, requests, recoverVars,
                 electionVars, clientVars, box>>

\* The leader's user types a line.  If isRecoveryDone has been set since the
\* top of the loop, the line is dropped.
LeaderTypes(l) ==
  LET n == typing[l].lines + 1 IN
  /\ l \in Authors /\ st[l] = "leading" /\ typing[l].pc = "read"
  /\ typing' = [typing EXCEPT ![l] = [pc |-> "top", lines |-> n]]
  /\ requests' = IF muted[l] THEN requests
                 ELSE [requests EXCEPT ![l] = Append(@, [from |-> l, mid |-> n])]
  /\ UNCHANGED <<st, room, queue, seqNum, con, muted, recoverVars,
                 electionVars, clientVars, box>>

\* parseMessage's CHAT.  Everybody's priority is one above the last line's,
\* and the first line's is CHAT + 1.  (A client sends one line, with message
\* id 2; after a recovery only the new leader's user is heard.)
HandleChat(l) ==
  LET r == Head(requests[l])
      t == IF r.from = l THEN CHAT + r.mid ELSE CHAT + 1 IN
  /\ st[l] = "leading" /\ requests[l] # <<>>
  /\ requests' = [requests EXCEPT ![l] = Tail(@)]
  /\ queue' = [queue EXCEPT ![l] = PushHeap(@, [type |-> t, from |-> r.from, mid |-> r.mid])]
  /\ UNCHANGED <<st, room, seqNum, con, muted, typing, recoverVars,
                 electionVars, clientVars, box>>

\* consumerTask takes the next message and numbers it.
PopMessage(l) ==
  LET m == queue[l][1] IN
  /\ st[l] = "leading" /\ con[l].pc = "pop" /\ queue[l] # <<>>
  /\ queue' = [queue EXCEPT ![l] = PopHeap(@)]
  /\ seqNum' = [seqNum EXCEPT ![l] = @ + 1]
  /\ con' = [con EXCEPT ![l] = [pc |-> "mcast", msg |-> m, at |-> 0]]
  /\ muted' = [muted EXCEPT ![l] = @ \/ m.type = CLOSE_RECOVERY]
  /\ overtaken' = (overtaken \/ (m.type # CLOSE_RECOVERY /\ ~Opened(l)))
  /\ UNCHANGED <<st, room, requests, typing, best, asking, answers, electionVars,
                 clientVars, box>>

\* CLOSE_RECOVERY carries msgToDeliver as it was received, number included.
Multicast(l) ==
  IF con[l].msg.type = CLOSE_RECOVERY
    THEN Numbered(CLOSE_RECOVERY, best[l].seq, best[l].msg)
    ELSE Numbered(con[l].msg.type, seqNum[l], con[l].msg)

\* One round of the loop over chatRoom, or its end.
NextRecipient(l) ==
  /\ st[l] = "leading" /\ con[l].pc = "mcast"
  /\ \/ \E c \in Next_(room[l], con[l].at) :
          /\ SendClient(c, Multicast(l))
          /\ con' = [con EXCEPT ![l].at = c]
     \/ /\ Next_(room[l], con[l].at) = {}
        /\ con' = [con EXCEPT ![l] = Idle] /\ UNCHANGED box
  /\ UNCHANGED <<st, room, queue, seqNum, requests, muted, typing,
                 recoverVars, electionVars, clientVars>>

\* A heartbeat goes to leaderHeartBeatAddress, and none during an election.
BeatsFor(c, l) == st[c] = "client" /\ leaderOf[c] = l /\ ~isElection[c]

\* detectClientFaliure of one whose heartbeats do not come.  A new leader waits
\* twelve seconds from the end of its recovery, its consumer does not.
Eliminate(l, c) ==
  /\ st[l] = "leading" /\ c \in room[l] /\ ~BeatsFor(c, l) /\ Welcomed(l)
  /\ room' = [room EXCEPT ![l] = @ \ {c}]
  /\ queue' = [queue EXCEPT ![l] = PushHeap(@, [type |-> DELETE, from |-> c, mid |-> 0])]
  /\ UNCHANGED <<st, seqNum, con, requests, muted, typing, recoverVars,
                 electionVars, clientVars, box>>

\* A process ends and takes its memory and its sockets with it.  What it had
\* recovered, and what it had last seen, stay for RecoveredUpToDate.
Crash(p) ==
  /\ p \in Mortal /\ st[p] # "gone"
  /\ st' = [st EXCEPT ![p] = "gone"]
  /\ room' = [room EXCEPT ![p] = {}] /\ queue' = [queue EXCEPT ![p] = <<>>]
  /\ seqNum' = [seqNum EXCEPT ![p] = 0] /\ muted' = [muted EXCEPT ![p] = FALSE]
  /\ requests' = [requests EXCEPT ![p] = <<>>]
  /\ con' = [con EXCEPT ![p] = Idle]
  /\ typing' = [typing EXCEPT ![p] = [pc |-> "top", lines |-> 0]]
  /\ IF p = Leader THEN UNCHANGED <<answers, asking, electionVars, isRecovery, box, shown>>
     ELSE /\ answers' = [answers EXCEPT ![p] = <<>>]
          /\ asking' = [asking EXCEPT ![p] = [at |-> 0, waits |-> FALSE]]
          /\ roster' = [roster EXCEPT ![p] = {}]
          /\ isElection' = [isElection EXCEPT ![p] = FALSE]
          /\ leaderFound' = [leaderFound EXCEPT ![p] = FALSE]
          /\ isOk' = [isOk EXCEPT ![p] = FALSE]
          /\ isRecovery' = [isRecovery EXCEPT ![p] = FALSE]
          /\ thread' = [thread EXCEPT ![p] = NoThreads]
          /\ box' = [box EXCEPT ![p] = <<>>]
          /\ shown' = [shown EXCEPT ![p] = <<>>]
          /\ UNCHANGED raced
  /\ UNCHANGED <<best, leaderOf, isRecoveryDone, last, spoke, overtaken>>

------------------------------------------------------------------------------
(* A client's failure detector and election threads.                        *)

\* Some leader's heartbeats come: one goes to everyone in its chatRoom.
HeartbeatsCome(c) == \E l \in Leaders : st[l] = "leading" /\ c \in room[l]

Busy(c) == {t \in Threads : thread[c][t].pc # "none"}
Free(c) == IF Busy(c) = {} \/ c \in Racers THEN Threads \ Busy(c) ELSE {}

\* iAmDead is set.
Dead(c) == \E t \in Threads : thread[c][t].pc = "quit"

\* A thread for startElection is made, because isElection has been found false.
\* It will set it, but not yet: another may be made, or be there, before.
Launch(c) ==
  /\ \E t \in Free(c) :
       /\ \A u \in Free(c) : t <= u
       /\ thread' = [thread EXCEPT ![c][t] = [pc |-> "start", at |-> 0]]
  /\ raced' = (raced \/ (Busy(c) # {} /\ ~leaderFound[c]))

\* detectLeaderFailure: no heartbeat within multiplier * HEARTBEAT_THRESHOLD,
\* or within what multiplier was when poll was called.
DetectFailure(c) ==
  /\ st[c] = "client" /\ ~isElection[c] /\ ~Dead(c) /\ ~HeartbeatsCome(c)
  /\ Launch(c)
  /\ UNCHANGED <<st, leaderVars, recoverVars, roster, isElection, leaderFound,
                 isOk, clientVars, box>>

\* startElection up to its loop's sends.  Of the leaders only the first one is
\* erased from the map: a later one has another port there than it leads with.
StartElection(c, t) ==
  /\ st[c] = "client" /\ thread[c][t].pc = "start"
  /\ thread' = [thread EXCEPT ![c][t] = [pc |-> "elect", at |-> 0]]
  /\ isElection' = [isElection EXCEPT ![c] = TRUE]
  /\ roster' = [roster EXCEPT ![c] = @ \ ({leaderOf[c]} \cap {Leader})]
  /\ isOk' = [isOk EXCEPT ![c] = FALSE]
  /\ UNCHANGED <<st, leaderVars, recoverVars, leaderFound, raced, clientVars, box>>

HigherOrSame(c) == {d \in roster[c] \cap Clients : Port[d] >= Port[c]}
Higher(c) == {d \in roster[c] \cap Clients : Port[d] > Port[c]}

\* Of the ELECTIONs of one client to another, one is unread at a time (bound).
SendElectionTo(d, c) ==
  IF \E i \in DOMAIN box[d] : box[d][i] = From(ELECTION, c) THEN UNCHANGED box
  ELSE SendClient(d, From(ELECTION, c))

\* The loop over the higher clients, or its end.  Whatever becomes of an
\* ELECTION, its send returns a number of bytes, and that counts as an OK.  The
\* wait for its ack ends when anything comes on the ack socket, or nothing.
SendElection(c, t) ==
  /\ st[c] = "client" /\ thread[c][t].pc = "elect"
  /\ \/ \E d \in Next_(Higher(c), thread[c][t].at) :
          /\ SendElectionTo(d, c)
          /\ thread' = [thread EXCEPT ![c][t].at = d]
          /\ isOk' = [isOk EXCEPT ![c] = TRUE]
     \/ /\ Next_(Higher(c), thread[c][t].at) = {}
        /\ thread' = [thread EXCEPT ![c][t] = [pc |-> "sleep", at |-> 0]]
        /\ UNCHANGED <<box, isOk>>
  /\ UNCHANGED <<st, leaderVars, recoverVars, roster, isElection, leaderFound,
                 raced, clientVars>>

\* What a thread does after its three seconds' sleep.
AfterSleepBold(c) == IF leaderFound[c] THEN "none" ELSE "tell"
AfterSleep(c) ==
  IF leaderFound[c] THEN "none" ELSE IF isOk[c] THEN "elect" ELSE "tell"

\* Three seconds are enough for the others to miss the leader too, whose last
\* heartbeats went to all at once, and to send what they send: unless one waits
\* in vain for the ack of an ELECTION, or has had a heartbeat less.
OthersAreDone(c) ==
  \A d \in Clients \ {c} : st[d] = "client" =>
    /\ isElection[d] \/ leaderFound[d]
    /\ \A t \in Threads : thread[d][t].pc \notin {"start", "elect"}

\* The loop begins anew with isOk FALSE, for all threads of the client.
WakeUp(c, t) ==
  /\ st[c] = "client" /\ thread[c][t].pc = "sleep"
  /\ Prompt => OthersAreDone(c)
  /\ thread' = [thread EXCEPT ![c][t] = [pc |-> AfterSleep(c), at |-> 0]]
  /\ isOk' = [isOk EXCEPT ![c] = @ /\ leaderFound[c]]
  /\ UNCHANGED <<st, leaderVars, recoverVars, roster, isElection, leaderFound,
                 raced, clientVars, box>>

\* LEADER to everyone in the map; then iAmDead, and IAMDEAD to itself so that
\* its receiver goes on to see that.
TellOthers(c, t) ==
  LET others == (roster[c] \cap Clients) \ {c} IN
  /\ st[c] = "client" /\ thread[c][t].pc = "tell"
  /\ \/ \E d \in Next_(others, thread[c][t].at) :
          /\ SendClient(d, From(LEADER, c))
          /\ thread' = [thread EXCEPT ![c][t].at = d]
          /\ UNCHANGED roster
     \/ /\ Next_(others, thread[c][t].at) = {}
        /\ thread' = [thread EXCEPT ![c][t] = [pc |-> "quit", at |-> 0]]
        /\ roster' = [roster EXCEPT ![c] = @ \ {c}] /\ UNCHANGED box
  /\ UNCHANGED <<st, leaderVars, recoverVars, isElection, leaderFound, isOk, raced,
                 clientVars>>

------------------------------------------------------------------------------
(* The second Leader constructor.                                           *)

\* sendRecoveryWithRetry to the next member, up to its wait.
AskMember(w) ==
  /\ st[w] = "recovering" /\ ~asking[w].waits
  /\ \E c \in Next_(room[w], asking[w].at) :
       /\ asking' = [asking EXCEPT ![w] = [at |-> c, waits |-> TRUE]]
       /\ SendClient(c, From(RECOVERY, w))
  /\ UNCHANGED <<st, leaderVars, best, answers, overtaken, electionVars, clientVars>>

\* The number tempInt and message tempStr that the wait has left behind.
BetterLast(old, new) == new
Better(old, new) == IF new.seq > old.seq THEN new ELSE old
Learn(w, answer) ==
  /\ best' = [best EXCEPT ![w] = Better(@, answer)]
  /\ asking' = [asking EXCEPT ![w].waits = FALSE]

\* Whatever comes on the ack socket is taken for the asked member's answer.
HearAnswer(w) ==
  /\ st[w] = "recovering" /\ asking[w].waits /\ answers[w] # <<>>
  /\ answers' = [answers EXCEPT ![w] = Tail(@)]
  /\ Learn(w, Head(answers[w]))
  /\ UNCHANGED <<st, leaderVars, overtaken, electionVars, clientVars, box>>

\* Three waits without an answer from one who is dead.  tempInt then has the
\* last member's number or anything, and tempStr is empty.
GiveUp(w) ==
  /\ st[w] = "recovering" /\ asking[w].waits /\ st[asking[w].at] # "client"
  /\ answers[w] = <<>>
  /\ \E n \in UninitSeq : Learn(w, [seq |-> n, msg |-> None])
  /\ UNCHANGED <<st, leaderVars, answers, overtaken, electionVars, clientVars, box>>

FirstNumberAgain(w) == best[w].seq - 2
\* CLOSE_RECOVERY will take the number of the message it repeats.
FirstNumber(w) == best[w].seq - 1

\* All have been asked; the threads start, and the producer's first act is to
\* queue CLOSE_RECOVERY.
StartThreads(w) ==
  /\ st[w] = "recovering" /\ ~asking[w].waits
  /\ Next_(room[w], asking[w].at) = {}
  /\ st' = [st EXCEPT ![w] = "leading"]
  /\ seqNum' = [seqNum EXCEPT ![w] = FirstNumber(w)]
  /\ queue' = [queue EXCEPT ![w] = <<[None EXCEPT !.from = w]>>]
  /\ UNCHANGED <<room, con, requests, muted, typing, recoverVars,
                 electionVars, clientVars, box>>

------------------------------------------------------------------------------
(* A client's sender and receiver threads.                                  *)

\* The sender's only turn.  It has passed the reset of isRecoveryDone when the
\* thread started; a line typed during an election, a recovery, or at any time
\* after a recovery is neither sent nor queued, and one that is sent to a dead
\* leader is lost: the thread then ends and has changed nothing, which is no
\* step here.
SendChat(c) ==
  LET l == leaderOf[c] IN
  /\ c \in Speakers \ spoke /\ st[c] = "client" /\ ~Dead(c)
  /\ ~isElection[c] /\ ~isRecovery[c] /\ ~isRecoveryDone[c] /\ Lives(l)
  /\ spoke' = spoke \cup {c}
  /\ requests' = [requests EXCEPT ![l] = Append(@, [from |-> c, mid |-> 2])]
  /\ UNCHANGED <<st, room, queue, seqNum, con, muted, typing, recoverVars,
                 electionVars, leaderOf, isRecovery, isRecoveryDone, last,
                 shown, box>>

\* The receiver takes the next datagram, as long as iAmDead is not set.  (It may
\* have passed the test and take one more: that is a datagram taken just before,
\* since the thread that sets iAmDead does nothing afterwards.)
Hears(c, codes) ==
  /\ st[c] = "client" /\ ~Dead(c)
  /\ box[c] # <<>> /\ Head(box[c]).code \in codes
  /\ box' = [box EXCEPT ![c] = Tail(@)]

\* A numbered message is displayed unless a later one has been, or it is empty.
\* lastSeenMsg keeps the datagram; one that is kept with its CLOSE_RECOVERY
\* prefix comes out of the next recovery as an empty message.
DisplayAgain(c, d) ==
  IF d.seq >= last[c].seq /\ d.msg.type # CLOSE_RECOVERY
    THEN /\ last' = [last EXCEPT ![c] =
                       [seq |-> d.seq, msg |-> IF d.code = CLOSE_RECOVERY THEN None ELSE d.msg]]
         /\ shown' = [shown EXCEPT ![c] = Append(@, [seq |-> d.seq, msg |-> d.msg])]
    ELSE UNCHANGED <<last, shown>>

Display(c, d) ==
  IF d.seq > last[c].seq /\ d.msg.type # CLOSE_RECOVERY
    THEN /\ last' = [last EXCEPT ![c] =
                       [seq |-> d.seq, msg |-> IF d.code = CLOSE_RECOVERY THEN None ELSE d.msg]]
         /\ shown' = [shown EXCEPT ![c] = Append(@, [seq |-> d.seq, msg |-> d.msg])]
    ELSE UNCHANGED <<last, shown>>

\* Whom a message makes the client add to its map or erase from it.
Apply(c, m) ==
  IF m.type = ADD_USER THEN roster[c] \cup {m.from}
  ELSE IF m.type = DELETE THEN roster[c] \ {m.from} ELSE roster[c]

ReceiveMulticast(c) ==
  LET d == Head(box[c]) IN
  /\ Hears(c, {DELETE} \cup {n \in CHAT..(CHAT + 1 + MaxLines) : IsChat(n)})
  /\ Display(c, d)
  /\ roster' = [roster EXCEPT ![c] = Apply(c, d.msg)]
  /\ UNCHANGED <<st, leaderVars, recoverVars, isElection, leaderFound, isOk,
                 thread, raced, leaderOf, isRecovery, isRecoveryDone, spoke>>

\* chatRoom[idObj] makes an entry for a sender who has none.
ReceiveElection(c) ==
  /\ Hears(c, {ELECTION})
  /\ roster' = [roster EXCEPT ![c] = @ \cup {Head(box[c]).from}]
  /\ IF isElection[c] \/ Free(c) = {} THEN UNCHANGED <<thread, raced>>
     ELSE Launch(c)
  /\ UNCHANGED <<st, leaderVars, recoverVars, isElection, leaderFound, isOk,
                 clientVars>>

ReceiveLeader(c) ==
  /\ Hears(c, {LEADER})
  /\ leaderFound' = [leaderFound EXCEPT ![c] = TRUE]
  /\ isElection' = [isElection EXCEPT ![c] = FALSE]
  /\ roster' = [roster EXCEPT ![c] = @ \cup {Head(box[c]).from}]
  /\ UNCHANGED <<st, leaderVars, recoverVars, isOk, thread, raced, clientVars>>

ReceiveRecovery(c) ==
  LET w == Head(box[c]).from IN
  /\ Hears(c, {RECOVERY})
  /\ isRecovery' = [isRecovery EXCEPT ![c] = TRUE]
  /\ isElection' = [isElection EXCEPT ![c] = FALSE]
  /\ leaderOf' = [leaderOf EXCEPT ![c] = w]
  /\ answers' = IF st[w] = "recovering" THEN [answers EXCEPT ![w] = Append(@, last[c])]
                ELSE answers
  /\ UNCHANGED <<st, leaderVars, best, asking, overtaken, roster, leaderFound, isOk,
                 thread, raced, isRecoveryDone, last, spoke, shown>>

\* CLOSE_RECOVERY, and then whatever message it carries.
ReceiveClose(c) ==
  LET d == Head(box[c]) IN
  /\ Hears(c, {CLOSE_RECOVERY})
  /\ isRecovery' = [isRecovery EXCEPT ![c] = FALSE]
  /\ isRecoveryDone' = [isRecoveryDone EXCEPT ![c] = TRUE]
  /\ isElection' = [isElection EXCEPT ![c] = FALSE]
  /\ Display(c, d)
  /\ roster' = [roster EXCEPT ![c] = Apply(c, d.msg)]
  /\ UNCHANGED <<st, leaderVars, recoverVars, leaderFound, isOk, thread, raced,
                 leaderOf, spoke>>

\* The new leader's socket: one of its own, with nothing in it.  (The parameters
\* of a constructor that took the client's over are still there as a comment.)
OldSocket(c) == box[c]
NewSocket(c) == <<>>

\* The receiver and the other threads see iAmDead and end, the sockets are
\* closed with what was in them, and establishConnection calls the second Leader
\* constructor with the map, the last message and its number.  Of an election
\* thread that is still there, the sends fail.
BecomeLeader(c) ==
  /\ st[c] = "client" /\ Dead(c)
  /\ box' = [box EXCEPT ![c] = NewSocket(c)]
  /\ st' = [st EXCEPT ![c] = "recovering"]
  /\ room' = [room EXCEPT ![c] = roster[c] \cap Clients]
  /\ best' = [best EXCEPT ![c] = last[c]]
  /\ thread' = [thread EXCEPT ![c] = NoThreads]
  /\ UNCHANGED <<queue, seqNum, con, requests, muted, typing, asking, answers, overtaken,
                 roster, isElection, leaderFound, isOk, raced, clientVars>>

Receiver(c) ==
  \/ ReceiveMulticast(c) \/ ReceiveElection(c) \/ ReceiveLeader(c)
  \/ ReceiveRecovery(c) \/ ReceiveClose(c) \/ BecomeLeader(c)

------------------------------------------------------------------------------
LeaderStep(l) ==
  \/ HandleChat(l) \/ PopMessage(l) \/ NextRecipient(l)
ElectionStep(c, t) ==
  StartElection(c, t) \/ SendElection(c, t) \/ WakeUp(c, t) \/ TellOthers(c, t)
RecoveryStep(c) == AskMember(c) \/ HearAnswer(c) \/ GiveUp(c) \/ StartThreads(c)

Next ==
  \/ \E l \in Leaders :
       \/ SenderTop(l) \/ LeaderTypes(l) \/ LeaderStep(l) \/ Crash(l)
       \/ \E c \in Clients : Eliminate(l, c)
  \/ \E c \in Clients :
       \/ DetectFailure(c) \/ RecoveryStep(c) \/ SendChat(c) \/ Receiver(c)
       \/ \E t \in Threads : ElectionStep(c, t)

Spec == Init /\ [][Next]_vars

\* Threads that loop or wait with a timeout go on; users need not type and
\* nobody need crash.  A process is a client, recovers or leads, never two of
\* these at a time.
FairSpec ==
  /\ Spec
  /\ WF_vars(LeaderStep(Leader))
  /\ \A c \in Clients :
       /\ WF_vars(DetectFailure(c) \/ RecoveryStep(c) \/ LeaderStep(c))
       /\ \A t \in Threads : WF_vars(ElectionStep(c, t))
       /\ WF_vars(Receiver(c))

\* For an election less will do: the leaders need not go on, and of a client's
\* threads other than its receiver some thread does.
ElectSpec ==
  /\ Spec
  /\ \A c \in Clients :
       /\ WF_vars(DetectFailure(c) \/ RecoveryStep(c) \/ \E t \in Threads : ElectionStep(c, t))
       /\ WF_vars(Receiver(c))

\* A sleep also ends if it is Prompt and the others are busy now and then.
SleepSpec == FairSpec /\ \A c \in Clients, t \in Threads : SF_vars(WakeUp(c, t))

------------------------------------------------------------------------------
(* Properties.                                                              *)

Places    == {"none", "start", "elect", "sleep", "tell", "quit"}
Entries   == [seq : Nat, msg : Messages]
Datagrams == [code : Nat, seq : Nat, msg : Messages] \cup [code : Nat, from : Clients]

\* The types, and what they say of a process: only a leader's socket takes CHAT,
\* only one who recovers is answered, a client's own socket closes as it is
\* elected, and sequence numbers are numbers (seqNum starts at maxSeqNum - 1).
TypeOK ==
  /\ st \in [Leaders -> {"client", "recovering", "leading", "gone"}]
  /\ room \in [Leaders -> SUBSET Clients]
  /\ \A l \in Leaders :
       /\ queue[l] \in Seq(Messages) /\ requests[l] \in Seq([from : Leaders, mid : Nat])
       /\ requests[l] # <<>> => Lives(l)
  /\ seqNum \in [Leaders -> Nat]
  /\ con \in [Leaders -> [pc : {"pop", "mcast"}, msg : Messages, at : Nat]]
  /\ muted \in [Leaders -> BOOLEAN]
  /\ typing \in [Leaders -> [pc : {"top", "read"}, lines : 0..MaxLines]]
  /\ best \in [Clients -> Entries] /\ last \in [Clients -> Entries]
  /\ asking \in [Clients -> [at : {0} \cup Clients, waits : BOOLEAN]]
  /\ \A c \in Clients :
       /\ answers[c] \in Seq(Entries) /\ (answers[c] # <<>> => Lives(c))
       /\ box[c] \in Seq(Datagrams) /\ (box[c] # <<>> => st[c] = "client")
       /\ shown[c] \in Seq(Entries)
  /\ roster \in [Clients -> SUBSET Leaders] /\ leaderOf \in [Clients -> Leaders]
  /\ \A flag \in {isElection, leaderFound, isOk, isRecovery, isRecoveryDone} :
       flag \in [Clients -> BOOLEAN]
  /\ thread \in [Clients -> [Threads -> [pc : Places, at : Nat]]]
  /\ spoke \subseteq Speakers /\ raced \in BOOLEAN /\ overtaken \in BOOLEAN

\* The client sends LEADER, or has sent it to all.
Declares(c) == \E t \in Threads : thread[c][t].pc \in {"tell", "quit"}
Declared(c) == Declares(c) \/ Lives(c)

\* However the elections of different clients overlap, at most one of them ever
\* declares itself leader, and nobody of a higher port is in the group then
\* (startElection): as long as no client that has no leader runs two elections at
\* once, and no two clients have one port.
OneSuccessor ==
  ~raced /\ DistinctPorts =>
    \A c \in Clients : Declared(c) =>
      \A d \in Clients : (Declared(d) => d = c) /\ (st[d] = "client" => Port[d] <= Port[c])

\* "A central sequencer/leader": there are never two.
OneLeader == \A l, m \in Leaders : Lives(l) /\ Lives(m) => l = m

\* There is one election at a time, and CLOSE_RECOVERY has been sent first.
Orderly == ~raced /\ ~overtaken /\ DistinctPorts

\* A new leader gives no number that a member has already displayed: when
\* CLOSE_RECOVERY, which repeats the last message anybody answered with, is out of
\* the queue and nothing has passed it there, the number that comes next is beyond
\* every screen (leader.cpp, seqNum).
NumbersOnward ==
  Orderly => \A l \in Leaders, c \in Clients :
    st[l] = "leading" /\ Opened(l) /\ st[c] = "client" => last[c].seq <= seqNum[l]

\* Who has come through a recovery has displayed all that any other screen had
\* when its client answered: no message that a surviving member has seen is
\* missing at another's end as the last one (CLOSE_RECOVERY, msgToDeliver).
RecoveredUpToDate ==
  Orderly => \A c, w \in Clients :
    leaderOf[c] = w /\ isRecoveryDone[c] /\ best[w].msg # None =>
      last[c].seq >= best[w].seq /\ best[w].seq >= last[w].seq

\* The screens never disagree and never go back, whoever leads.
Screens == INSTANCE SharedOrder
  WITH Clients <- Clients, Messages <- Messages, shown <- shown
ImplementsSharedOrder == Screens!SInit /\ [][Orderly' => Screens!SNext]_shown

\* "A fully ordered multicast": any two clients still there show one message
\* under one number.
TotalOrder ==
  \A c, d \in Clients : \A i \in DOMAIN shown[c], j \in DOMAIN shown[d] :
    shown[c][i].seq = shown[d][j].seq => shown[c][i].msg = shown[d][j].msg

\* "Election of new leader in case the leader crashes or exits": while clients
\* are there, a chat without a leader gets one.
Leaderless == \A l \in Leaders : ~Lives(l)
Led == (\E l \in Leaders : st[l] = "leading") \/ \A c \in Clients : st[c] = "gone"
LeaderReplaced == Leaderless ~> Led

\* The same, unless a client that has no leader runs two elections at once: also
\* when a client has crashed in the middle of its election.
LeaderElected == Leaderless ~> (Led \/ raced)

\* A client that has taken part in an election is done with it and with the
\* recovery after a while, and hears the new leader, or has become it.
BackInChat ==
  \A c \in Clients :
    isElection[c] ~> (st[c] # "client" \/ (~isElection[c] /\ ~isRecovery[c]))
=============================================================================
