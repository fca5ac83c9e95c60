------------------------------ MODULE Membership ------------------------------
(****************************************************************************)
(* How one client comes to be a member, and how leader and client know that *)
(* the other is still there: joinNetwork and its retries, the heartbeats in *)
(* both directions and the two failure detectors, with their times.  The    *)
(* clock ticks in seconds.  A datagram arrives within the second it is sent *)
(* in, or is lost.  What one client's heartbeats do does not depend on the  *)
(* other clients; what follows an election or a DELETE is in Failover and   *)
(* Sequencer.                                                               *)
(****************************************************************************)
EXTENDS Integers

CONSTANTS
  Period,       \* HEARTBEAT_THRESHOLD
  Slack,        \* how much longer than that a thread may sleep
  Limit,        \* 0.003 * HEARTBEAT_THRESHOLD: the leader's patience, in seconds
  Patience,     \* multiplier * HEARTBEAT_THRESHOLD: the client's
  Timeout,      \* TIMEOUT_RETRY
  Retries,      \* NUM_RETRY
  Poll,         \* how long joinNetwork waits for the list
  MaxLost       \* how many datagrams a behaviour loses (bound)

\* Between two heartbeats of one thread.
Gap == Period + Slack

ASSUME MembershipAssumption ==
  /\ Period \in Nat \ {0} /\ Slack \in Nat /\ Limit \in Nat /\ Patience \in Nat
  /\ Timeout \in Nat /\ Retries \in Nat \ {0} /\ Poll \in Nat /\ MaxLost \in Nat
  /\ 2 * Gap <= Limit /\ 2 * Gap < Patience

VARIABLES
  pc,           \* the client: "out", "asking", "polling", "in", "blind",
                \* "electing", "refused" or "gone"
  hop,          \* whether it asked a member for the leader, and how far that is
  reply,        \* what is in its socket: "none", "list", "resolve"
  tries, wait,  \* sendMessageWithRetry's numRetry; seconds until its timeout,
                \* or poll's
  beatIn,       \* seconds until the client's next heartbeat
  quiet,        \* seconds that detectLeaderFailure's poll has waited
  up,           \* whether the leader lives
  member,       \* whether the leader's chatRoom has the client
  age,          \* seconds since its lastHbt
  leaderBeatIn, checkIn, \* seconds until the leader's next heartbeat and check
  lost,         \* history: datagrams lost
  clean,        \* history: no datagram of the join was lost
  missed, leaderMissed,  \* history: heartbeats lost in a row, to each side
  deadFor       \* history: seconds since the client or the leader ended, or
                \* since the client began to miss the leader

joinVars   == <<hop, reply, tries, wait>>
leaderVars == <<up, member, age, leaderBeatIn, checkIn>>
histVars   == <<lost, clean, missed, leaderMissed, deadFor>>
vars == <<pc, joinVars, beatIn, quiet, leaderVars, histVars>>

Init ==
  /\ pc = "out" /\ hop = "none" /\ reply = "none" /\ tries = 0 /\ wait = 0
  /\ beatIn = 0 /\ quiet = 0
  /\ up = TRUE /\ member = FALSE /\ age = 0
  /\ leaderBeatIn \in 0..Gap /\ checkIn \in 0..Gap
  /\ lost = 0 /\ clean = TRUE /\ missed = 0 /\ leaderMissed = 0 /\ deadFor = 0

\* A thread that sleeps for Period.
Slept == Period..Gap

------------------------------------------------------------------------------
(* Joining.                                                                 *)

\* n datagrams are lost of those that this step sends.
Loses(n) == lost + n <= MaxLost /\ lost' = lost + n

Lost(arrives) == IF arrives THEN 0 ELSE 1

\* sendMessageWithRetry's first send, and its wait unless the ack comes.
Asked(acked) ==
  /\ tries' = Retries
  /\ IF acked THEN pc' = "polling" /\ wait' = Poll ELSE pc' = "asking" /\ wait' = Timeout

\* JOIN to the leader.  receiveMessageWithAck acks it, parseMessage's JOIN puts
\* the client into chatRoom, with lastHbt now, and answers with the list.
AskLeader ==
  \E arrives, ack, list \in BOOLEAN :
    /\ IF arrives /\ up
         THEN /\ Loses(Lost(ack) + Lost(list)) /\ Asked(ack)
              /\ member' = TRUE /\ age' = 0
              /\ reply' = (IF list THEN "list" ELSE "none")
              /\ clean' = (clean /\ ack /\ list)
         ELSE /\ ack /\ list /\ Loses(Lost(arrives)) /\ Asked(FALSE)
              /\ reply' = "none" /\ clean' = FALSE /\ UNCHANGED <<member, age>>

JoinLeader ==
  /\ pc = "out" /\ AskLeader
  /\ UNCHANGED <<hop, beatIn, quiet, up, leaderBeatIn, checkIn, missed,
                 leaderMissed, deadFor>>

\* JOIN to a client that is a member, which answers with RESOLVE_LEADER.
JoinThroughMember ==
  /\ pc = "out" /\ hop' = "member"
  /\ \E ack, resolve \in BOOLEAN :
       /\ Loses(Lost(ack) + Lost(resolve)) /\ Asked(ack)
       /\ reply' = (IF resolve THEN "resolve" ELSE "none")
       /\ clean' = (ack /\ resolve)
  /\ UNCHANGED <<beatIn, quiet, leaderVars, missed, leaderMissed, deadFor>>

\* A wait for the ack runs out.  The next send goes to whatever address
\* recvfrom has not written, and reaches nobody.  After the last one joinNetwork
\* polls for the list all the same.
TriesAgain == tries
TriesLeft  == tries - 1
AckTimeout ==
  /\ pc = "asking" /\ wait = 0
  /\ tries' = TriesLeft
  /\ IF TriesLeft > 0 THEN wait' = Timeout /\ UNCHANGED pc
     ELSE wait' = Poll /\ pc' = "polling"
  /\ UNCHANGED <<hop, reply, beatIn, quiet, leaderVars, histVars>>

\* RESOLVE_LEADER: the leader's address is set and joinNetwork calls itself.
FollowResolve ==
  /\ pc = "polling" /\ reply = "resolve"
  /\ hop' = "resolved" /\ AskLeader
  /\ UNCHANGED <<beatIn, quiet, up, leaderBeatIn, checkIn, missed,
                 leaderMissed, deadFor>>

\* The threads start: the first heartbeat is due, the first poll begins.
Started(how) == pc' = how /\ beatIn' = 0 /\ quiet' = 0
Refused == pc' = "refused" /\ UNCHANGED <<beatIn, quiet>>

\* The list is read.  joinNetwork returns 1; but a joinNetwork that has called
\* itself returns nothing, and establishConnection goes by whatever that is.
ReadList ==
  /\ pc = "polling" /\ reply = "list" /\ reply' = "none"
  /\ Started("in") \/ (hop = "resolved" /\ Refused)
  /\ leaderMissed' = 0 /\ missed' = 0 /\ deadFor' = 0
  /\ UNCHANGED <<hop, tries, wait, leaderVars, lost, clean>>

\* The list is lost, and a multicast is taken for it.  Nothing is returned; a
\* client that starts all the same has no address for its heartbeats.
ReadOther ==
  /\ pc = "polling" /\ reply = "none" /\ member /\ up
  /\ Started("blind") \/ Refused
  /\ deadFor' = 0
  /\ UNCHANGED <<joinVars, leaderVars, lost, clean, missed, leaderMissed>>

\* "Sorry, no chat is active."
PollTimeout ==
  /\ pc = "polling" /\ reply = "none" /\ wait = 0
  /\ Refused \/ (hop = "resolved" /\ Started("blind"))
  /\ deadFor' = 0
  /\ UNCHANGED <<joinVars, leaderVars, lost, clean, missed, leaderMissed>>

------------------------------------------------------------------------------
(* Heartbeats.                                                              *)

\* sendHeartbeat, and heartbeatReceiver: lastHbt is set for a member only.
Beat ==
  /\ pc = "in" /\ beatIn = 0 /\ beatIn' \in Slept
  /\ \E arrives \in BOOLEAN :
       /\ Loses(Lost(arrives))
       /\ IF arrives /\ member /\ up THEN age' = 0 /\ missed' = 0
          ELSE age' = age /\ missed' = missed + Lost(arrives)
  /\ UNCHANGED <<pc, joinVars, quiet, up, member, leaderBeatIn, checkIn, clean,
                 leaderMissed, deadFor>>

\* heartbeatSender; a heartbeat makes detectLeaderFailure poll anew.
LeaderBeat ==
  /\ up /\ leaderBeatIn = 0 /\ leaderBeatIn' \in Slept
  /\ IF member /\ pc \in {"in", "blind"}
       THEN \E arrives \in BOOLEAN :
              /\ Loses(Lost(arrives))
              /\ IF arrives THEN quiet' = 0 /\ leaderMissed' = 0
                 ELSE quiet' = quiet /\ leaderMissed' = leaderMissed + 1
       ELSE UNCHANGED <<quiet, lost, leaderMissed>>
  /\ UNCHANGED <<pc, joinVars, beatIn, up, member, age, checkIn, clean, missed,
                 deadFor>>

OverdueSoon == age > Period
OverdueLate == age > 2 * Limit
Overdue     == age > Limit

\* One round of detectClientFaliure.
Check ==
  /\ up /\ checkIn = 0 /\ checkIn' \in Slept
  /\ IF member /\ Overdue THEN member' = FALSE /\ age' = 0
     ELSE UNCHANGED <<member, age>>
  /\ UNCHANGED <<pc, joinVars, beatIn, quiet, up, leaderBeatIn, histVars>>

SilentSoon == quiet >= Period
SilentLate == quiet >= 2 * Patience
Silent     == quiet >= Patience

\* detectLeaderFailure's poll runs out: startElection, and no more heartbeats.
Suspect ==
  /\ pc \in {"in", "blind"} /\ Silent
  /\ pc' = "electing"
  /\ UNCHANGED <<joinVars, beatIn, quiet, leaderVars, histVars>>

------------------------------------------------------------------------------
(* Ends, and time.                                                          *)

\* exitChatroom: a DELETE that is not repeated.
Exit ==
  /\ pc \in {"in", "blind", "electing"} /\ up /\ pc' = "gone" /\ deadFor' = 0
  /\ \E arrives \in BOOLEAN :
       /\ Loses(Lost(arrives))
       /\ IF arrives THEN member' = FALSE /\ age' = 0 ELSE UNCHANGED <<member, age>>
  /\ UNCHANGED <<joinVars, beatIn, quiet, up, leaderBeatIn, checkIn, clean,
                 missed, leaderMissed>>

ClientCrash ==
  /\ pc \notin {"out", "refused", "gone"} /\ up /\ pc' = "gone" /\ deadFor' = 0
  /\ UNCHANGED <<joinVars, beatIn, quiet, leaderVars, lost, clean, missed,
                 leaderMissed>>

LeaderCrash ==
  /\ up /\ pc # "gone" /\ up' = FALSE /\ member' = FALSE /\ age' = 0 /\ deadFor' = 0
  /\ UNCHANGED <<pc, joinVars, beatIn, quiet, leaderBeatIn, checkIn, lost,
                 clean, missed, leaderMissed>>

Due ==
  \/ pc = "asking" /\ wait = 0
  \/ pc = "polling" /\ (reply # "none" \/ wait = 0)
  \/ pc = "in" /\ beatIn = 0
  \/ pc \in {"in", "blind"} /\ Silent
  \/ up /\ (leaderBeatIn = 0 \/ checkIn = 0)

Less(n) == IF n > 0 THEN n - 1 ELSE 0

\* A second passes in which nothing is due.  Nobody measures it once both are
\* through with each other.
Tick ==
  /\ ~Due /\ pc # "out" /\ (member \/ pc \in {"asking", "polling", "in", "blind"})
  /\ wait' = (IF pc \in {"asking", "polling"} THEN Less(wait) ELSE wait)
  /\ beatIn' = (IF pc = "in" THEN Less(beatIn) ELSE beatIn)
  /\ quiet' = (IF pc \in {"in", "blind"} THEN quiet + 1 ELSE quiet)
  /\ age' = (IF member THEN age + 1 ELSE age)
  /\ leaderBeatIn' = (IF up THEN Less(leaderBeatIn) ELSE leaderBeatIn)
  /\ checkIn' = (IF up THEN Less(checkIn) ELSE checkIn)
  /\ deadFor' = (IF pc = "gone" \/ ~up THEN deadFor + 1 ELSE deadFor)
  /\ UNCHANGED <<pc, hop, reply, tries, up, member, lost, clean, missed,
                 leaderMissed>>

Joining ==
  \/ JoinLeader \/ JoinThroughMember \/ AckTimeout \/ FollowResolve
  \/ ReadList \/ ReadOther \/ PollTimeout
Beating == Beat \/ LeaderBeat \/ Check \/ Suspect
Ending  == Exit \/ ClientCrash \/ LeaderCrash

Next == Joining \/ Beating \/ Ending \/ Tick

Spec == Init /\ [][Next]_vars

\* Waits with a timeout end, periodic threads go on and time passes; nobody
\* need join and nobody need end.
FairSpec ==
  /\ Spec /\ WF_vars(AckTimeout \/ FollowResolve \/ ReadList \/ ReadOther \/ PollTimeout)
  /\ WF_vars(Beating \/ Tick)

------------------------------------------------------------------------------
(* Properties.                                                              *)

\* The types, and how far the clocks run.
TypeOK ==
  /\ pc \in {"out", "asking", "polling", "in", "blind", "electing", "refused", "gone"}
  /\ hop \in {"none", "member", "resolved"} /\ reply \in {"none", "list", "resolve"}
  /\ tries \in 0..Retries /\ wait \in Nat
  /\ up \in BOOLEAN /\ member \in BOOLEAN /\ clean \in BOOLEAN
  /\ beatIn \in 0..Gap /\ leaderBeatIn \in 0..Gap /\ checkIn \in 0..Gap
  /\ age \in Nat /\ quiet \in 0..Patience /\ deadFor \in Nat
  /\ lost \in 0..MaxLost /\ missed \in Nat /\ leaderMissed \in Nat
  /\ member => up

\* A client that lives and beats is expelled only after two lost heartbeats in
\* a row, or because a datagram of its join was lost: a lost ack alone keeps it
\* waiting, silent, for longer than the leader's patience (detectClientFaliure,
\* sendMessageWithRetry).
ExpelledForCause ==
  pc = "in" /\ up /\ ~member => missed >= 2 \/ ~clean

\* Nobody starts an election against a leader that lives unless he has lost two
\* of its heartbeats in a row or been expelled (detectLeaderFailure).
ElectionForCause ==
  pc = "electing" /\ up /\ member => leaderMissed >= 2

\* A member that has gone is out of the list before the leader's patience and
\* one more round of its detector are over.
DeadIsExpelled ==
  pc = "gone" /\ member => deadFor <= Limit + Gap

\* A leader that has gone is missed before the client's patience is over.
DeadIsMissed ==
  pc \in {"in", "blind"} /\ ~up => deadFor <= Patience

\* Whatever is lost, a join comes to an end (the retries count down).
JoinEnds == pc \in {"asking", "polling"} ~> pc \notin {"asking", "polling"}
=============================================================================
