--------------------------- MODULE MembershipProofs ---------------------------
(****************************************************************************)
(* That the heartbeats of Membership are enough, whatever the periods, the  *)
(* timeouts and the number of lost datagrams are, as long as either side is *)
(* patient for two of the other's periods (MembershipAssumption).           *)
(****************************************************************************)
EXTENDS Membership, TLAPS

\* Until the threads start, no heartbeat counts; what is clean needs no retry,
\* and the list is read in the second in which the leader made the client one
\* of its members.
Prompt ==
  /\ pc = "asking" => ~clean /\ tries > 0
  /\ pc \in {"out", "asking", "polling"} => leaderMissed = 0
  /\ pc = "polling" /\ clean => reply # "none"
  /\ pc = "polling" /\ clean /\ reply = "list" /\ up => member /\ age = 0

\* The next heartbeat of a client comes before lastHbt is a period older than
\* the lost heartbeats make it.
BeatsInTime ==
  pc = "in" /\ member /\ clean =>
    (missed = 0 => age + beatIn <= Gap) /\ (missed = 1 => age + beatIn <= 2 * Gap)

\* The same the other way.
LeaderBeatsInTime ==
  pc \in {"in", "blind"} /\ member =>
    /\ leaderMissed = 0 => quiet + leaderBeatIn <= Gap
    /\ leaderMissed = 1 => quiet + leaderBeatIn <= 2 * Gap

\* The next check finds whoever is overdue by then.
ChecksInTime ==
  /\ member => age + checkIn <= Limit + Gap
  /\ pc = "gone" /\ member => deadFor <= age
  /\ pc \in {"in", "blind"} /\ ~up => deadFor <= quiet

IInv ==
  /\ TypeOK /\ Prompt /\ BeatsInTime /\ LeaderBeatsInTime /\ ChecksInTime
  /\ ExpelledForCause /\ ElectionForCause

(* The solver wants Boolean variables as formulas, not as values, so the    *)
(* steps that set one say so first.                                         *)

LEMMA InitIInv == Init => IInv
<1>1. Init => up /\ ~member /\ clean
  BY Zenon DEF Init
<1>2. Init => up \in BOOLEAN /\ member \in BOOLEAN /\ clean \in BOOLEAN
  BY Zenon DEF Init
<1> QED
  BY MembershipAssumption, <1>1, <1>2, SMTT(60)
  DEF Init, IInv, TypeOK, Prompt, BeatsInTime, LeaderBeatsInTime,
      ChecksInTime, ExpelledForCause, ElectionForCause, MembershipAssumption, Gap

\* What a JOIN that goes to the leader leaves behind: it is clean only if the
\* leader has made the client a member now and the client knows.
LEMMA Asking ==
  ASSUME IInv, AskLeader
  PROVE  /\ pc' \in {"asking", "polling"} /\ tries' = Retries /\ wait' \in Nat
         /\ reply' \in {"list", "none"} /\ lost' \in 0..MaxLost
         /\ member' \in BOOLEAN /\ clean' \in BOOLEAN
         /\ \/ up /\ member' /\ age' = 0
            \/ UNCHANGED <<member, age>> /\ ~clean'
         /\ clean' => pc' = "polling" /\ reply' = "list"
<1>1. PICK arrives \in BOOLEAN, ack \in BOOLEAN, list \in BOOLEAN :
        IF arrives /\ up
          THEN /\ Loses(Lost(ack) + Lost(list)) /\ Asked(ack)
               /\ member' = TRUE /\ age' = 0
               /\ reply' = (IF list THEN "list" ELSE "none")
               /\ clean' = (clean /\ ack /\ list)
          ELSE /\ ack /\ list /\ Loses(Lost(arrives)) /\ Asked(FALSE)
               /\ reply' = "none" /\ clean' = FALSE /\ UNCHANGED <<member, age>>
  BY Zenon DEF AskLeader
<1>2. lost' \in 0..MaxLost
  <2>1. Lost(ack) + Lost(list) \in Nat /\ Lost(arrives) \in Nat
    BY SMT DEF Lost
  <2>2. Loses(Lost(ack) + Lost(list)) \/ Loses(Lost(arrives))
    BY <1>1, Zenon
  <2> QED
    BY MembershipAssumption, <2>1, <2>2, SMT DEF Loses, IInv, TypeOK, MembershipAssumption
<1>3. tries' = Retries /\ wait' \in Nat
  BY MembershipAssumption, <1>1, SMT DEF Asked, MembershipAssumption
<1>4. CASE arrives /\ up
  <2>1. up /\ member' /\ member' \in BOOLEAN /\ age' = 0
    BY <1>1, <1>4, Zenon
  <2>2. clean' \in BOOLEAN /\ (clean' => ack /\ list)
    BY <1>1, <1>4, Zenon
  <2>3. reply' = (IF list THEN "list" ELSE "none")
    BY <1>1, <1>4, Zenon
  <2>4. Asked(ack)
    BY <1>1, <1>4, Zenon
  <2> QED
    BY <1>2, <1>3, <2>1, <2>2, <2>3, <2>4, Zenon DEF Asked
<1>5. CASE ~(arrives /\ up)
  <2>1. ~clean' /\ clean' \in BOOLEAN /\ reply' = "none" /\ UNCHANGED <<member, age>>
    BY <1>1, <1>5, Zenon
  <2>2. Asked(FALSE)
    BY <1>1, <1>5, Zenon
  <2>3. member' \in BOOLEAN
    BY <2>1, Zenon DEF IInv, TypeOK
  <2> QED
    BY <1>2, <1>3, <2>1, <2>2, <2>3, Zenon DEF Asked
<1> QED
  BY <1>4, <1>5

LEMMA JoinLeaderIInv == IInv /\ JoinLeader => IInv'
<1> SUFFICES ASSUME IInv, JoinLeader PROVE IInv'
  OBVIOUS
<1>1. AskLeader
  BY DEF JoinLeader
<1> QED
  BY MembershipAssumption, <1>1, Asking, SMTT(60)
  DEF JoinLeader, IInv, TypeOK, Prompt, BeatsInTime, LeaderBeatsInTime,
      ChecksInTime, ExpelledForCause, ElectionForCause, MembershipAssumption, Gap

LEMMA JoinThroughMemberIInv == IInv /\ JoinThroughMember => IInv'
  BY MembershipAssumption, SMTT(60)
  DEF JoinThroughMember, Loses, Lost, Asked, leaderVars, IInv, TypeOK, Prompt, BeatsInTime, LeaderBeatsInTime,
      ChecksInTime, ExpelledForCause, ElectionForCause, MembershipAssumption, Gap

LEMMA AckTimeoutIInv == IInv /\ AckTimeout => IInv'
  BY MembershipAssumption, SMTT(60)
  DEF AckTimeout, TriesLeft, leaderVars, histVars, IInv, TypeOK, Prompt, BeatsInTime, LeaderBeatsInTime,
      ChecksInTime, ExpelledForCause, ElectionForCause, MembershipAssumption, Gap

LEMMA FollowResolveIInv == IInv /\ FollowResolve => IInv'
<1> SUFFICES ASSUME IInv, FollowResolve PROVE IInv'
  OBVIOUS
<1>1. AskLeader
  BY DEF FollowResolve
<1> QED
  BY MembershipAssumption, <1>1, Asking, SMTT(60)
  DEF FollowResolve, IInv, TypeOK, Prompt, BeatsInTime, LeaderBeatsInTime,
      ChecksInTime, ExpelledForCause, ElectionForCause, MembershipAssumption, Gap

LEMMA ReadListIInv == IInv /\ ReadList => IInv'
  BY MembershipAssumption, SMTT(60)
  DEF ReadList, Started, Refused, leaderVars, IInv, TypeOK, Prompt, BeatsInTime, LeaderBeatsInTime,
      ChecksInTime, ExpelledForCause, ElectionForCause, MembershipAssumption, Gap

LEMMA ReadOtherIInv == IInv /\ ReadOther => IInv'
  BY MembershipAssumption, SMTT(60)
  DEF ReadOther, Started, Refused, joinVars, leaderVars, IInv, TypeOK, Prompt, BeatsInTime, LeaderBeatsInTime,
      ChecksInTime, ExpelledForCause, ElectionForCause, MembershipAssumption, Gap

LEMMA PollTimeoutIInv == IInv /\ PollTimeout => IInv'
  BY MembershipAssumption, SMTT(60)
  DEF PollTimeout, Started, Refused, joinVars, leaderVars, IInv, TypeOK, Prompt, BeatsInTime, LeaderBeatsInTime,
      ChecksInTime, ExpelledForCause, ElectionForCause, MembershipAssumption, Gap

LEMMA BeatIInv == IInv /\ Beat => IInv'
  BY MembershipAssumption, SMTT(60)
  DEF Beat, Slept, Loses, Lost, joinVars, IInv, TypeOK, Prompt, BeatsInTime, LeaderBeatsInTime,
      ChecksInTime, ExpelledForCause, ElectionForCause, MembershipAssumption, Gap

LEMMA LeaderBeatIInv == IInv /\ LeaderBeat => IInv'
  BY MembershipAssumption, SMTT(60)
  DEF LeaderBeat, Slept, Loses, Lost, joinVars, IInv, TypeOK, Prompt, BeatsInTime, LeaderBeatsInTime,
      ChecksInTime, ExpelledForCause, ElectionForCause, MembershipAssumption, Gap

LEMMA CheckIInv == IInv /\ Check => IInv'
<1> SUFFICES ASSUME IInv, Check PROVE IInv'
  OBVIOUS
<1>1. CASE member /\ Overdue
  <2>1. ~member' /\ member' \in BOOLEAN
    BY <1>1, Zenon DEF Check
  \* A lastHbt that old is behind two lost heartbeats.
  <2>2. pc = "in" /\ clean => missed >= 2
    <3> SUFFICES ASSUME pc = "in", clean, missed = 0 \/ missed = 1 PROVE FALSE
      BY SMT DEF IInv, TypeOK
    <3>1. age <= 2 * Gap
      BY MembershipAssumption, <1>1, SMT
      DEF IInv, BeatsInTime, TypeOK, MembershipAssumption, Gap
    <3> QED
      BY MembershipAssumption, <1>1, <3>1, SMT
      DEF IInv, TypeOK, Overdue, MembershipAssumption, Gap
  <2>3. age' = 0 /\ checkIn' \in 0..Gap /\ UNCHANGED <<pc, joinVars, beatIn, quiet, up, leaderBeatIn, histVars>>
    BY MembershipAssumption, <1>1, SMT DEF Check, Slept, Overdue, MembershipAssumption, Gap
  <2>4. TypeOK'
    BY MembershipAssumption, <2>1, <2>3, SMT
    DEF IInv, TypeOK, joinVars, histVars, MembershipAssumption, Gap
  <2>5. Prompt'
    BY MembershipAssumption, <1>1, <2>1, <2>3, SMT
    DEF Overdue, IInv, TypeOK, Prompt, joinVars, histVars, MembershipAssumption
  <2> QED
    BY <2>1, <2>2, <2>3, <2>4, <2>5, SMT
    DEF IInv, TypeOK, BeatsInTime, LeaderBeatsInTime, ChecksInTime, ExpelledForCause,
        ElectionForCause, joinVars, histVars
<1>2. CASE ~(member /\ Overdue)
  BY MembershipAssumption, <1>2, SMTT(60)
  DEF Check, Slept, Overdue, joinVars, histVars, IInv, TypeOK, Prompt, BeatsInTime, LeaderBeatsInTime,
      ChecksInTime, ExpelledForCause, ElectionForCause, MembershipAssumption, Gap
<1> QED
  BY <1>1, <1>2

LEMMA SuspectIInv == IInv /\ Suspect => IInv'
  BY MembershipAssumption, SMTT(60)
  DEF Suspect, Silent, joinVars, leaderVars, histVars, IInv, TypeOK, Prompt, BeatsInTime, LeaderBeatsInTime,
      ChecksInTime, ExpelledForCause, ElectionForCause, MembershipAssumption, Gap

LEMMA ExitIInv == IInv /\ Exit => IInv'
<1> SUFFICES ASSUME IInv, Exit PROVE IInv'
  OBVIOUS
<1>1. PICK arrives \in BOOLEAN :
        /\ Loses(Lost(arrives))
        /\ IF arrives THEN member' = FALSE /\ age' = 0 ELSE UNCHANGED <<member, age>>
  BY Zenon DEF Exit
<1>2. \/ ~member' /\ member' \in BOOLEAN /\ age' = 0
      \/ UNCHANGED <<member, age>>
  BY <1>1, Zenon
<1>3. lost' \in 0..MaxLost
  BY MembershipAssumption, <1>1, SMT
  DEF IInv, TypeOK, Loses, Lost, MembershipAssumption
<1> QED
  BY MembershipAssumption, <1>2, <1>3, SMTT(60)
  DEF Exit, joinVars, IInv, TypeOK, Prompt, BeatsInTime, LeaderBeatsInTime,
      ChecksInTime, ExpelledForCause, ElectionForCause, MembershipAssumption, Gap

LEMMA ClientCrashIInv == IInv /\ ClientCrash => IInv'
  BY MembershipAssumption, SMTT(60)
  DEF ClientCrash, joinVars, leaderVars, IInv, TypeOK, Prompt, BeatsInTime, LeaderBeatsInTime,
      ChecksInTime, ExpelledForCause, ElectionForCause, MembershipAssumption, Gap

LEMMA LeaderCrashIInv == IInv /\ LeaderCrash => IInv'
<1>1. LeaderCrash => ~up' /\ ~member'
  BY Zenon DEF LeaderCrash
<1>2. LeaderCrash => up' \in BOOLEAN /\ member' \in BOOLEAN
  BY Zenon DEF LeaderCrash
<1> QED
  BY MembershipAssumption, <1>1, <1>2, SMTT(60)
  DEF LeaderCrash, joinVars, IInv, TypeOK, Prompt, BeatsInTime, LeaderBeatsInTime,
      ChecksInTime, ExpelledForCause, ElectionForCause, MembershipAssumption, Gap

LEMMA TickIInv == IInv /\ Tick => IInv'
  BY MembershipAssumption, SMTT(60)
  DEF Tick, Less, Due, Silent, IInv, TypeOK, Prompt, BeatsInTime, LeaderBeatsInTime,
      ChecksInTime, ExpelledForCause, ElectionForCause, MembershipAssumption, Gap

LEMMA StutterIInv == IInv /\ UNCHANGED vars => IInv'
  BY SMT DEF vars, joinVars, leaderVars, histVars, IInv, TypeOK, Prompt, BeatsInTime,
     LeaderBeatsInTime, ChecksInTime, ExpelledForCause, ElectionForCause

------------------------------------------------------------------------------
(* The theorems.                                                            *)

\* No step of client, leader or network leaves the invariant.
THEOREM Invariance == Spec => []IInv
<1>1. IInv /\ [Next]_vars => IInv'
  BY JoinLeaderIInv, JoinThroughMemberIInv, AckTimeoutIInv, FollowResolveIInv,
     ReadListIInv, ReadOtherIInv, PollTimeoutIInv, BeatIInv, LeaderBeatIInv,
     CheckIInv, SuspectIInv, ExitIInv, ClientCrashIInv, LeaderCrashIInv, TickIInv,
     StutterIInv, Zenon DEF Next, Joining, Beating, Ending
<1> QED
  BY InitIInv, <1>1, PTL DEF Spec

\* All variables keep their types: a retry counter never passes zero
\* (sendMessageWithRetry) and no poll waits for longer than it was told to.
THEOREM TypeCorrect == Spec => []TypeOK
<1>1. IInv => TypeOK
  BY DEF IInv
<1> QED
  BY Invariance, <1>1, PTL

\* detectClientFaliure expels a client that beats only if two of its heartbeats
\* in a row or a datagram of its join were lost.
THEOREM ExpelledOnlyForCause == Spec => []ExpelledForCause
<1>1. IInv => ExpelledForCause
  BY DEF IInv
<1> QED
  BY Invariance, <1>1, PTL

\* detectLeaderFailure starts an election against a leader that lives, and has
\* the client in its room, only if two of the leader's heartbeats in a row were
\* lost.
THEOREM ElectionOnlyForCause == Spec => []ElectionForCause
<1>1. IInv => ElectionForCause
  BY DEF IInv
<1> QED
  BY Invariance, <1>1, PTL

\* A member that has gone is erased within the leader's patience and one round
\* of its detector.
THEOREM DeadExpelledInTime == Spec => []DeadIsExpelled
<1>1. IInv => DeadIsExpelled
  BY MembershipAssumption, SMT
  DEF IInv, TypeOK, ChecksInTime, DeadIsExpelled, MembershipAssumption, Gap
<1> QED
  BY Invariance, <1>1, PTL

\* A client does not wait for a leader that has gone for longer than its
\* patience.
THEOREM DeadMissedInTime == Spec => []DeadIsMissed
<1>1. IInv => DeadIsMissed
  BY MembershipAssumption, SMT
  DEF IInv, TypeOK, ChecksInTime, DeadIsMissed, MembershipAssumption, Gap
<1> QED
  BY Invariance, <1>1, PTL
=============================================================================
