# Verification of the-iterators, a distributed chat

The program is a chat over UDP with a central sequencer. `dchat USER` starts a
chat and becomes its leader; `dchat USER ADDR:PORT` joins one. The leader
numbers every line and notice and sends it to every member. When the leader is
gone, the clients elect a new one, which recovers the numbering from them.

Here are TLA+ modules of the program, TLC runs that check them on small
instances, and proofs of the properties that matter most for every instance.

## Inventory

| component | source | state | operations | what makes it correct |
|---|---|---|---|---|
| Sequencer | `leader.cpp` | chatRoom, lastSeenMsgIdMap, q, seqNum, sendQ | producerTask with parseMessage (JOIN, CHAT, DELETE, DEQUEUE), consumerTask, sender, deleteUser, sendListUsers | one order on all screens; no line twice; every line numbered and returned; lists that cover the room |
| Priority queue | `queue.cpp`, `message.cpp` | a binary heap, mutex, condition variable | push, pop, `operator<` | nothing lost; no lost wakeup; the order it hands out |
| Client queue | `clientQueue.cpp` | a FIFO, mutex, condition variable | push, pop | one DEQUEUE per queued line |
| Client | `client.cpp` | chatRoom, lastSeenSequenceNum, lastSeenMsg, q, msgId and the election and recovery flags | establishConnection, joinNetwork, sender, receiver, exitChatroom | screens go forward; the receiver never blocks |
| Failure detectors | `leader.cpp`, `client.cpp` | lastHbt, multiplier | heartbeat senders and receivers, detectClientFaliure, detectLeaderFailure | the dead are removed, the living are not |
| Reliable sending | `utils.cpp` | ack sockets | sendMessageWithRetry, receiveMessageWithAck | an ack belongs to its message; a dead peer is reported |
| Election | `client.cpp` | isElection, isOk, leaderFound, iAmDead | startElection, ELECTION, LEADER, IAMDEAD | one leader, eventually |
| Recovery | `leader.cpp`, `client.cpp` | isNewlyElected, msgToDeliver, isRecovery, isRecoveryDone | the second Leader constructor, sendRecoveryWithRetry, performRecovery, RECOVERY, CLOSE_RECOVERY | the order goes on where it stopped |
| Naming | `client.cpp` | leaderIp, leaderPort | JOIN at a client, RESOLVE_LEADER at a joiner | every joiner finds the leader |
| Users, Ids, main, ports, SubstitutionCipher | the other files | - | - | data, start-up, or unused |

How they interact: client and leader talk only by datagrams, each on three
sockets (messages, acks, heartbeats). Inside the leader six threads share
chatRoom without a lock and hand messages to the consumer through `q`. Inside a
client four threads share the flags and the queue.

What is hard here: the consumer iterates over chatRoom while two other threads
erase from it; `q` is ordered by a comparison that is not an order; a joining
client is in the room before it knows; datagrams are lost, late and repeated;
an expelled client does not know it and goes on sending; elections of several
clients overlap; a new leader rebuilds the numbering from what others saw; two
unsynchronised timers watch each other. `PROJECT.json` lists these hazards one
by one, at their lines, with the properties about them.

## Modules

                  ChatCodes   MessageHeap ---- AtomicQueue (what BlockingQueue
                   /     \    /    |    \              |         implements)
                  /       \  /     |     BlockingQueue
          Sequencer    Failover    |        |        \
          /   |   \       |   \    |   MCMessageHeap  BlockingQueueProofs
         /    |    \      | SharedOrder    run heap
        / MCSequencer \ MCFailover
       /  runs seq_*   \ runs failover*     Membership     run heartbeat
      /            SequencerProofs --+         |
    TotalOrderMulticast    |  MessageHeapProofs  MembershipProofs
                     DeliveryProofs  |
                           |         |
                      ClientProofs   |
                   RecoveryProofs - FailoverProofs (about Failover)

Sequencer, Failover and Membership are three views of the same two processes:
the chat under its first leader with all thread interleavings, what happens when
a leader is gone, and the time it takes to notice. Failover's clients react as
Sequencer's do and its leader runs Sequencer's producer and consumer, with
coarser steps; what Membership times (`Check`, `Suspect`, and when an election
begins) is in Sequencer and Failover a step that may come at any time (`Suspect`,
`Eliminate`, `DetectFailure`).

**ChatCodes** has the message codes of `globals.h`.

**MessageHeap** is `BlockingPQueue` as the standard library really runs it.
`Message::operator<` returns `type - m.type` as a bool, so "less" means "of
another type". `Differs` is that comparison; `PushHeap` and `PopHeap` are
`std::push_heap` and `std::pop_heap` with it, written as what they do to the
path an element takes in the heap (`Climb`, a recursive function; no operator is
recursive, so that one can prove about them). **MCMessageHeap** keeps, beside the heap,
the one that the library's loops (written as loops) produce.

**Sequencer** is the chat while its first leader lives.

| code | model |
|---|---|
| `parseMessage`, case by case | `HandleJoin` then `WelcomeUser` (the producer can be overtaken between inserting the user and answering him), `IgnoreOldChat`, `HandleChat`, `HandleDelete`, `HandleDequeue`, `HandleInvalid` |
| `consumerTask` | `PopMessage` (pop, number), `NextRecipient` (one round of the loop: one send and its wait), `AdvanceErased` (`it++` on an erased node), `FinishMessage` (the DEQUEUE after the loop) |
| `Leader::sender` | `LeaderTypes`, `LeaderQuits` |
| `detectClientFaliure`, `deleteUser` | `Suspect`, `DeleteUser` |
| `joinNetwork` | `Join`, `ReadList`, `MissList` (it runs off its end), `JoinTimeout` |
| `Client::sender`, `exitChatroom` | `SendChat`, `ExitChatroom` |
| `receiver`, case by case | `ReceiveChat`, `ReceiveAddUser`, `ReceiveDelete`, `ReceiveDequeue`, `ReceiveJoin`, `ReceiveList` |
| UDP | one buffer per socket, first in first out; `Lose`, `Delay`, `Duplicate` are bounded faults |

Its abstractions, and why they are sound:

- *Acks.* `sendMessageWithRetry` waits for any datagram on the ack socket or for
  its timeouts, and then returns the byte count of the first send in every case:
  its retries go to an address that the code never initialises and its
  `NODE_DEAD` is the recursive call's, whose result is dropped. So every caller
  goes on in the same way. A wait is a thread that has not taken its next
  step. A retry that happens to reach the receiver is a `Duplicate`.
- *Data.* An Id is a number, ordered as `map<Id, ...>` iterates. A message is its
  type, the user it is about and, for a line, its message id. Texts, names and
  ports are left out.
- *The merge conflict.* `leader.cpp` and `globals.h` contain unresolved conflict
  markers and do not compile as they are. The two sides differ in what the
  leader does after the loop, so the constant `Side` chooses; the runs take
  `HEAD`, the proofs hold for both.
- *Undefined behaviour* is a choice among outcomes. Advancing an erased iterator
  ends the process, or leads to some entry, or ends the loop. Reading a field a
  DEQUEUE does not have ends the process or not. `joinNetwork` without a return
  value is a success or a failure. An uninitialised priority is any member of
  `UninitPriority`: 0, which makes the line a JOIN's, or a value that makes its
  type a chat line's. With other values the line would have the code of a message
  with other fields (a DELETE whose number is read from the message id, say);
  this is the one restriction of an undefined value. `seq_live` takes only 100:
  with 0 the line of a sender who was expelled comes out as a JOIN and is
  never shown, so that it does not come back.
- *A client speaks once.* `Client::sender` has a `break` at the end of its loop
  body: it polls the input once, with timeout 0, and sends at most one line.
- *Start-up.* The model starts when `startServer` has set up its sockets and its
  own chatRoom entry.
- *Map accesses* are atomic, although no lock makes them so.
- *History variables* `log`, `shown`, `dangled`, `faults` record what the code
  does not, and nothing of the program reads them. `faults` says which faults have
  happened and to whom: `Suffered(i)` is what befell datagrams on their way to `i`,
  and whether `i` was falsely suspected. When a process ends, its
  variables are reset, so that states do not differ in a dead process's memory.

**TotalOrderMulticast** is the promise: there is one log, and every participant
shows entries of it in ascending order. `Sequencer!ImplementsMulticast` is the
refinement, with the identity on `log` and `shown`.

**BlockingQueue** is `BlockingPQueue` with its threads: `Lock` (unique_lock, also
on the way out of `wait`), `Push` (push and unlock), `NotifyOne` (after the
unlock), `TestEmpty` (the while), `Pop`, and wakeups for no reason. Popping an
empty heap is undefined and hands out a message nobody pushed. **AtomicQueue** is
what the rest of the program takes it for; `ImplementsAtomicQueue`, a safety and
liveness refinement, is why Sequencer and Failover may push and pop in one step.

**Failover** begins with a chat that some group has joined (`Groups`) and a
leader that may crash.

| code | model |
|---|---|
| `detectLeaderFailure` | `DetectFailure`: the poll runs out, isElection is tested, a thread is made |
| `startElection`, a thread | `StartElection` (isElection is set, the leader erased, isOk reset), `SendElection` (one ELECTION and its wait), `WakeUp` (after the three seconds), `TellOthers` (LEADER to all, then iAmDead) |
| end of `establishConnection`, second Leader constructor | `BecomeLeader` (sockets close with what is in them), `AskMember`, `HearAnswer`, `GiveUp` (three waits in vain: tempInt is what it was), `StartThreads` |
| `producerTask`, `consumerTask` of a leader | `HandleChat`, `PopMessage`, `NextRecipient` |
| `Leader::sender` | `SenderTop`, `LeaderTypes` |
| `detectClientFaliure` | `Eliminate` |
| `receiver`: CHAT/ADD_USER/DELETE, ELECTION, LEADER, RECOVERY, CLOSE_RECOVERY | `ReceiveMulticast`, `ReceiveElection`, `ReceiveLeader`, `ReceiveRecovery`, `ReceiveClose` |
| `Client::sender` | `SendChat` |

`thread[c][t]` is where an election thread of `c` is. The test of isElection
(`DetectFailure`, `ReceiveElection`) and its setting (`StartElection`) are steps of
different threads with anything in between, as in the code, and isOk is one flag
for all threads of a client. `best` is the constructor's `maxSeqNum` and
`msgToDeliver`, `muted` the leader's `isRecoveryDone`, `con` its consumer as in
Sequencer.

Two history variables tell when one of the two things happens that the code does
nothing against and that break its promises: `raced`, when a client that has not
heard of a leader has two election threads, and `overtaken`, when a message has
left a new leader's queue before CLOSE_RECOVERY. The properties that fail then say
so themselves: `OneSuccessor` speaks of behaviours that have not `raced`,
`NumbersOnward`, `RecoveredUpToDate` and `ImplementsSharedOrder` of `Orderly` ones. No
behaviour is left out of the model for it, and the runs `failover_race` and
`failover_overtake` show what becomes of the order afterwards.

What the model assumes, and what it does not:

- *A leader is missed only when its heartbeats have stopped* (`HeartbeatsCome`):
  when no leader that has the client in its map leads. Then it may be
  missed at any time, also during a recovery, since a poll keeps the
  timeout it was called with. Membership shows when a leader that lives is not
  missed: unless two heartbeats in a row are lost. A client that misses a
  leader that lives makes a second one, and the chat is two chats; what then
  happens is not modelled.
- *Waits.* The wait for the ack of an ELECTION ends at once, late or never heard of
  again: `SendElection` goes on at any time, whether the ELECTION has been read
  or not. So does a multicast's. The wait for a RECOVERY's answer ends with an
  answer, or in vain if the member is dead; that a living member's answer is lost or
  late is not modelled.
- *Sleeps* end at any time in the run `failover`. With `Prompt`, three seconds are
  enough for the others to miss the leader and to send what they send; the
  violations are found although it is assumed, so they need no slow client.
- *No datagram is lost, and a socket is read in order.* Crashes are the fault
  here: of any process in `Mortal`, between any two steps, with what is
  in its sockets. A LEADER broadcast or a multicast that stops half way is one.
- *Ports.* `startElection` compares ports alone, and `generatePortNumber` lets two
  hosts draw the same. `Port` is any function; where a property needs them to differ
  it says so (`DistinctPorts`). The runs' ports differ.
- *Election threads.* A client has up to `MaxThreads` at a time if it is in `Racers`,
  one otherwise; both are bounds. When they are reached, no further thread is made.
- *ELECTIONs.* One client's second ELECTION to another is dropped while the first is
  unread (`SendElectionTo`), or an election that loops would fill the socket. The
  receiver does the same for both.
- *The map in an election.* Only the first leader is erased from it: a client that
  has become leader is in the others' maps with the port it had as a client,
  and leaderPort is the one it leads with.
- *iAmDead.* The receiver takes nothing more once it is set. In the code it may
  already be in recvfrom and take one more datagram; that is the same as to take
  it just before, because the election thread does nothing after setting it.
- *A new leader's failure detector* begins after the recovery with fresh
  lastHbts, so it eliminates nobody before CLOSE_RECOVERY is out (`Welcomed`).
- *Uninitialised values.* `tempInt`, when the first asked member is dead, is any
  of `UninitSeq`.

**SharedOrder** is what survives a leader: screens never disagree on a number and
never go back. No log is in it, because the new leader has none.
`ImplementsSharedOrder` is the refinement.

**Membership** is one client, its leader and the clock, in seconds: `JoinLeader`,
`JoinThroughMember`, `AckTimeout` (the retries go to nobody, because the address
they use was never written), `FollowResolve`, `ReadList`, `ReadOther` (a
multicast read in the list's place), `PollTimeout`; then `Beat`, `LeaderBeat`,
`Check`, `Suspect`; `Exit` and crashes; and `Tick`, when nothing is due. A
joinNetwork that ends without a return value succeeds or fails. A datagram
arrives within its second or is lost. One client is enough, because nothing in
heartbeats depends on another client. `lost`, `clean`, `missed`, `leaderMissed`
and `deadFor` are history variables.

**MCSequencer** and **MCFailover** add what the runs' instances need.
**MCMessageHeap** runs the library's loops beside BlockingQueue.

## Runs

| run | question | result |
|---|---|---|
| `heap` | two pushing and two popping threads, 3 types, 5 messages: do the closed forms compute what the loops do, is a message lost or repeated, what overtakes what, is a push or pop atomic, is a wakeup lost | holds |
| `seq_lossless` | two clients, both orders around the leader's Id; one speaks, one exits or crashes; nothing lost. Lists cover the room, screens have no gaps, DEQUEUEs match queued lines; two screens and the leader's show one message under one number | holds |
| `seq_expelled` | one client, two faults of any kind (a loss, delay, repetition or false suspicion), crashes on both sides: no line twice, no receiver blocked but by a repeated DEQUEUE, no gap and nothing dequeued unseen where the faults are not this client's own, refinement, also when an expelled client's line makes an entry with a priority nobody set | holds |
| `seq_live` | two clients, one speaks, fair threads: the line comes back and is dequeued, everyone catches up | holds |
| `seq_leader` | the leader's own three lines, one fault (a repetition): each is numbered unless the process has died; there are no clients | holds |
| `seq_ghost` | do all lists agree with the leader's once all notices have been handled | no: a client that leaves at once stays on another's list |
| `failover` | groups of two and three; crashes, threads that overlap, sleeps and waits of any length; a client's line before the crash and one of the new leader's user. One successor, of the highest port; numbers go on beyond every screen; CLOSE_RECOVERY brings all up to date; screens agree; somebody leads in the end, or a client has raced with itself | holds |
| `failover_race` | is there one leader if a client has two election threads | no: they share isOk, and one declares itself leader below a live higher client |
| `failover_overtake` | does one number stay one message if the new leader's user types at once | no: his line overtakes CLOSE_RECOVERY in the heap and takes its message's number |
| `failover_straggler` | does everybody come out of an election | no: an election thread that starts after CLOSE_RECOVERY leaves isElection set for ever |
| `failover_second` | is a leader replaced if the highest client crashes too | no: the election loops, or ends at once because leaderFound is still set |
| `heartbeat` | joining and heartbeats with two losses and crashes: expelled or elected against only for cause, the dead noticed in time, a join ends | holds |

The properties that fail are what the repository promises; `PROJECT.json` has
the findings. `seq_ghost` and `failover_overtake` are the queue's order seen from
outside: a message of a type the queue does not hold overtakes what is there
(`NewTypeIsNext`), be it a DELETE the ADD_USER of the same user, or a line
CLOSE_RECOVERY.

Bounds. Two clients with Ids 1 and 3 around the leader's 2 are the least that
show two screens, a join beside a member, a user before and after the leader in
the loop, and an iterator with something before and behind it. `Speakers` and
`Leavers` say which users act, so that a run keeps to its question; each kind of
step happens in some run. `MaxFaults` bounds faults, `MaxLeaderChats` the
leader's lines (three, for one to overtake another in the queue). `MaxLag` is a
state constraint on how many datagrams wait for one client in `seq_expelled` (3):
states beyond it are checked but not explored further. Two are enough for one
datagram to overtake or follow another. Nothing else cuts a run
short: joining, typing and faults are finite, and so are the state spaces. Deadlock is not checked, because a chat whose users have
all had their say stops.

The run `failover` has one of three groups. In {1, 2} the lower client may have two
election threads and may crash, the other one's user types when it leads, so that
its line may overtake CLOSE_RECOVERY. In {4, 6} the winner comes first in the map,
its rival types a line before the crash, and the leader may stop in the middle of
its multicast, so that one has shown what the other has not. In {2, 4, 5} three
elections overlap, and one of the lower clients may crash in its own. All three
may lose the first leader, at any step. Ports are in the order of the Ids for
some and against it for others, so that the loops over the map meet higher and lower
ports in any order; with every group as large as the third and everything in it,
a run would take hours. The violations have three clients, the least
with a highest, a lowest and one between. The crash of the
highest is `failover_second`'s. `MaxLines`, `Speakers` and `Authors` bound the
lines: one before the crash and one after it are what can disagree. Membership's
times are the code's (4 s, 12 s, 5 s, 3 s, 3 tries) with one second of slack;
two losses are enough for any cause that `ExpelledForCause` names. The
four queue threads are two of each kind, so that a wakeup can go to the wrong
one.

Fairness. In Sequencer (`FairSpec`): weak fairness of the producer, of the
consumer and of each client's joiner and receiver, each a thread in a loop over a
blocking call, which the operating system runs again and again. `Producer` and
`Consumer` are one action each because one thread takes all their steps. In
Failover: weak fairness of a process's leader threads, of its election and
recovery, and of its receiver; `SleepSpec` adds strong fairness of `WakeUp`, which
under `Prompt` waits for others and is therefore not always enabled: a sleep ends.
The run `failover` makes do with less, `ElectSpec`: the receivers, and some one thread
of each client's others.
In Membership: of the waits that have timeouts, and of the periodic threads and
the clock together. In BlockingQueue: of each thread's steps; a mutex need not be
fair. Nothing is assumed of users, crashes, false suspicion, spurious
wakeups or the network's faults.

## Proofs

`SequencerProofs` proves, for any set of clients, any `UninitPriority` that
`SequencerAssumption` allows (0, and what makes the line a chat line), either side of the conflict and any number of faults:

- `TypeCorrect`: `Spec => []TypeOK`
- `TotallyOrdered`: `Spec => []TotalOrder`
- `Implements`: `Spec => ImplementsMulticast`
- `NoLineTwice`: `Spec => []NoChatTwice`

All follow from `Invariance`, `Spec => []IInv`. That screens agree is not
inductive by itself: it must be known that what is on its way under number n is
the n-th entry of the log (`Sent`), that the consumer multicasts the entry it has
last appended (`Numbered`), and that `lastSeen` is the last number on the screen
(`Displayed`). For `Sent` to be of use, a datagram must be what its code says. A
multicast's code is its message's type and that of a line is its sender's
priority plus one, so no line may ever come out as LIST_OF_USERS, which a joiner
would read as a list. `Prioritized` says why: a priority is at least CHAT, or it
is 1 and its owner has spoken, and a client's second message is its last
(`Requested`), which the duplicate check would drop (`Seen`). `Typed` carries this
through the queue, with the lemmas of `MessageHeapProofs`: whatever order a heap
takes, it hands out what was put in. TLC found `IInv` to hold in the instances of
`seq_lossless` and `seq_expelled` before it was proved.

`NoLineTwice` needs one more invariant, `Accepted`: queue and log hold each line
once (`Once`), none is in both, and the leader's `lastMsgId` is at or above the
id of every line in them. So the duplicate check lets a line in once, however
often its request comes and even if its sender has been expelled in between,
since deleting a user leaves `lastMsgId` alone. The rest is the heap's: that it
does not repeat a line is no matter of course, when its order is no order.

`DeliveryProofs` and `ClientProofs` go on from there to what comes to each client.
Their four theorems hold for any clients and any number of faults of all kinds. A
network that loses a datagram makes a gap on the screen it was for, so the
properties speak of a client according to what it has suffered itself
(`Suffered`), and what the theorems say is that nothing else matters: neither what
happens to others or to the leader's socket, nor who joins, crashes, leaves or is
expelled meanwhile. `faults` only grows (`Remembered`), so a client that is
`Steady` (not gone, not blind, never falsely suspected) now has always been so.

- `NoneStuck`: `Spec => []NoStrayDequeue`. Only a repeated DEQUEUE can block a
  receiver. `DInv` follows the one line a client may send: its request is in the
  leader's socket, or it is in `pq`, or the consumer has it (`Awaited`), or a DEQUEUE
  is on its way (`Answered`); never two of these at once (`Owed`), and in all of them
  the line is still in the client's queue. Repeating a request changes nothing
  (`Accepted`). A DEQUEUE is there once (`Single`) as long as nothing is repeated
  on the way to this client, so the receiver that reads it finds the line.
- `NothingMissed`: `Spec => []NoGap`, for a client to which everything comes in
  order, be it more than once. `GInv` says that what the client has shown last,
  what is in its socket and what the consumer will send it next leave no number
  out (`Gapless`, in `Unbroken`): between the places of any two of these numbers,
  every number between the two has a first copy before the second place. That is
  kept by a repeated datagram (`GaplessTwice`), where ascending order is not. The
  loop goes through the room in the order of the Ids, so who is passed over is not
  in the room, and who is steady and not in the room has been sent nothing yet
  (`Housed`); who is deleted has gone or was suspected (`Deserved`). An iterator
  that an erased entry has led astray is the one way left to miss a number, which
  `dangled` excuses.
- `ShownWhenDequeued`: `Spec => []DequeuedIsShown`, under the same condition. `LInv`
  follows the line and its DEQUEUE: when the consumer's loop is past the sender, the
  line is in the sender's socket or on its screen (`Placed`; that the loop does not
  pass over it is `Housed`'s work), so in the socket no DEQUEUE comes before it
  (`Preceded`). That the receiver shows it and does not take it for an old one is
  `Fresh`: until it is shown, no later number is, because its first copy comes
  before theirs (`Gapless`). The line's type must be a chat line's on the side of
  the conflict that is built, or there is no DEQUEUE.
- `EverybodyKnown`: `Spec => []KnowsMembers`, for a client to which nothing was lost,
  in whatever order and however often it came (`Told`). `KInv` speaks of every list
  that the client has, or has in its socket and may yet join with (`Lists`). A list
  is the room of the moment it is sent; who comes into the room later is
  announced, by the producer, in `pq`, in the loop or in the socket (`Announced`),
  and each of these hands on to the next, since the heap loses nothing
  (`PushShuffles`, `PopShuffles`), the loop passes nobody in the room, and a late or
  repeated datagram is still in the socket (`OutcomeKeeps`). And only who is not
  steady is ever deleted (`Departed`), so a DELETE that overtakes or follows an
  ADD_USER takes nobody from a list who is there. That is one direction; the
  other, that lists hold nobody else, is what `seq_ghost` refutes.

The first versions of these proofs assumed that there are no faults, or no
repetitions. To drop that, two invariants had to change: ascending order in a socket
became the order of first copies, and "the head of the socket is a list" became
"any list in the socket". TLC checked the new invariants before they were proved:
on one client with two faults of any kind and crashes of both sides (720,000
states, complete), and on two clients with one fault of each kind in turn (the
first 0.4 to 1.9 million states of each). The four properties themselves also hold
on two clients that do not leave, with one fault of any kind and at most two
datagrams waiting for each (5.8 million states, complete): too long for a run.

`MessageHeapProofs` shows how the heap keeps its messages: `PushShuffles` and `PopShuffles` say that after
a push or a pop the heap is a permutation of what it should hold. Each loop moves
messages by one place along a path that has one position per level
(`ClimbLeads`, `DescentLeads`), so no position is overwritten before it is
copied. `ClimbUnfolds` justifies the recursion of `Climb`: the intersection of
all sets that hold a position and are closed under halving satisfies it. Where
an induction over positions is needed, it is a least counterexample (`Smallest`).

The assumptions are `SequencerAssumption`: Ids are positive numbers, the leader
is no client, and the bounds are of their types.

`MembershipProofs` proves, for any periods, timeouts, retries and number of lost
datagrams, `TypeOK`, `ExpelledForCause`, `ElectionForCause`, `DeadIsExpelled` and
`DeadIsMissed`, under one assumption on time: each side is patient for two of the
other's gaps (`2 * Gap <= Limit`, `2 * Gap < Patience`; 10 and 12 seconds here). The
invariant says how old things can be: `BeatsInTime` and `LeaderBeatsInTime` bound
the age of the last heartbeat plus the time to the next by one gap for each
heartbeat lost, plus one; `ChecksInTime` bounds a member's age plus the time to
the leader's next check by `Limit + Gap`; `Prompt` says that a clean join
has left the client a member of age 0 when it reads its list. `Check` and
`Suspect` then need an age that only two losses allow.

`BlockingQueueProofs` proves, for any number of threads and messages, that the
locked push and pop are those of AtomicQueue (`PushAndPopAreAtomic`, its safety
half): who is inside has the lock, so what it has tested still holds. With the
heap lemmas it proves `NothingLost` (`NothingIsLost`, by `Kept`: the arrivals in
the heap are distinct and not among the popped ones) and `NewTypeIsNext`
(`NewTypeOvertakes`: nothing above a message of a new type makes it stay), the
overtaking that `seq_ghost` and `failover_overtake` show from outside.

`FailoverProofs` proves, for any clients, groups, ports, threads and crashes, `TypeOK`
and `OneSuccessor` (`TypeCorrect`, `ElectsOne`): a second leader, or one below a live
client of a higher port, comes only after a client without a leader has had
two election threads, or if ports are equal. The argument: while the first leader
lives nobody misses it and it deletes only the dead (`Calm`, `OnlyDeadDeleted`).
So the map of whoever has not yet heard of a successor holds everyone alive
(`Unaware`), and nothing that it may read before the first LEADER changes that
(`Harmless`: a DELETE is of somebody dead, the sender of a LEADER has a higher port
and is in the map). A client that has not raced runs one election (`Single`), and
an election without an OK has met nobody higher (`Swept`); here a second
thread, which resets the isOk they share, would break the invariant, as it
does in `failover_race`. So who declares itself is the highest alive, and has heard
of no other (`Sole`); and whom a declared leader has passed in its loop knows it
(`Announced`), so that nobody else can. `raced` never becomes false again
(`NextRaced`), so `IInv` may have all this under `~raced /\ DistinctPorts`, and types
and the calm before the crash without it. A thread made when the leader has been
found is no race: it only ends.

`RecoveryProofs` builds on that and proves `NumbersOnward`, `RecoveredUpToDate`, the
refinement `ImplementsSharedOrder`, and that screens agree while it goes `Orderly`
(`ScreensAgree`). Nothing forbids the two disorders: `NextOrderly` says that a
behaviour that is orderly now has been so, and the theorems say that in crashes,
elections and recoveries nothing else breaks the order. `failover_overtake` and
`failover_race` show that the code allows both. `RInv` has two parts.
`Numbers`: among all entries that somebody has shown, is sent, sends or has
gathered (`Extant`), one number is one message (`Agree`), unless an answer has lost
its text (`Plain`), and whoever leads is about to number beyond them all
(`Bounded`). `Succession` is why the last holds for a new leader: in every socket
the old leader's lines come before the RECOVERY (`RecoveryLast`), so who has
answered has nothing of the old numbers left to read (`NoLine`) and stays at or
below the best answer (`Collects`); the members are asked in the order of their Ids
(`Done`, `Turn`, `Later`), so when there is no next one, all that are alive have been
heard. CLOSE_RECOVERY then repeats the best answer and whoever takes it has shown
up to it (`Resumed`). Other messages may be pushed beside it, but one CLOSE_RECOVERY
stays there until it is popped, with the number it needs (`Fresh`; `PushKeeps`,
`PopTakesClose`): popped before it, another would take that number, which is what
`overtaken` records. An uninitialised `tempInt` is harmless to agreement, because
it is kept with an empty message: `Agree` and `RecoveredUpToDate` exempt those.

TLC found `IInv` and `RInv` to hold in the instance of `failover`. Failover's own
restrictions, and not the prover's, are: no lost datagrams, no late answer to
RECOVERY, and a leader that is missed only when its heartbeats have stopped.

Only model-checked:

- everything under fairness (`ChatComesBack`, `CatchesUp`, `LeaderLineSequenced`,
  `LeaderElected`, `JoinEnds` and the liveness half of `ImplementsAtomicQueue`),
  which is out of the prover's reach;
- `LoopsAgree`, which compares with recursive operators; through it the lemmas of
  `MessageHeapProofs` are about the library's loops.

## What is left

Every safety property of a passing run but `LoopsAgree` has a theorem, and the
theorems about Sequencer have no hypothesis but `SequencerAssumption`. Membership's
needs the patience of its two sides, which the code's times have. Failover's
have none beyond the types of its constants; where the code can break a
promise, the property says after what. What could be asked next is in the model
rather than in the proofs: a failover in which datagrams are lost, and a leader that
is suspected while it lives.

## Not modelled, and why

- A client that suspects a leader that lives. The old leader goes on and the new
  one sends its own numbers to the same screens; nothing in the code
  looks at who sends, so no property would be left to check.
- Lost or late RECOVERY datagrams and answers, and lost ELECTIONs and LEADERs. Lost
  datagrams are in Sequencer and Membership.
- More than two election threads of a client at a time, and a run with equal ports:
  both end in two leaders, as `failover_race` does.
- JOIN, DELETE and DEQUEUE during a failover; `multiplier`'s growth, that is, how
  long a client waits for the second leader (Failover leaves the time open).
- Ack sockets: any datagram ends a wait. Sequencer lets every wait end at any time, and
  so does Failover for ELECTION and multicasts, which covers an ack that comes too
  early; Membership's end with the answer or by their timeouts. An answer to
  RECOVERY that is taken for another member's is not covered.
- A joiner that is refused though the leader lists it, or starts though it does
  not: Membership has both outcomes and no property about what follows.
- The joins, lines and exits of clients while the producer is blocked by a repeated
  DEQUEUE (`seq_leader` has no clients).
- `performRecovery` of both classes: nothing calls it.
- Reused addresses (`lastSeenMsgIdMap` is never cleared), start-up of a leader
  before its sockets exist, pointers into freed buffers (`leaderIp`), torn maps.
- Texts and their delimiters (`Documentation/Limitations.txt`), buffer sizes, port
  search, `SubstitutionCipher` (never defined), `main`.
