------------------------------- MODULE Broker -------------------------------
(***************************************************************************)
(* module3/02: a publish/subscribe broker over ONE System V message queue. *)
(* Publishers and subscribers send requests to the broker as messages of   *)
(* type 1; the broker sends payloads to a subscriber as messages whose     *)
(* type is the subscriber's pid.  msgrcv picks the oldest message of the   *)
(* asked type, so the queue is modelled as one FIFO per receiver, all of   *)
(* them sharing one capacity (msg_qbytes, counted here in messages).       *)
(*                                                                         *)
(* A signal sets a flag.  It also makes a blocked msgrcv, msgsnd or fgets  *)
(* fail with EINTR, unless it arrives after the flag was tested and before *)
(* the call blocks: then the call blocks all the same.                     *)
(***************************************************************************)
EXTENDS Integers, Sequences, SequencesExt, FiniteSets

CONSTANTS
  broker,        \* the receiver of type-1 messages
  Publishers,
  Subscribers,
  Topics,
  PubTopic,      \* PubTopic[p]: the argument of -p
  CommandLines,  \* the arguments of -s the subscribers may be started with
  Limits,        \* how many messages a queue can hold: the system's setting
  MaxLines,      \* bound on the lines typed into the publishers together
  MaxPresses,    \* bound on the user's Ctrl-C, in all processes together
  MaxRivals      \* bound on the attempts to start another broker

ASSUME BrokerAssumption ==
  /\ PubTopic \in [Publishers -> Topics]
  /\ CommandLines \subseteq [Subscribers -> Seq(Topics)]
  /\ Limits \subseteq Nat \ {0} /\ MaxLines \in Nat /\ MaxPresses \in Nat /\ MaxRivals \in Nat
  /\ broker \notin Publishers \cup Subscribers /\ Publishers \cap Subscribers = {}

Clients == Publishers \cup Subscribers
Receivers == {broker} \cup Subscribers

VARIABLES
  subTopics, \* subTopics[s]: the arguments of -s, in their order
  limit,     \* msg_qbytes
  queue,     \* the System V queue: not created yet, usable, removed
  mail,      \* mail[r]: what waits in it for r, oldest first
  qnum,      \* msg_qnum: how many messages it holds
  pc,        \* where each process is
  flag,      \* should_terminate, pub_should_terminate, sub_should_terminate
  topics,    \* the broker's list of topics, each with its list of pids
  pubs,      \* the broker's list of publishers
  fan,       \* the pids send_to_subscribers has still to serve
  load,      \* the payload it sends them
  kills,     \* the list that safe_broker_shutdown walks: the pids it has still to signal
  lines,     \* lines[p]: how many lines p has read
  idx,       \* idx[s]: i - 1 in the loops over argv
  presses,   \* how often the user pressed Ctrl-C in each process
  refused,   \* how many other brokers said that one is running already
  got        \* history: the payloads each subscriber printed

setting == <<subTopics, limit>>
system == <<queue, mail, qnum>>
brokerVars == <<topics, pubs, fan, load, kills>>
userVars == <<presses, refused>>
vars == <<setting, system, pc, flag, brokerVars, lines, idx, userVars, got>>

NoLoad == [pub |-> broker, num |-> 0]

Init ==
  /\ subTopics \in CommandLines /\ limit \in Limits
  /\ queue = "none" /\ mail = [r \in Receivers |-> <<>>] /\ qnum = 0
  /\ pc = [x \in {broker} \cup Clients |-> "start"]
  /\ flag = [x \in {broker} \cup Clients |-> FALSE]
  /\ topics = <<>> /\ pubs = <<>> /\ fan = <<>> /\ load = NoLoad /\ kills = <<>>
  /\ lines = [p \in Publishers |-> 0]
  /\ idx = [s \in Subscribers |-> 1]
  /\ presses = [x \in {broker} \cup Clients |-> 0]
  /\ refused = 0
  /\ got = [s \in Subscribers |-> <<>>]

-----------------------------------------------------------------------------
(* The broker's lists.                                                     *)

\* A pid is added at the head, once.
AddPid(pids, pid) == IF Contains(pids, pid) THEN pids ELSE <<pid>> \o pids

\* The node of pid leaves the list; by AddPid there is one at most.
\* (Seeded fault of it: the rest of the list is lost with the node.)
DelPidAll(pids, pid) == <<>>
DelPid(pids, pid) == RemoveFirst(pids, pid)

TopicIndex(name) == SelectInSeq(topics, LAMBDA t : t.name = name)   \* 0: not found
PidsOf(name) == IF TopicIndex(name) = 0 THEN <<>> ELSE topics[TopicIndex(name)].pids

AddOrSubscribe(name, pid) ==
  IF TopicIndex(name) = 0
  THEN <<[name |-> name, pids |-> <<pid>>]>> \o topics
  ELSE [topics EXCEPT ![TopicIndex(name)].pids = AddPid(@, pid)]

Unsubscribe(name, pid) ==
  IF TopicIndex(name) = 0
  THEN topics
  ELSE [topics EXCEPT ![TopicIndex(name)].pids = DelPid(@, pid)]

-----------------------------------------------------------------------------
(* The queue.                                                              *)

Full == qnum >= limit

\* msgsnd succeeds.
Put(r, m) ==
  /\ queue = "up" /\ ~Full
  /\ mail' = [mail EXCEPT ![r] = Append(@, m)]
  /\ qnum' = qnum + 1
  /\ UNCHANGED queue

\* msgrcv succeeds.
Get(r) ==
  /\ queue = "up" /\ mail[r] # <<>>
  /\ mail' = [mail EXCEPT ![r] = Tail(@)]
  /\ qnum' = qnum - 1
  /\ UNCHANGED queue

Go(x, place) == pc' = [pc EXCEPT ![x] = place]

-----------------------------------------------------------------------------
(* The broker.                                                             *)

BStart ==
  /\ pc[broker] = "start"
  /\ queue' = "up"
  /\ Go(broker, "test")
  /\ UNCHANGED <<setting, mail, qnum, flag, brokerVars, lines, idx, userVars, got>>

\* Another process is started with -b while the queue exists: EEXIST.
AnotherBroker ==
  /\ queue = "up" /\ refused < MaxRivals
  /\ refused' = refused + 1
  /\ UNCHANGED <<setting, system, pc, flag, brokerVars, lines, idx, presses, got>>

\* The pids to signal: first the publishers, then the subscribers of each topic.
StartShutdown ==
  /\ kills' = pubs /\ pubs' = <<>>
  /\ UNCHANGED topics

BTest ==
  /\ pc[broker] = "test"
  /\ \/ /\ ~flag[broker]
        /\ Go(broker, "recv")
        /\ UNCHANGED <<topics, pubs, kills>>
     \/ /\ flag[broker]
        /\ Go(broker, "kill")
        /\ StartShutdown
  /\ UNCHANGED <<setting, system, flag, fan, load, lines, idx, userVars, got>>

HandleSubscribe(m) ==
  /\ m.cmd = "subscribe"
  /\ topics' = AddOrSubscribe(m.topic, m.from)
  /\ Go(broker, "test")
  /\ UNCHANGED <<pubs, fan, load>>

\* del_pid reads the first node of the list without a test: on a topic whose
\* list has become empty it dereferences NULL.
HandleUnsubscribe(m) ==
  /\ m.cmd = "unsubscribe"
  /\ LET emptied == TopicIndex(m.topic) # 0 /\ PidsOf(m.topic) = <<>>
     IN  \/ /\ ~emptied
            /\ topics' = Unsubscribe(m.topic, m.from)
            /\ Go(broker, "test")
         \/ /\ emptied
            /\ Go(broker, "crashed") /\ UNCHANGED topics
  /\ UNCHANGED <<pubs, fan, load>>

\* (Seeded fault: the sender is filed with the subscribers.)
HandleSendSubscribes(m) ==
  /\ m.cmd = "send"
  /\ topics' = AddOrSubscribe(m.topic, m.from)
  /\ fan' = PidsOf(m.topic)
  /\ load' = [pub |-> m.from, num |-> m.num]
  /\ Go(broker, "fanout")
  /\ UNCHANGED pubs

HandleSend(m) ==
  /\ m.cmd = "send"
  /\ pubs' = AddPid(pubs, m.from)
  /\ fan' = PidsOf(m.topic)
  /\ load' = [pub |-> m.from, num |-> m.num]
  /\ Go(broker, "fanout")
  /\ UNCHANGED topics

BReceive ==
  /\ pc[broker] = "recv"
  /\ Get(broker)
  /\ LET m == Head(mail[broker])
     IN  HandleSubscribe(m) \/ HandleUnsubscribe(m) \/ HandleSend(m)
  /\ UNCHANGED <<setting, flag, kills, lines, idx, userVars, got>>

\* Seeded fault: msgsnd with IPC_NOWAIT.
BFanOutNoWait ==
  /\ pc[broker] = "fanout"
  /\ \/ /\ fan # <<>>
        /\ Put(Head(fan), load) \/ (Full /\ UNCHANGED system)
        /\ fan' = Tail(fan)
        /\ UNCHANGED <<pc, load>>
     \/ /\ fan = <<>>
        /\ load' = NoLoad
        /\ Go(broker, "test")
        /\ UNCHANGED <<system, fan>>
  /\ UNCHANGED <<setting, flag, topics, pubs, kills, lines, idx, userVars, got>>

BFanOut ==
  /\ pc[broker] = "fanout"
  /\ \/ /\ fan # <<>>
        /\ Put(Head(fan), load)
        /\ fan' = Tail(fan)
        /\ UNCHANGED <<pc, load>>
     \/ /\ fan = <<>>
        /\ load' = NoLoad
        /\ Go(broker, "test")
        /\ UNCHANGED <<system, fan>>
  /\ UNCHANGED <<setting, flag, topics, pubs, kills, lines, idx, userVars, got>>

BNextTopic ==
  /\ pc[broker] = "kill" /\ kills = <<>> /\ topics # <<>>
  /\ kills' = Head(topics).pids
  /\ topics' = Tail(topics)
  /\ UNCHANGED <<setting, system, pc, flag, pubs, fan, load, lines, idx, userVars, got>>

BRemoveQueue ==
  /\ pc[broker] = "kill" /\ kills = <<>> /\ topics = <<>>
  /\ queue' = "gone" /\ mail' = [r \in Receivers |-> <<>>] /\ qnum' = 0
  /\ Go(broker, "exited")
  /\ UNCHANGED <<setting, flag, brokerVars, lines, idx, userVars, got>>

-----------------------------------------------------------------------------
(* A publisher.                                                            *)

\* Without a queue msgget fails, and so will the first msgsnd.
PStart(p) ==
  /\ pc[p] = "start"
  /\ Go(p, IF queue = "up" THEN "test" ELSE "exited")
  /\ UNCHANGED <<setting, system, flag, brokerVars, lines, idx, userVars, got>>

PTest(p) ==
  /\ pc[p] = "test"
  /\ Go(p, IF flag[p] THEN "exited" ELSE "fgets")
  /\ UNCHANGED <<setting, system, flag, brokerVars, lines, idx, userVars, got>>

Typed == MapThenSumSet(LAMBDA p : lines[p], Publishers)

\* The user types a line, an empty line, or ends the input.
PInput(p) ==
  /\ pc[p] = "fgets"
  /\ \/ /\ Typed < MaxLines
        /\ lines' = [lines EXCEPT ![p] = @ + 1]
        /\ Go(p, "send")
     \/ /\ \E place \in {"test", "exited"} : Go(p, place)
        /\ UNCHANGED lines
  /\ UNCHANGED <<setting, system, flag, brokerVars, idx, userVars, got>>

PSend(p) ==
  /\ pc[p] = "send"
  /\ \/ /\ Put(broker, [cmd |-> "send", from |-> p, topic |-> PubTopic[p], num |-> lines[p]])
        /\ Go(p, "test")
     \/ /\ queue = "gone"
        /\ Go(p, "exited")
        /\ UNCHANGED system
  /\ UNCHANGED <<setting, flag, brokerVars, lines, idx, userVars, got>>

-----------------------------------------------------------------------------
(* A subscriber.                                                           *)

Args(s) == Len(subTopics[s])

SStart(s) ==
  /\ pc[s] = "start"
  /\ Go(s, IF queue # "up" THEN "exited" ELSE IF Args(s) = 0 THEN "test" ELSE "subscribe")
  /\ UNCHANGED <<setting, system, flag, brokerVars, lines, idx, userVars, got>>

\* One turn of a loop over argv: send the request, or return -1.
Request(s, cmd, after) ==
  /\ \/ /\ Put(broker, [cmd |-> cmd, from |-> s, topic |-> subTopics[s][idx[s]], num |-> 0])
        /\ idx' = [idx EXCEPT ![s] = IF @ = Args(s) THEN 1 ELSE @ + 1]
        /\ IF idx[s] = Args(s) THEN Go(s, after) ELSE UNCHANGED pc
     \/ /\ queue = "gone"
        /\ Go(s, "exited")
        /\ UNCHANGED <<system, idx>>
  /\ UNCHANGED <<setting, flag, brokerVars, lines, userVars, got>>

SSubscribe(s) == pc[s] = "subscribe" /\ Request(s, "subscribe", "test")
\* (Seeded fault of SUnsubscribe: the loop is left out.)
SUnsubscribeNot(s) ==
  /\ pc[s] = "unsubscribe"
  /\ Go(s, "exited")
  /\ UNCHANGED <<setting, system, flag, brokerVars, lines, idx, userVars, got>>
SUnsubscribe(s) == pc[s] = "unsubscribe" /\ Request(s, "unsubscribe", "exited")

\* Where the receive loop leads to when it is left.
AfterLoop(s) == IF Args(s) = 0 THEN "exited" ELSE "unsubscribe"

STest(s) ==
  /\ pc[s] = "test"
  /\ Go(s, IF flag[s] THEN AfterLoop(s) ELSE "recv")
  /\ UNCHANGED <<setting, system, flag, brokerVars, lines, idx, userVars, got>>

\* Seeded fault: EIDRM is not told from a message.
SReceiveRetries(s) ==
  /\ pc[s] = "recv"
  /\ \/ /\ Get(s)
        /\ got' = [got EXCEPT ![s] = Append(@, Head(mail[s]))]
        /\ Go(s, "test")
     \/ /\ queue = "gone"
        /\ Go(s, "test")
        /\ UNCHANGED <<system, got>>
  /\ UNCHANGED <<setting, flag, brokerVars, lines, idx, userVars>>

\* Seeded fault: the subscriber asks for type 1, the broker's messages.
SReceiveBrokers(s) ==
  /\ pc[s] = "recv"
  /\ \/ /\ Get(broker)
        /\ Go(s, "test")
     \/ /\ queue = "gone"
        /\ Go(s, AfterLoop(s))
        /\ UNCHANGED system
  /\ UNCHANGED <<setting, flag, brokerVars, lines, idx, userVars, got>>

SReceive(s) ==
  /\ pc[s] = "recv"
  /\ \/ /\ Get(s)
        /\ got' = [got EXCEPT ![s] = Append(@, Head(mail[s]))]
        /\ Go(s, "test")
     \/ /\ queue = "gone"
        /\ Go(s, AfterLoop(s))
        /\ UNCHANGED <<system, got>>
  /\ UNCHANGED <<setting, flag, brokerVars, lines, idx, userVars>>

-----------------------------------------------------------------------------
(* Signals.  Interrupted(x): where x is after a SIGINT that finds it inside *)
(* a blocking call (msgsnd blocks only on a full queue).                   *)

Interrupted(x) ==
  CASE pc[x] = "recv" /\ x = broker -> "kill"
    [] pc[x] = "recv" /\ x # broker -> AfterLoop(x)
    [] pc[x] = "fgets" -> "exited"
    [] pc[x] \in {"send", "subscribe", "unsubscribe"} /\ Full -> "exited"
    [] OTHER -> pc[x]

\* SIGINT reaches x before its call blocks, or while it blocks.  The broker's
\* msgsnd that fails with EINTR loses one subscriber's copy.
Signal(x) ==
  /\ flag' = [flag EXCEPT ![x] = TRUE]
  /\ \/ UNCHANGED <<pc, fan, topics, pubs, kills>>
     \/ /\ Interrupted(x) # pc[x]
        /\ Go(x, Interrupted(x))
        /\ UNCHANGED fan
        /\ IF x = broker THEN StartShutdown ELSE UNCHANGED <<topics, pubs, kills>>
     \/ /\ x = broker /\ pc[x] = "fanout" /\ Full /\ fan # <<>>
        /\ fan' = Tail(fan)
        /\ UNCHANGED <<pc, topics, pubs, kills>>

Over == {"start", "exited", "crashed"}

Presses == MapThenSumSet(LAMBDA x : presses[x], DOMAIN presses)

PressCtrlC(x) ==
  /\ pc[x] \notin Over /\ Presses < MaxPresses
  /\ presses' = [presses EXCEPT ![x] = @ + 1]
  /\ Signal(x)
  /\ UNCHANGED <<setting, system, load, lines, idx, refused, got>>

\* kill(pid, SIGINT): nothing happens to a process that is no more.
BKill ==
  /\ pc[broker] = "kill" /\ kills # <<>>
  /\ LET x == Head(kills)
     IN  \/ /\ pc[x] \in Over
            /\ kills' = Tail(kills)
            /\ UNCHANGED <<flag, pc>>
         \/ /\ pc[x] \notin Over
            /\ flag' = [flag EXCEPT ![x] = TRUE]
            /\ \/ UNCHANGED pc
               \/ Go(x, Interrupted(x))
            /\ kills' = Tail(kills)
  /\ UNCHANGED <<setting, system, topics, pubs, fan, load, lines, idx, userVars, got>>

-----------------------------------------------------------------------------
BrokerStep == BTest \/ BReceive \/ BFanOut \/ BKill \/ BNextTopic \/ BRemoveQueue
PublisherStep(p) == PTest(p) \/ PSend(p)
SubscriberStep(s) == SSubscribe(s) \/ STest(s) \/ SReceive(s) \/ SUnsubscribe(s)

Next ==
  \/ BStart \/ BrokerStep \/ AnotherBroker
  \/ \E p \in Publishers : PStart(p) \/ PInput(p) \/ PublisherStep(p)
  \/ \E s \in Subscribers : SStart(s) \/ SubscriberStep(s)
  \/ \E x \in {broker} \cup Clients : PressCtrlC(x)

Spec == Init /\ [][Next]_vars

\* A started process is scheduled.  Starting one, typing a line, ending the
\* input and pressing Ctrl-C are up to the user.
Fairness ==
  /\ WF_vars(BrokerStep)
  /\ \A p \in Publishers : WF_vars(PublisherStep(p))
  /\ \A s \in Subscribers : WF_vars(SubscriberStep(s))

FairSpec == Spec /\ Fairness

-----------------------------------------------------------------------------
(* Properties.                                                             *)

Payloads == [pub : Publishers, num : Nat \ {0}]
Requests ==
  [cmd : {"subscribe", "unsubscribe"}, from : Subscribers, topic : Topics, num : {0}]
  \cup [cmd : {"send"}, from : Publishers, topic : Topics, num : Nat \ {0}]
Places == {"start", "test", "recv", "fanout", "kill", "fgets", "send", "subscribe",
           "unsubscribe", "exited", "crashed"}

\* The messages in the queue, each by its place among those for its receiver.
Waiting == UNION {{r} \X DOMAIN mail[r] : r \in Receivers}

\* Every variable keeps its type; the queue's counter counts its messages and
\* never exceeds its capacity.
TypeOK ==
  /\ queue \in {"none", "up", "gone"}
  /\ DOMAIN mail = Receivers /\ mail[broker] \in Seq(Requests)
  /\ \A s \in Subscribers : mail[s] \in Seq(Payloads)
  /\ got \in [Subscribers -> Seq(Payloads)]
  /\ qnum = Cardinality(Waiting) /\ qnum \in 0 .. limit
  /\ pc \in [{broker} \cup Clients -> Places]
  /\ flag \in [{broker} \cup Clients -> BOOLEAN]
  /\ topics \in Seq([name : Topics, pids : Seq(Subscribers)])
  /\ pubs \in Seq(Publishers) /\ fan \in Seq(Subscribers) /\ kills \in Seq(Clients)
  /\ load \in Payloads \cup {NoLoad}
  /\ lines \in [Publishers -> Nat] /\ idx \in [Subscribers -> Nat]
  /\ \A s \in Subscribers : idx[s] \in 1 .. Args(s) + 1
  /\ subTopics \in CommandLines /\ limit \in Limits
  /\ presses \in [{broker} \cup Clients -> Nat] /\ refused \in 0 .. MaxRivals

\* What was sent to a subscriber, printed or still in the queue.
Stream(s) == got[s] \o mail[s]

\* A subscriber gets payloads of its own topics only, each at most once, and those
\* of one publisher in the order they were typed, whatever is subscribed twice,
\* interrupted or lost (add_pid, send_to_subscribers, one shared queue).
OrderedOnce ==
  \A s \in Subscribers :
    /\ \A i \in DOMAIN Stream(s) : Contains(subTopics[s], PubTopic[Stream(s)[i].pub])
    /\ \A i, j \in DOMAIN Stream(s) :
         i < j /\ Stream(s)[i].pub = Stream(s)[j].pub => Stream(s)[i].num < Stream(s)[j].num

\* Between the first and the last payload a subscriber gets of a publisher none is
\* missing, unless the broker itself was interrupted: its blocked msgsnd then
\* fails and it goes on with the next subscriber (main.c:198-203).
Gapless ==
  presses[broker] = 0 =>
    \A s \in Subscribers : \A i, j \in DOMAIN Stream(s) :
      /\ i < j /\ Stream(s)[i].pub = Stream(s)[j].pub
      /\ Stream(s)[j].num > Stream(s)[i].num + 1
      => \E k \in i .. j : /\ Stream(s)[k].pub = Stream(s)[i].pub
                           /\ Stream(s)[k].num = Stream(s)[i].num + 1

\* A subscriber gets what was published on its topics in order, once and without a gap,
\* unless the broker was interrupted.
StreamsIntact == OrderedOnce /\ Gapless

Repeats(s) == \E i, j \in 1 .. Args(s) : i # j /\ subTopics[s][i] = subTopics[s][j]

\* del_pid never meets an empty list (main.c:83-84), and so the broker never
\* crashes, unless some subscriber was started with the same topic twice.
CrashNeedsRepeat == pc[broker] = "crashed" => \E s \in Subscribers : Repeats(s)

\* Once the queue is removed every subscriber ends, even one whose SIGINT came
\* between the test of its flag and msgrcv (main.c:464-476).
SubscribersEnd ==
  \A s \in Subscribers : (queue = "gone" /\ pc[s] # "start") ~> pc[s] = "exited"

Listed(s) == \E i \in DOMAIN topics : Contains(topics[i].pids, s)

\* The queue has room for all requests and payloads there can be.
Roomy ==
  limit >= MaxLines * (1 + Cardinality(Subscribers))
           + 2 * MapThenSumSet(LAMBDA s : Args(s), Subscribers)

\* With a queue that is never full the broker forgets each subscriber that ended,
\* as long as it keeps running.
Forgotten ==
  Roomy => \A s \in Subscribers :
    pc[s] = "exited" ~> ~Listed(s) \/ pc[broker] \in {"kill", "exited", "crashed"}

\* If the broker blocks because the queue is full, it comes free again, or else
\* every message in the queue is its own or for a subscriber that has stopped
\* receiving: then nobody will ever make room (main.c:198 in the process that is
\* the only reader of type 1).
BlockedByUnread ==
  (pc[broker] = "fanout" /\ Full) ~>
    \/ ~Full \/ pc[broker] # "fanout"
    \/ \A s \in Subscribers : mail[s] # <<>> => pc[s] \notin {"test", "recv"}

\* "Брокер уже запущен, выход" (main.c:292): a broker that refuses to start
\* does so because another one is running.
RefusedMeansRunning ==
  [][refused' > refused => pc[broker] \notin Over]_vars

=============================================================================
