---------------------------- MODULE BrokerProofs ----------------------------
(***************************************************************************)
(* Three results about Broker, for any sets of publishers, subscribers and  *)
(* topics, any command lines, any capacity of the queue, any number of      *)
(* lines, Ctrl-C and other brokers.                                         *)
(*                                                                         *)
(*   1. del_pid meets an empty list only because somebody named a topic     *)
(*      twice: what is unsubscribed was subscribed before, and is           *)
(*      unsubscribed once, in the order of the receiver's messages in the   *)
(*      queue.                                                              *)
(*   2. Every variable keeps its type; the count of the queue, the lists of *)
(*      pids and the cursors of the broker's loops stay inside their bounds.*)
(*   3. A subscriber sees each topic's lines in the order of the publisher  *)
(*      and without a gap: what is on its way to it in the queue, and what  *)
(*      the broker still has to send, continues what it has received.       *)
(***************************************************************************)
EXTENDS Broker, TLAPS, SequenceTheorems, FiniteSetTheorems, WellFoundedInduction

Sub(s, t) == [cmd |-> "subscribe", from |-> s, topic |-> t, num |-> 0]
Unsub(s, t) == [cmd |-> "unsubscribe", from |-> s, topic |-> t, num |-> 0]
Letters ==
  [cmd : {"subscribe", "unsubscribe"}, from : Subscribers, topic : Topics, num : {0}]
  \cup [cmd : {"send"}, from : Publishers, topic : Topics, num : Nat]
Nodes == [name : Topics, pids : Seq(Subscribers)]

\* The places from which the broker may still read a request.
Serving == {"start", "test", "recv", "fanout"}

\* The part of TypeOK that the subscriptions depend on; a topic has one node.
PartType ==
  /\ subTopics \in [Subscribers -> Seq(Topics)]
  /\ DOMAIN mail = Receivers /\ mail[broker] \in Seq(Letters)
  /\ pc \in [{broker} \cup Clients -> Places]
  /\ topics \in Seq(Nodes) /\ fan \in Seq(Subscribers)
  /\ \A i, j \in 1 .. Len(topics) : topics[i].name = topics[j].name => i = j
  /\ lines \in [Publishers -> Nat]
  /\ idx \in [Subscribers -> Nat]

\* The loops over argv begin at the first topic and stay inside argv.
Loop(s) ==
  /\ pc[s] \in {"start", "test", "recv"} => idx[s] = 1
  /\ pc[s] \in {"subscribe", "unsubscribe"} => idx[s] \in 1 .. Args(s)

Known(s, t) == \E i \in 1 .. Len(topics) : topics[i].name = t /\ Contains(topics[i].pids, s)

\* s has sent its request for its k-th topic, and not yet the one that takes it back.
Sent(s, k) ==
  \/ pc[s] = "subscribe" /\ k < idx[s]
  \/ pc[s] \in {"test", "recv"}
  \/ pc[s] = "unsubscribe" /\ k >= idx[s]

\* s will not send anything more about its k-th topic.
Left(s, k) == pc[s] = "exited" \/ (pc[s] = "unsubscribe" /\ k < idx[s])

\* What has been sent is known or under way; what takes it back comes later, and once.
Pair(s, k) ==
  LET t == subTopics[s][k]
      box == mail[broker]
  IN  /\ Sent(s, k) => Known(s, t) \/ \E i \in 1 .. Len(box) : box[i] = Sub(s, t)
      /\ \A j \in 1 .. Len(box) : box[j] = Unsub(s, t) =>
           /\ Left(s, k)
           /\ \A i \in 1 .. Len(box) : i < j => box[i] # Unsub(s, t)
           /\ Known(s, t) \/ \E i \in 1 .. Len(box) : i < j /\ box[i] = Sub(s, t)

\* Only what was on the command line is taken back.
Origin ==
  \A j \in 1 .. Len(mail[broker]) :
    mail[broker][j].cmd = "unsubscribe" =>
      \E k \in 1 .. Args(mail[broker][j].from) :
        mail[broker][j].topic = subTopics[mail[broker][j].from][k]

NoRepeats == \A s \in Subscribers : ~Repeats(s)

Subscriptions ==
  NoRepeats =>
    /\ pc[broker] # "crashed"
    /\ pc[broker] \in Serving => /\ Origin
                                 /\ \A s \in Subscribers : \A k \in 1 .. Args(s) : Pair(s, k)

SInv == PartType /\ (\A s \in Subscribers : Loop(s)) /\ Subscriptions

-----------------------------------------------------------------------------
(* The broker's lists.                                                     *)

LEMMA MinIsLeast ==
  ASSUME NEW T, T \subseteq Nat, T # {}
  PROVE  Min(T) \in T /\ \A y \in T : Min(T) <= y
<1> DEFINE Less == OpToRel(<, Nat)
<1>a. IsWellFoundedOn(Less, Nat)
  BY NatLessThanWellFounded
<1>b. \A x, y \in Nat : y < x => <<y, x>> \in Less
  BY DEF OpToRel
<1> HIDE DEF Less
<1>1. PICK x \in T : \A y \in T : ~(<<y, x>> \in Less)
  BY <1>a, WFMin
<1>2. \A y \in T : x <= y
  <2> TAKE y \in T
  <2>1. x \in Nat /\ y \in Nat /\ ~(y < x)
    BY <1>1, <1>b
  <2>2. QED
    BY <2>1
<1>3. QED
  BY <1>2 DEF Min

\* An element that is removed leaves the others where they are.
LEMMA RemoveOne ==
  ASSUME NEW S, NEW pids \in Seq(S), NEW x \in 1 .. Len(pids)
  PROVE  /\ RemoveAt(pids, x) \in Seq(S)
         /\ \A j \in 1 .. Len(pids) : j # x => Contains(RemoveAt(pids, x), pids[j])
<1> DEFINE before == SubSeq(pids, 1, x - 1)
           after == SubSeq(pids, x + 1, Len(pids))
<1>1. Len(pids) \in Nat /\ \A i \in 1 .. Len(pids) : pids[i] \in S
  BY ElementOfSeq, LenProperties
<1>2. /\ before \in Seq(S) /\ Len(before) = x - 1
      /\ \A i \in 1 .. x - 1 : before[i] = pids[i]
  <2>1. \A i \in 1 .. x - 1 : pids[i] \in S
    BY <1>1
  <2>2. /\ before \in Seq(S) /\ Len(before) = IF 1 <= x - 1 THEN (x - 1) - 1 + 1 ELSE 0
        /\ \A i \in 1 .. (x - 1) - 1 + 1 : before[i] = pids[1 + i - 1]
    BY <1>1, <2>1, SubSeqProperties
  <2>3. QED
    BY <1>1, <2>2
<1>3. /\ after \in Seq(S) /\ Len(after) = Len(pids) - x
      /\ \A i \in 1 .. Len(pids) - x : after[i] = pids[x + i]
  <2>1. \A i \in x + 1 .. Len(pids) : pids[i] \in S
    BY <1>1
  <2>2. /\ after \in Seq(S)
        /\ Len(after) = IF x + 1 <= Len(pids) THEN Len(pids) - (x + 1) + 1 ELSE 0
        /\ \A i \in 1 .. Len(pids) - (x + 1) + 1 : after[i] = pids[x + 1 + i - 1]
    BY <1>1, <2>1, SubSeqProperties
  <2>3. QED
    BY <1>1, <2>2
<1>4. RemoveAt(pids, x) = before \o after
  BY DEF RemoveAt
<1> HIDE DEF before, after
<1>5. /\ before \o after \in Seq(S)
      /\ Len(before \o after) = Len(before) + Len(after)
      /\ \A i \in 1 .. Len(before) + Len(after) :
           (before \o after)[i] = IF i <= Len(before) THEN before[i] ELSE after[i - Len(before)]
  BY <1>2, <1>3, ConcatProperties
<1>6. ASSUME NEW j \in 1 .. Len(pids), j # x PROVE Contains(before \o after, pids[j])
  <2>1. CASE j < x
    <3>1. j \in 1 .. Len(before \o after) /\ (before \o after)[j] = pids[j]
      BY <1>1, <1>2, <1>3, <1>5, <2>1
    <3>2. QED
      BY <3>1 DEF Contains
  <2>2. CASE j > x
    <3>1. j - x \in 1 .. Len(pids) - x /\ x + (j - x) = j /\ (j - 1) - (x - 1) = j - x
      BY <1>1, <2>2
    <3>2. after[j - x] = pids[j]
      BY <1>3, <3>1
    <3>3. j - 1 \in 1 .. Len(before) + Len(after) /\ ~(j - 1 <= Len(before))
      BY <1>1, <1>2, <1>3, <2>2
    <3>4. (before \o after)[j - 1] = pids[j]
      BY <1>2, <1>5, <3>1, <3>2, <3>3
    <3>5. QED
      BY <1>5, <3>3, <3>4 DEF Contains
  <2>3. QED
    BY <1>1, <1>6, <2>1, <2>2
<1>7. QED
  BY <1>4, <1>5, <1>6

\* add_pid adds, and takes nobody away.
LEMMA AddPidAdds ==
  ASSUME NEW S, NEW pids \in Seq(S), NEW pid \in S
  PROVE  /\ AddPid(pids, pid) \in Seq(S) /\ Contains(AddPid(pids, pid), pid)
         /\ \A x : Contains(pids, x) => Contains(AddPid(pids, pid), x)
<1>1. CASE Contains(pids, pid)
  BY <1>1 DEF AddPid
<1>2. CASE ~Contains(pids, pid)
  <2>1. <<pid>> \in Seq(S) /\ Len(<<pid>>) = 1 /\ <<pid>>[1] = pid
    OBVIOUS
  <2>2. Len(pids) \in Nat
    BY LenProperties
  <2>3. /\ <<pid>> \o pids \in Seq(S) /\ Len(<<pid>> \o pids) = 1 + Len(pids)
        /\ \A i \in 1 .. 1 + Len(pids) :
             (<<pid>> \o pids)[i] = IF i <= 1 THEN <<pid>>[i] ELSE pids[i - 1]
    BY <2>1, ConcatProperties
  <2>4. 1 \in 1 .. Len(<<pid>> \o pids) /\ (<<pid>> \o pids)[1] = pid
    BY <2>1, <2>2, <2>3
  <2>5. ASSUME NEW i \in 1 .. Len(pids)
        PROVE  i + 1 \in 1 .. Len(<<pid>> \o pids) /\ (<<pid>> \o pids)[i + 1] = pids[i]
    BY <2>2, <2>3
  <2>6. QED
    BY <1>2, <2>3, <2>4, <2>5 DEF AddPid, Contains
<1>3. QED
  BY <1>1, <1>2

\* del_pid takes away nobody but the one it is asked for.
LEMMA DelPidKeeps ==
  ASSUME NEW S, NEW pids \in Seq(S), NEW pid
  PROVE  /\ DelPid(pids, pid) \in Seq(S)
         /\ \A x : x # pid /\ Contains(pids, x) => Contains(DelPid(pids, pid), x)
<1>1. CASE ~Contains(pids, pid)
  BY <1>1 DEF DelPid, RemoveFirst, Contains
<1>2. CASE Contains(pids, pid)
  <2>1. PICK T : T = {i \in 1 .. Len(pids) : pids[i] = pid}
    OBVIOUS
  <2>2. Len(pids) \in Nat
    BY LenProperties
  <2>3. Min(T) \in T
    <3>1. T \subseteq Nat
      BY <2>1, <2>2
    <3>2. T # {}
      BY <1>2, <2>1 DEF Contains
    <3>3. QED
      BY <3>1, <3>2, MinIsLeast
  <2>4. DelPid(pids, pid) = RemoveAt(pids, Min(T))
    BY <1>2, <2>1, <2>3 DEF DelPid, RemoveFirst, SelectInSeq, Contains
  <2>6. /\ RemoveAt(pids, Min(T)) \in Seq(S)
        /\ \A j \in 1 .. Len(pids) : j # Min(T) => Contains(RemoveAt(pids, Min(T)), pids[j])
    BY <2>1, <2>3, RemoveOne
  <2>7. \A j \in 1 .. Len(pids) : pids[j] # pid => j # Min(T)
    BY <2>1, <2>3
  <2>5. QED
    BY <2>1, <2>3, <2>4, <2>6, <2>7 DEF Contains
<1>3. QED
  BY <1>1, <1>2

\* The node that is found for a name is the one node with that name.
LEMMA TopicFound ==
  ASSUME PartType, NEW t
  PROVE  \/ TopicIndex(t) = 0 /\ \A i \in 1 .. Len(topics) : topics[i].name # t
         \/ /\ TopicIndex(t) \in 1 .. Len(topics) /\ topics[TopicIndex(t)].name = t
            /\ \A i \in 1 .. Len(topics) : topics[i].name = t => i = TopicIndex(t)
<1> DEFINE I == {i \in 1 .. Len(topics) : topics[i].name = t}
<1>0. TopicIndex(t) = IF I # {} THEN Min(I) ELSE 0
  BY DEF TopicIndex, SelectInSeq
<1>1. CASE I = {}
  BY <1>0, <1>1
<1>2. CASE I # {}
  <2>1. PICK i : I = {i}
    BY <1>2 DEF PartType
  <2>2. Len(topics) \in Nat
    BY LenProperties DEF PartType
  <2>3. i \in 1 .. Len(topics) /\ topics[i].name = t
    BY <2>1
  <2>4. Min(I) = i
    BY <2>1, <2>2, <2>3, MinIsLeast
  <2>5. QED
    BY <1>0, <1>2, <2>1, <2>3, <2>4
<1>3. QED
  BY <1>1, <1>2

LEMMA NodesTyped ==
  ASSUME PartType, NEW i \in 1 .. Len(topics)
  PROVE  topics[i] \in Nodes /\ topics[i].pids \in Seq(Subscribers)
<1>1. topics \in Seq(Nodes)
  BY DEF PartType
<1>2. topics[i] \in Nodes
  BY <1>1, ElementOfSeq
<1>3. QED
  BY <1>2 DEF Nodes

LEMMA NodeReplaced ==
  ASSUME PartType, NEW i \in 1 .. Len(topics), NEW v \in Seq(Subscribers),
         topics' = [topics EXCEPT ![i].pids = v]
  PROVE  /\ topics' \in Seq(Nodes) /\ Len(topics') = Len(topics)
         /\ topics'[i].name = topics[i].name /\ topics'[i].pids = v
         /\ \A j \in 1 .. Len(topics) : j # i => topics'[j] = topics[j]
<1>1. topics \in Seq(Nodes) /\ topics[i] \in Nodes
  BY ElementOfSeq DEF PartType
<1>2. [topics[i] EXCEPT !.pids = v] \in Nodes
  BY <1>1 DEF Nodes
<1>3. topics' = [topics EXCEPT ![i] = [topics[i] EXCEPT !.pids = v]]
  OBVIOUS
<1>4. /\ topics' \in Seq(Nodes) /\ Len(topics') = Len(topics)
      /\ \A j \in 1 .. Len(topics) :
           topics'[j] = IF j = i THEN [topics[i] EXCEPT !.pids = v] ELSE topics[j]
  BY <1>1, <1>2, <1>3, ExceptSeq
<1>5. QED
  BY <1>1, <1>4 DEF Nodes

\* A new topic comes first, a known one gets the pid; nobody is lost.
LEMMA SubscribeAdds ==
  ASSUME PartType, NEW name \in Topics, NEW pid \in Subscribers,
         topics' = AddOrSubscribe(name, pid)
  PROVE  /\ topics' \in Seq(Nodes)
         /\ \A i, j \in 1 .. Len(topics') : topics'[i].name = topics'[j].name => i = j
         /\ Known(pid, name)'
         /\ \A s, t : Known(s, t) => Known(s, t)'
<1>0. topics \in Seq(Nodes) /\ Len(topics) \in Nat /\ \A i \in 1 .. Len(topics) : topics[i] \in Nodes
  BY ElementOfSeq, LenProperties DEF PartType
<1>1. CASE TopicIndex(name) = 0
  <2> DEFINE node == [name |-> name, pids |-> <<pid>>]
  <2>1. node \in Nodes /\ node.name = name /\ node.pids = <<pid>>
    BY DEF Nodes
  <2>2. Contains(<<pid>>, pid)
    BY DEF Contains
  <2>3. topics' = <<node>> \o topics
    BY <1>1 DEF AddOrSubscribe
  <2> HIDE DEF node
  <2>4. <<node>> \in Seq(Nodes) /\ Len(<<node>>) = 1 /\ <<node>>[1] = node
    BY <2>1
  <2>5. /\ topics' \in Seq(Nodes) /\ Len(topics') = 1 + Len(topics)
        /\ \A i \in 1 .. 1 + Len(topics) :
             topics'[i] = IF i <= 1 THEN <<node>>[i] ELSE topics[i - 1]
    BY <1>0, <2>3, <2>4, ConcatProperties
  <2>6. /\ topics'[1] = node /\ 1 \in 1 .. Len(topics')
        /\ \A i \in 1 .. Len(topics) : i + 1 \in 1 .. Len(topics') /\ topics'[i + 1] = topics[i]
        /\ \A i \in 1 .. Len(topics') : i = 1 \/ (i - 1 \in 1 .. Len(topics) /\ topics'[i] = topics[i - 1])
    BY <1>0, <2>4, <2>5
  <2>7. \A i \in 1 .. Len(topics) : topics[i].name # name
    <3>1. 0 \notin 1 .. Len(topics)
      BY <1>0
    <3>2. QED
      BY <1>1, <3>1, TopicFound
  <2>8. \A i, j \in 1 .. Len(topics') : topics'[i].name = topics'[j].name => i = j
    <3> TAKE i, j \in 1 .. Len(topics')
    <3>1. CASE i = 1 /\ j # 1
      <4>1. j - 1 \in 1 .. Len(topics) /\ topics'[j] = topics[j - 1] /\ topics'[i] = node
        BY <2>6, <3>1
      <4>2. QED
        BY <2>1, <2>7, <4>1
    <3>2. CASE j = 1 /\ i # 1
      <4>1. i - 1 \in 1 .. Len(topics) /\ topics'[i] = topics[i - 1] /\ topics'[j] = node
        BY <2>6, <3>2
      <4>2. QED
        BY <2>1, <2>7, <4>1
    <3>3. CASE i # 1 /\ j # 1
      <4>1. /\ i - 1 \in 1 .. Len(topics) /\ topics'[i] = topics[i - 1]
            /\ j - 1 \in 1 .. Len(topics) /\ topics'[j] = topics[j - 1]
        BY <2>6, <3>3
      <4>2. topics[i - 1].name = topics[j - 1].name => i - 1 = j - 1
        BY <4>1 DEF PartType
      <4>3. i \in Nat /\ j \in Nat
        BY <1>0, <2>5
      <4>4. QED
        BY <4>1, <4>2, <4>3
    <3>4. QED
      BY <3>1, <3>2, <3>3
  <2>9. Known(pid, name)'
    BY <2>1, <2>2, <2>6 DEF Known
  <2>10. ASSUME NEW s, NEW t, Known(s, t) PROVE Known(s, t)'
    <3>1. PICK i \in 1 .. Len(topics) : topics[i].name = t /\ Contains(topics[i].pids, s)
      BY <2>10 DEF Known
    <3>2. i + 1 \in 1 .. Len(topics') /\ topics'[i + 1] = topics[i]
      BY <2>6
    <3>3. QED
      BY <3>1, <3>2 DEF Known
  <2>11. QED
    BY <2>5, <2>8, <2>9, <2>10
<1>2. CASE TopicIndex(name) # 0
  <2>1. PICK x : x = TopicIndex(name)
    OBVIOUS
  <2>2. x \in 1 .. Len(topics) /\ topics[x].name = name
    BY <1>2, <2>1, TopicFound
  <2>3. topics[x].pids \in Seq(Subscribers)
    BY <1>0, <2>2 DEF Nodes
  <2>4. PICK v : v = AddPid(topics[x].pids, pid)
    OBVIOUS
  <2>5. /\ v \in Seq(Subscribers) /\ Contains(v, pid)
        /\ \A s : Contains(topics[x].pids, s) => Contains(v, s)
    BY <2>3, <2>4, AddPidAdds
  <2>6. topics' = [topics EXCEPT ![x].pids = v]
    BY <1>2, <2>1, <2>4 DEF AddOrSubscribe
  <2>7. /\ topics' \in Seq(Nodes) /\ Len(topics') = Len(topics)
        /\ topics'[x].name = topics[x].name /\ topics'[x].pids = v
        /\ \A j \in 1 .. Len(topics) : j # x => topics'[j] = topics[j]
    BY <2>2, <2>5, <2>6, NodeReplaced
  <2>8. \A i, j \in 1 .. Len(topics') : topics'[i].name = topics'[j].name => i = j
    BY <2>7 DEF PartType
  <2>9. QED
    BY <2>2, <2>5, <2>7, <2>8 DEF Known
<1>3. QED
  BY <1>1, <1>2

\* Nobody is taken away but pid, and pid from no other topic.
LEMMA UnsubscribeKeeps ==
  ASSUME PartType, NEW name \in Topics, NEW pid \in Subscribers,
         topics' = Unsubscribe(name, pid)
  PROVE  /\ topics' \in Seq(Nodes)
         /\ \A i, j \in 1 .. Len(topics') : topics'[i].name = topics'[j].name => i = j
         /\ \A s, t : Known(s, t) /\ (s # pid \/ t # name) => Known(s, t)'
<1>1. CASE TopicIndex(name) = 0
  BY <1>1 DEF Unsubscribe, PartType, Known
<1>2. CASE TopicIndex(name) # 0
  <2>1. PICK x : x = TopicIndex(name)
    OBVIOUS
  <2>2. x \in 1 .. Len(topics) /\ topics[x].name = name
    BY <1>2, <2>1, TopicFound
  <2>3. topics[x].pids \in Seq(Subscribers)
    BY <2>2, NodesTyped
  <2>4. PICK v : v = DelPid(topics[x].pids, pid)
    OBVIOUS
  <2>5. /\ v \in Seq(Subscribers)
        /\ \A s : s # pid /\ Contains(topics[x].pids, s) => Contains(v, s)
    BY <2>3, <2>4, DelPidKeeps
  <2>6. topics' = [topics EXCEPT ![x].pids = v]
    BY <1>2, <2>1, <2>4 DEF Unsubscribe
  <2>7. /\ topics' \in Seq(Nodes) /\ Len(topics') = Len(topics)
        /\ topics'[x].name = topics[x].name /\ topics'[x].pids = v
        /\ \A j \in 1 .. Len(topics) : j # x => topics'[j] = topics[j]
    BY <2>2, <2>5, <2>6, NodeReplaced
  <2>8. \A i, j \in 1 .. Len(topics') : topics'[i].name = topics'[j].name => i = j
    BY <2>7 DEF PartType
  <2>9. QED
    BY <2>2, <2>5, <2>7, <2>8 DEF Known
<1>3. QED
  BY <1>1, <1>2

\* The list of a topic's pids; it is not empty while it holds one.
LEMMA PidsFound ==
  ASSUME PartType, NEW t
  PROVE  /\ PidsOf(t) \in Seq(Subscribers)
         /\ \A s : Known(s, t) => PidsOf(t) # <<>>
<1>1. CASE TopicIndex(t) = 0
  <2>1. Len(topics) \in Nat /\ 0 \notin 1 .. Len(topics)
    BY LenProperties DEF PartType
  <2>2. \A s : ~Known(s, t)
    BY <1>1, <2>1, TopicFound DEF Known
  <2>3. QED
    BY <1>1, <2>2 DEF PidsOf
<1>2. CASE TopicIndex(t) # 0
  <2>1. /\ TopicIndex(t) \in 1 .. Len(topics)
        /\ \A i \in 1 .. Len(topics) : topics[i].name = t => i = TopicIndex(t)
    BY <1>2, TopicFound
  <2>2. PidsOf(t) = topics[TopicIndex(t)].pids
    BY <1>2 DEF PidsOf
  <2>3. PidsOf(t) \in Seq(Subscribers)
    BY <2>1, <2>2, NodesTyped
  <2>4. \A s : Known(s, t) => Contains(PidsOf(t), s)
    BY <2>1, <2>2 DEF Known
  <2>5. \A s : ~Contains(<<>>, s)
    BY DEF Contains
  <2>6. QED
    BY <2>3, <2>4, <2>5
<1>3. QED
  BY <1>1, <1>2

-----------------------------------------------------------------------------
(* Steps that send and receive nothing of the broker's.                    *)

\* Where a step may take a subscriber that sends no request.
Path(s) ==
  \/ pc'[s] = pc[s] \/ pc'[s] = "exited"
  \/ pc[s] = "start" /\ pc'[s] = "subscribe" /\ Args(s) # 0
  \/ pc[s] = "start" /\ pc'[s] = "test" /\ Args(s) = 0
  \/ pc[s] \in {"test", "recv"} /\ pc'[s] \in {"test", "recv"}
  \/ pc[s] \in {"test", "recv"} /\ pc'[s] = "unsubscribe" /\ Args(s) # 0

Quiet ==
  /\ subTopics' = subTopics /\ idx' = idx
  /\ DOMAIN mail' = Receivers /\ mail'[broker] \in {mail[broker], <<>>}
  /\ topics' = topics \/ (topics # <<>> /\ topics' = Tail(topics))
  /\ fan' \in Seq(Subscribers) /\ lines' \in [Publishers -> Nat]
  /\ pc' \in [{broker} \cup Clients -> Places]
  /\ \A s \in Subscribers : Path(s)
  /\ pc'[broker] \in Serving =>
       pc[broker] \in Serving /\ topics' = topics /\ mail'[broker] = mail[broker]
  /\ pc'[broker] = "crashed" => pc[broker] = "crashed"

LEMMA ArgsNat ==
  ASSUME PartType, NEW s \in Subscribers
  PROVE  Args(s) \in Nat /\ \A k \in 1 .. Args(s) : subTopics[s][k] \in Topics
<1>1. subTopics[s] \in Seq(Topics)
  BY DEF PartType
<1>2. QED
  BY <1>1, ElementOfSeq, LenProperties DEF Args

LEMMA TopicsTail ==
  ASSUME PartType, topics # <<>>, topics' = Tail(topics)
  PROVE  /\ topics' \in Seq(Nodes)
         /\ \A i, j \in 1 .. Len(topics') : topics'[i].name = topics'[j].name => i = j
<1>1. topics \in Seq(Nodes)
  BY DEF PartType
<1>2. PICK n \in Nat : n = Len(topics)
  BY <1>1, LenProperties
<1>3. /\ topics' \in Seq(Nodes) /\ Len(topics') = n - 1
      /\ \A i \in 1 .. n - 1 : topics'[i] = topics[i + 1]
  BY <1>1, <1>2, HeadTailProperties
<1>4. ASSUME NEW i \in 1 .. n - 1, NEW j \in 1 .. n - 1, topics'[i].name = topics'[j].name PROVE i = j
  <2>1. i + 1 \in 1 .. Len(topics) /\ j + 1 \in 1 .. Len(topics)
    BY <1>2
  <2>2. i + 1 = j + 1
    BY <1>3, <1>4, <2>1 DEF PartType
  <2>3. QED
    BY <2>2
<1>5. QED
  BY <1>3, <1>4

LEMMA QuietKeeps ==
  ASSUME SInv, Quiet
  PROVE  SInv'
<1>0. PartType
  BY DEF SInv
<1>1. PartType'
  <2>1. /\ topics' \in Seq(Nodes)
        /\ \A i, j \in 1 .. Len(topics') : topics'[i].name = topics'[j].name => i = j
    BY <1>0, TopicsTail DEF PartType, Quiet
  <2>2. mail'[broker] \in Seq(Letters)
    <3>1. mail[broker] \in Seq(Letters) /\ <<>> \in Seq(Letters)
      BY <1>0 DEF PartType
    <3>2. QED
      BY <3>1 DEF Quiet
  <2>3. QED
    BY <1>0, <2>1, <2>2 DEF Quiet, PartType
<1>2. ASSUME NEW s \in Subscribers PROVE Loop(s)'
  <2>1. Loop(s) /\ Path(s) /\ Args(s)' = Args(s) /\ Args(s) \in Nat
    BY <1>0, ArgsNat DEF SInv, Quiet, Args
  <2>2. idx'[s] = idx[s]
    BY DEF Quiet
  <2>3. QED
    BY <2>1, <2>2 DEF Loop, Path
<1>3. Subscriptions'
  <2>1. SUFFICES ASSUME NoRepeats'
                 PROVE  /\ pc'[broker] # "crashed"
                        /\ pc'[broker] \in Serving =>
                             Origin' /\ \A s \in Subscribers : \A k \in 1 .. Args(s)' : Pair(s, k)'
    BY DEF Subscriptions
  <2>2. NoRepeats
    BY <2>1 DEF NoRepeats, Repeats, Args, Quiet
  <2>3. pc'[broker] # "crashed"
    BY <2>2 DEF SInv, Subscriptions, Quiet
  <2>4. ASSUME pc'[broker] \in Serving
        PROVE  Origin' /\ \A s \in Subscribers : \A k \in 1 .. Args(s)' : Pair(s, k)'
    <3>1. /\ Origin /\ \A s \in Subscribers : \A k \in 1 .. Args(s) : Pair(s, k)
          /\ topics' = topics /\ mail'[broker] = mail[broker] /\ subTopics' = subTopics
          /\ idx' = idx
      BY <2>2, <2>4 DEF SInv, Subscriptions, Quiet
    <3>2. Origin'
      BY <3>1 DEF Origin, Args
    <3>3. ASSUME NEW s \in Subscribers, NEW k \in 1 .. Args(s)' PROVE Pair(s, k)'
      <4>1. k \in 1 .. Args(s) /\ Pair(s, k) /\ Path(s) /\ Loop(s) /\ Args(s) \in Nat
        BY <1>0, <3>1, <3>3, ArgsNat DEF SInv, Quiet, Args
      <4>2. Sent(s, k)' => Sent(s, k)
        BY <3>1, <4>1 DEF Sent, Path, Loop
      <4>3. Left(s, k) => Left(s, k)'
        BY <3>1, <4>1 DEF Left, Path
      <4>4. QED
        BY <3>1, <4>1, <4>2, <4>3 DEF Pair, Known
    <3>4. QED
      BY <3>2, <3>3
  <2>5. QED
    BY <2>3, <2>4
<1>4. QED
  BY <1>1, <1>2, <1>3 DEF SInv

LEMMA InterruptedPath ==
  ASSUME NEW x
  PROVE  \/ Interrupted(x) \in {pc[x], "exited"}
         \/ pc[x] = "recv" /\ x = broker /\ Interrupted(x) = "kill"
         \/ pc[x] = "recv" /\ x # broker /\ Interrupted(x) = AfterLoop(x)
<1>1. CASE pc[x] = "recv" /\ x = broker
  <2>1. Interrupted(x) = "kill"
    BY <1>1 DEF Interrupted
  <2>2. QED
    BY <1>1, <2>1
<1>2. CASE pc[x] = "recv" /\ x # broker
  <2>1. Interrupted(x) = AfterLoop(x)
    BY <1>2 DEF Interrupted
  <2>2. QED
    BY <1>2, <2>1
<1>3. CASE pc[x] = "fgets"
  <2>1. Interrupted(x) = "exited"
    BY <1>3 DEF Interrupted
  <2>2. QED
    BY <2>1
<1>4. CASE pc[x] \in {"send", "subscribe", "unsubscribe"} /\ Full
  <2>1. Interrupted(x) = "exited"
    BY <1>4 DEF Interrupted
  <2>2. QED
    BY <2>1
<1>5. CASE /\ pc[x] # "recv" /\ pc[x] # "fgets"
           /\ ~(pc[x] \in {"send", "subscribe", "unsubscribe"} /\ Full)
  <2>1. Interrupted(x) = pc[x]
    BY <1>5 DEF Interrupted
  <2>2. QED
    BY <2>1
<1>6. QED
  BY <1>1, <1>2, <1>3, <1>4, <1>5

\* One process goes to another place; the rest of what subscriptions depend on stays,
\* but for what the broker gives up.
LEMMA OneGoes ==
  ASSUME PartType, NEW x \in {broker} \cup Clients, NEW place \in Places, Go(x, place),
         subTopics' = subTopics, idx' = idx, mail' = mail, fan' \in Seq(Subscribers),
         lines' \in [Publishers -> Nat],
         topics' = topics,
         x \in Subscribers =>
           \/ place \in {pc[x], "exited"}
           \/ pc[x] = "start" /\ place = "subscribe" /\ Args(x) # 0
           \/ pc[x] = "start" /\ place = "test" /\ Args(x) = 0
           \/ pc[x] \in {"test", "recv"} /\ place \in {"test", "recv"}
           \/ pc[x] \in {"test", "recv"} /\ place = "unsubscribe" /\ Args(x) # 0,
         x = broker => /\ place \in Serving => pc[broker] \in Serving
                       /\ place = "crashed" => pc[broker] = "crashed"
  PROVE  Quiet
<1>1. /\ pc' \in [{broker} \cup Clients -> Places] /\ pc'[x] = place
      /\ \A y \in {broker} \cup Clients : y # x => pc'[y] = pc[y]
  BY DEF PartType, Go
<1>2. \A s \in Subscribers : Path(s)
  BY <1>1 DEF Path, Clients
<1>3. /\ pc'[broker] \in Serving =>
           pc[broker] \in Serving /\ topics' = topics /\ mail'[broker] = mail[broker]
      /\ pc'[broker] = "crashed" => pc[broker] = "crashed"
  BY <1>1
<1>4. QED
  BY <1>1, <1>2, <1>3 DEF Quiet, PartType

LEMMA NobodyGoes ==
  ASSUME PartType, subTopics' = subTopics, idx' = idx, mail'[broker] = mail[broker],
         DOMAIN mail' = Receivers, fan' \in Seq(Subscribers), lines' = lines, topics' = topics,
         pc' = pc
  PROVE  Quiet
BY DEF Quiet, PartType, Path

LEMMA TailTyped ==
  ASSUME NEW S, NEW q \in Seq(S), q # <<>>
  PROVE  Tail(q) \in Seq(S) /\ Head(q) \in S
BY HeadTailProperties

LEMMA SignalQuiet ==
  ASSUME SInv, NEW x \in {broker} \cup Clients, Signal(x) \/ BKill,
         UNCHANGED <<setting, system, lines, idx>>
  PROVE  Quiet
<1>0. /\ PartType /\ fan \in Seq(Subscribers) /\ lines \in [Publishers -> Nat]
      /\ subTopics' = subTopics /\ idx' = idx /\ mail' = mail /\ lines' = lines
      /\ DOMAIN mail = Receivers
  BY DEF SInv, PartType, setting, system
<1>1. ASSUME NEW y \in {broker} \cup Clients, Go(y, Interrupted(y)), fan' = fan,
             topics' = topics, y # broker \/ Interrupted(y) # pc[y]
      PROVE  Quiet
  <2>1. AfterLoop(y) \in {"exited", "unsubscribe"} /\ (AfterLoop(y) = "unsubscribe" => Args(y) # 0)
    BY DEF AfterLoop
  <2>2. pc[y] \in Places
    BY <1>0 DEF PartType
  <2>3. Interrupted(y) \in Places
    BY <2>1, <2>2, InterruptedPath DEF Places
  <2>4. PICK place \in Places : place = Interrupted(y)
    BY <2>3
  <2>5. broker \notin Subscribers
    BY BrokerAssumption
  <2>6. y \in Subscribers => \/ place \in {pc[y], "exited"}
                             \/ pc[y] = "recv" /\ place = "unsubscribe" /\ Args(y) # 0
    BY <2>1, <2>4, <2>5, InterruptedPath
  <2>7. y = broker => place \in {"exited", "kill"}
    BY <1>1, <2>4, InterruptedPath
  <2>8. y = broker => place \notin Serving /\ place # "crashed"
    BY <2>7 DEF Serving
  <2>9. Go(y, place)
    BY <1>1, <2>4
  <2>10. QED
    BY <1>0, <1>1, <2>6, <2>8, <2>9, OneGoes
<1>2. ASSUME pc' = pc, topics' = topics, fan' \in Seq(Subscribers) PROVE Quiet
  BY <1>0, <1>2, NobodyGoes
<1>3. CASE Signal(x)
  <2>1. CASE UNCHANGED <<pc, fan, topics, pubs, kills>>
    BY <1>0, <1>2, <2>1
  <2>2. CASE /\ Interrupted(x) # pc[x] /\ Go(x, Interrupted(x)) /\ UNCHANGED fan
             /\ IF x = broker THEN StartShutdown ELSE UNCHANGED <<topics, pubs, kills>>
    <3>1. CASE x = broker
      BY <1>1, <2>2, <3>1 DEF StartShutdown
    <3>2. CASE x # broker
      BY <1>1, <2>2, <3>2
    <3>3. QED
      BY <3>1, <3>2
  <2>3. CASE fan # <<>> /\ fan' = Tail(fan) /\ UNCHANGED <<pc, topics, pubs, kills>>
    BY <1>0, <1>2, <2>3, TailTyped
  <2>4. QED
    BY <1>3, <2>1, <2>2, <2>3 DEF Signal
<1>4. CASE BKill
  <2>1. PICK y : /\ y = Head(kills) /\ pc[broker] = "kill"
                 /\ topics' = topics /\ fan' = fan /\ (pc' = pc \/ Go(y, Interrupted(y)))
    BY <1>4 DEF BKill
  <2>2. CASE pc' = pc
    BY <1>0, <1>2, <2>1, <2>2
  <2>3. CASE Go(y, Interrupted(y)) /\ y \in Clients
    <3>1. y # broker
      BY <2>3, BrokerAssumption DEF Clients
    <3>2. QED
      BY <1>1, <2>1, <2>3, <3>1
  <2>4. CASE Go(y, Interrupted(y)) /\ y = broker
    <3>1. Interrupted(broker) = pc[broker]
      BY <2>1 DEF Interrupted
    <3>2. pc' = pc
      BY <1>0, <2>4, <3>1 DEF Go, PartType
    <3>3. QED
      BY <1>0, <1>2, <2>1, <3>2
  <2>5. CASE Go(y, Interrupted(y)) /\ y \notin {broker} \cup Clients
    <3>1. pc' = pc
      BY <1>0, <2>5 DEF Go, PartType
    <3>2. QED
      BY <1>0, <1>2, <2>1, <3>1
  <2>6. QED
    BY <2>1, <2>2, <2>3, <2>4, <2>5
<1>5. QED
  BY <1>3, <1>4

LEMMA QuietSteps ==
  ASSUME SInv,
         \/ BStart \/ AnotherBroker \/ BTest \/ BFanOut \/ BKill \/ BNextTopic \/ BRemoveQueue
         \/ \E p \in Publishers : PStart(p) \/ PTest(p) \/ PInput(p)
         \/ \E s \in Subscribers : SStart(s) \/ STest(s) \/ SReceive(s)
         \/ \E x \in {broker} \cup Clients : PressCtrlC(x)
         \/ UNCHANGED vars
  PROVE  Quiet
<1>0. /\ PartType /\ fan \in Seq(Subscribers) /\ lines \in [Publishers -> Nat]
      /\ DOMAIN mail = Receivers /\ broker \notin Clients
      /\ Publishers \cap Subscribers = {}
  BY BrokerAssumption DEF SInv, PartType, Clients
<1>1. CASE BStart
  <2>1. Go(broker, "test") /\ pc[broker] = "start"
    BY <1>1 DEF BStart
  <2>2. "test" \in Places /\ "start" \in Serving
    BY DEF Places, Serving
  <2>3. QED
    BY <1>0, <1>1, <2>1, <2>2, OneGoes DEF BStart, setting, brokerVars, Clients
<1>2. CASE AnotherBroker
  BY <1>0, <1>2, NobodyGoes DEF AnotherBroker, setting, system, brokerVars
<1>3. CASE BTest
  <2>0. "recv" \in Places /\ "kill" \in Places /\ "kill" \notin Serving /\ "test" \in Serving
    BY DEF Places, Serving
  <2>1. subTopics' = subTopics /\ idx' = idx /\ mail' = mail /\ fan' = fan /\ lines' = lines
    BY <1>3 DEF BTest, setting, system
  <2>2. CASE Go(broker, "recv") /\ topics' = topics
    BY <1>0, <1>3, <2>0, <2>1, <2>2, OneGoes DEF BTest, Clients
  <2>3. CASE Go(broker, "kill") /\ topics' = topics
    BY <1>0, <2>0, <2>1, <2>3, OneGoes DEF Clients
  <2>4. QED
    BY <1>3, <2>2, <2>3 DEF BTest, StartShutdown
<1>4. CASE BFanOut
  <2>1. subTopics' = subTopics /\ idx' = idx /\ lines' = lines /\ topics' = topics
    BY <1>4 DEF BFanOut, setting
  <2>2. CASE fan # <<>> /\ Put(Head(fan), load) /\ fan' = Tail(fan) /\ pc' = pc
    <3>1. Head(fan) \in Subscribers /\ fan' \in Seq(Subscribers)
      BY <1>0, <2>2, TailTyped
    <3>2. Head(fan) # broker
      BY <3>1, BrokerAssumption
    <3>3. mail'[broker] = mail[broker] /\ DOMAIN mail' = Receivers
      BY <1>0, <2>2, <3>2 DEF Put
    <3>4. QED
      BY <1>0, <2>1, <2>2, <3>1, <3>3, NobodyGoes
  <2>3. CASE Go(broker, "test") /\ fan' = fan /\ mail' = mail
    <3>1. "test" \in Places /\ pc[broker] \in Serving
      BY <1>4 DEF Places, Serving, BFanOut
    <3>2. QED
      BY <1>0, <2>1, <2>3, <3>1, OneGoes DEF Clients
  <2>4. QED
    BY <1>4, <2>2, <2>3 DEF BFanOut, system
<1>5. CASE BKill
  BY <1>5, SignalQuiet DEF BKill
<1>6. CASE BRemoveQueue
  <2>1. /\ pc' \in [{broker} \cup Clients -> Places] /\ pc'[broker] = "exited"
        /\ \A s \in Subscribers : pc'[s] = pc[s]
    BY <1>0, <1>6 DEF BRemoveQueue, Go, PartType, Places, Clients
  <2>2. mail'[broker] = <<>> /\ DOMAIN mail' = Receivers
    BY <1>6 DEF BRemoveQueue, Receivers
  <2>3. "exited" \notin Serving
    BY DEF Serving
  <2>4. QED
    BY <1>0, <1>6, <2>1, <2>2, <2>3 DEF BRemoveQueue, Quiet, Path, setting, brokerVars, PartType
<1>7. ASSUME NEW p \in Publishers, PStart(p) \/ PTest(p) \/ PInput(p) PROVE Quiet
  <2>1. PICK place \in Places :
          /\ Go(p, place) /\ subTopics' = subTopics /\ idx' = idx /\ mail' = mail /\ fan' = fan
          /\ topics' = topics
    BY <1>7 DEF PStart, PTest, PInput, Places, setting, system, brokerVars
  <2>2. lines' \in [Publishers -> Nat]
    BY <1>0, <1>7 DEF PStart, PTest, PInput
  <2>3. p \notin Subscribers /\ p # broker /\ p \in Clients
    BY <1>0 DEF Clients
  <2>4. QED
    BY <1>0, <2>1, <2>2, <2>3, OneGoes
<1>8. ASSUME NEW s \in Subscribers, SStart(s) \/ STest(s) \/ SReceive(s) PROVE Quiet
  <2>1. s \in Clients /\ s # broker /\ s \in Receivers
    BY <1>0 DEF Clients, Receivers
  <2>2. subTopics' = subTopics /\ idx' = idx /\ fan' = fan /\ lines' = lines /\ topics' = topics
    BY <1>8 DEF SStart, STest, SReceive, setting, brokerVars
  <2>3. /\ AfterLoop(s) \in {"exited", "unsubscribe"} /\ (AfterLoop(s) = "unsubscribe" => Args(s) # 0)
        /\ {"exited", "unsubscribe", "test", "subscribe", "recv"} \subseteq Places
    BY DEF AfterLoop, Places
  <2>4. CASE SStart(s)
    <3>1. PICK place \in Places :
            /\ Go(s, place) /\ mail' = mail
            /\ \/ place = "exited"
               \/ pc[s] = "start" /\ place = "test" /\ Args(s) = 0
               \/ pc[s] = "start" /\ place = "subscribe" /\ Args(s) # 0
      BY <2>3, <2>4 DEF SStart, system
    <3>2. QED
      BY <1>0, <2>1, <2>2, <3>1, OneGoes
  <2>5. CASE STest(s)
    <3>1. PICK place \in Places :
            /\ Go(s, place) /\ mail' = mail
            /\ \/ place = "exited"
               \/ pc[s] = "test" /\ place = "recv"
               \/ pc[s] = "test" /\ place = "unsubscribe" /\ Args(s) # 0
      BY <2>3, <2>5 DEF STest, system
    <3>2. QED
      BY <1>0, <2>1, <2>2, <3>1, OneGoes
  <2>6. CASE SReceive(s)
    <3>1. PICK place \in Places :
            /\ Go(s, place)
            /\ \/ place = "exited"
               \/ pc[s] = "recv" /\ place = "test"
               \/ pc[s] = "recv" /\ place = "unsubscribe" /\ Args(s) # 0
      BY <2>3, <2>6 DEF SReceive
    <3>2. mail'[broker] = mail[broker] /\ DOMAIN mail' = Receivers
      <4>1. mail' = mail \/ mail' = [mail EXCEPT ![s] = Tail(mail[s])]
        BY <2>6 DEF SReceive, Get, system
      <4>2. CASE mail' = mail
        BY <1>0, <4>2
      <4>3. CASE mail' = [mail EXCEPT ![s] = Tail(mail[s])]
        <5>1. DOMAIN mail' = DOMAIN mail /\ broker \in DOMAIN mail
          BY <1>0, <4>3 DEF Receivers
        <5>2. QED
          BY <1>0, <2>1, <4>3, <5>1
      <4>4. QED
        BY <4>1, <4>2, <4>3
    <3>3. /\ pc' \in [{broker} \cup Clients -> Places] /\ pc'[s] = place
          /\ \A y \in {broker} \cup Clients : y # s => pc'[y] = pc[y]
      BY <1>0, <2>1, <3>1 DEF PartType, Go
    <3>4. \A y \in Subscribers : Path(y)
      BY <3>1, <3>3 DEF Path, Clients
    <3>5. QED
      BY <1>0, <2>1, <2>2, <3>2, <3>3, <3>4 DEF Quiet, PartType
  <2>7. QED
    BY <1>8, <2>4, <2>5, <2>6
<1>9. ASSUME NEW x \in {broker} \cup Clients, PressCtrlC(x) PROVE Quiet
  BY <1>9, SignalQuiet DEF PressCtrlC
<1>10. CASE UNCHANGED vars
  BY <1>0, <1>10, NobodyGoes DEF vars, setting, system, brokerVars
<1>11. CASE BNextTopic
  <2>1. "kill" \notin Serving /\ pc[broker] = "kill"
    BY <1>11 DEF Serving, BNextTopic
  <2>2. /\ topics # <<>> /\ topics' = Tail(topics)
        /\ UNCHANGED <<subTopics, idx, mail, fan, lines, pc>>
    BY <1>11 DEF BNextTopic, setting, system
  <2>3. QED
    BY <1>0, <2>1, <2>2 DEF Quiet, PartType, Path
<1>12. QED
  BY <1>1, <1>2, <1>3, <1>4, <1>5, <1>6, <1>7, <1>8, <1>9, <1>10, <1>11

-----------------------------------------------------------------------------
(* Requests: one more at the end of the broker's messages.                 *)

LEMMA BoxAppend ==
  ASSUME PartType, NEW m \in Letters, mail'[broker] = Append(mail[broker], m)
  PROVE  /\ mail'[broker] \in Seq(Letters)
         /\ Len(mail[broker]) \in Nat /\ Len(mail'[broker]) = Len(mail[broker]) + 1
         /\ mail'[broker][Len(mail[broker]) + 1] = m
         /\ \A i \in 1 .. Len(mail[broker]) : mail'[broker][i] = mail[broker][i]
         /\ \A i \in 1 .. Len(mail'[broker]) :
              i \in 1 .. Len(mail[broker]) \/ i = Len(mail[broker]) + 1
<1>1. mail[broker] \in Seq(Letters)
  BY DEF PartType
<1>2. Len(mail[broker]) \in Nat
  BY <1>1, LenProperties
<1>3. /\ mail'[broker] \in Seq(Letters)
      /\ Len(mail'[broker]) = Len(mail[broker]) + 1
      /\ mail'[broker][Len(mail[broker]) + 1] = m
      /\ \A i \in 1 .. Len(mail[broker]) : mail'[broker][i] = mail[broker][i]
  BY <1>1, AppendProperties
<1>4. QED
  BY <1>2, <1>3

LEMMA PairAppend ==
  ASSUME PartType, NEW s \in Subscribers, NEW k \in 1 .. Args(s), Pair(s, k),
         NEW m \in Letters, mail'[broker] = Append(mail[broker], m),
         topics' = topics, subTopics' = subTopics,
         Sent(s, k)' => Sent(s, k) \/ m = Sub(s, subTopics[s][k]),
         Left(s, k) => Left(s, k)',
         m = Unsub(s, subTopics[s][k]) => Sent(s, k) /\ ~Left(s, k) /\ Left(s, k)'
  PROVE  Pair(s, k)'
<1> DEFINE t == subTopics[s][k]
           n == Len(mail[broker])
<1>0. t' = t
  OBVIOUS
<1>1. /\ n \in Nat /\ Len(mail'[broker]) = n + 1 /\ mail'[broker][n + 1] = m
      /\ \A i \in 1 .. n : mail'[broker][i] = mail[broker][i]
      /\ \A i \in 1 .. n + 1 : i \in 1 .. n \/ i = n + 1
      /\ n + 1 \in 1 .. n + 1 /\ \A i \in 1 .. n : i \in 1 .. n + 1 /\ i < n + 1
  BY BoxAppend
<1>2. Known(s, t)' <=> Known(s, t)
  BY <1>0 DEF Known
<1>3. /\ Sent(s, k) => Known(s, t) \/ \E i \in 1 .. n : mail[broker][i] = Sub(s, t)
      /\ \A j \in 1 .. n : mail[broker][j] = Unsub(s, t) =>
           /\ Left(s, k)
           /\ \A i \in 1 .. n : i < j => mail[broker][i] # Unsub(s, t)
           /\ Known(s, t) \/ \E i \in 1 .. n : i < j /\ mail[broker][i] = Sub(s, t)
  BY DEF Pair
<1> HIDE DEF t, n
<1>4. Sent(s, k)' => Known(s, t)' \/ \E i \in 1 .. n + 1 : mail'[broker][i] = Sub(s, t)
  <2>1. CASE m = Sub(s, t)
    BY <1>1, <2>1
  <2>2. CASE Sent(s, k)
    BY <1>1, <1>2, <1>3, <2>2
  <2>3. QED
    BY <2>1, <2>2 DEF t
<1>5. ASSUME NEW j \in 1 .. n + 1, mail'[broker][j] = Unsub(s, t)
      PROVE  /\ Left(s, k)'
             /\ \A i \in 1 .. n + 1 : i < j => mail'[broker][i] # Unsub(s, t)
             /\ Known(s, t)' \/ \E i \in 1 .. n + 1 : i < j /\ mail'[broker][i] = Sub(s, t)
  <2>1. CASE j \in 1 .. n
    <3>1. mail[broker][j] = Unsub(s, t)
      BY <1>1, <1>5, <2>1
    <3>2. Left(s, k)'
      BY <1>3, <2>1, <3>1
    <3>3. \A i \in 1 .. n + 1 : i < j => i \in 1 .. n
      BY <1>1, <2>1
    <3>4. QED
      BY <1>1, <1>2, <1>3, <2>1, <3>1, <3>2, <3>3
  <2>2. CASE j = n + 1
    <3>1. m = Unsub(s, t)
      BY <1>1, <1>5, <2>2
    <3>2. Sent(s, k) /\ ~Left(s, k) /\ Left(s, k)'
      BY <3>1 DEF t
    <3>3. \A i \in 1 .. n : mail[broker][i] # Unsub(s, t)
      BY <1>3, <3>2
    <3>4. \A i \in 1 .. n + 1 : i < j => i \in 1 .. n
      BY <1>1, <2>2
    <3>5. QED
      BY <1>1, <1>2, <1>3, <2>2, <3>2, <3>3, <3>4
  <2>3. QED
    BY <1>1, <2>1, <2>2
<1>6. QED
  <2>1. /\ Sent(s, k)' => Known(s, t)' \/ \E i \in 1 .. Len(mail'[broker]) : mail'[broker][i] = Sub(s, t)
        /\ \A j \in 1 .. Len(mail'[broker]) : mail'[broker][j] = Unsub(s, t) =>
             /\ Left(s, k)'
             /\ \A i \in 1 .. Len(mail'[broker]) : i < j => mail'[broker][i] # Unsub(s, t)
             /\ Known(s, t)' \/ \E i \in 1 .. Len(mail'[broker]) : i < j /\ mail'[broker][i] = Sub(s, t)
    BY <1>1, <1>4, <1>5
  <2>2. QED
    BY <1>0, <2>1 DEF Pair, t, Sub, Unsub

LEMMA OriginAppend ==
  ASSUME PartType, Origin, NEW m \in Letters, mail'[broker] = Append(mail[broker], m),
         subTopics' = subTopics,
         m.cmd = "unsubscribe" => \E k \in 1 .. Args(m.from) : m.topic = subTopics[m.from][k]
  PROVE  Origin'
BY BoxAppend, SMTT(40) DEF Origin, Args

\* A line that a publisher sends.
LEMMA SendKeeps ==
  ASSUME SInv, NEW p \in Publishers, PSend(p)
  PROVE  SInv'
<1>0. /\ PartType /\ p \in Clients /\ p \notin Subscribers /\ p # broker /\ broker \in Receivers
      /\ PubTopic[p] \in Topics /\ lines[p] \in Nat /\ fan \in Seq(Subscribers)
      /\ lines \in [Publishers -> Nat]
  BY BrokerAssumption DEF SInv, PartType, Clients, Receivers
<1>1. PICK place \in {"test", "exited"} :
        /\ Go(p, place) /\ subTopics' = subTopics /\ idx' = idx /\ topics' = topics /\ fan' = fan
        /\ lines' = lines
  BY DEF PSend, setting, brokerVars
<1>2. CASE mail' = mail
  <2>1. place \in Places
    BY DEF Places
  <2>2. Quiet
    BY <1>0, <1>1, <1>2, <2>1, OneGoes
  <2>3. QED
    BY <2>2, QuietKeeps
<1>3. CASE Put(broker, [cmd |-> "send", from |-> p, topic |-> PubTopic[p], num |-> lines[p]])
  <2> DEFINE m == [cmd |-> "send", from |-> p, topic |-> PubTopic[p], num |-> lines[p]]
  <2>1. m \in Letters /\ m.cmd = "send"
    BY <1>0 DEF Letters
  <2>2. \A s, t : m # Unsub(s, t)
    BY DEF Unsub
  <2>3. mail'[broker] = Append(mail[broker], m) /\ DOMAIN mail' = Receivers
    BY <1>0, <1>3 DEF Put, PartType
  <2> HIDE DEF m
  <2>4. /\ pc' \in [{broker} \cup Clients -> Places] /\ pc'[broker] = pc[broker]
        /\ \A s \in Subscribers : pc'[s] = pc[s]
    BY <1>0, <1>1 DEF Go, PartType, Places, Clients
  <2>5. PartType'
    <3>1. mail'[broker] \in Seq(Letters)
      BY <1>0, <2>1, <2>3, BoxAppend
    <3>2. QED
      BY <1>0, <1>1, <2>3, <2>4, <3>1 DEF PartType
  <2>6. \A s \in Subscribers : Loop(s)'
    BY <1>1, <2>4 DEF SInv, Loop, Args
  <2>7. ASSUME NEW s \in Subscribers, NEW k \in 1 .. Args(s), Pair(s, k) PROVE Pair(s, k)'
    <3>1. (Sent(s, k)' <=> Sent(s, k)) /\ (Left(s, k)' <=> Left(s, k))
      BY <1>1, <2>4 DEF Sent, Left
    <3>2. QED
      BY <1>0, <1>1, <2>1, <2>2, <2>3, <2>7, <3>1, PairAppend
  <2>8. Origin => Origin'
    BY <1>0, <1>1, <2>1, <2>3, OriginAppend
  <2>9. Subscriptions'
    BY <1>1, <2>4, <2>7, <2>8 DEF SInv, Subscriptions, NoRepeats, Repeats, Args
  <2>10. QED
    BY <2>5, <2>6, <2>9 DEF SInv
<1>4. QED
  BY <1>2, <1>3 DEF PSend, system

\* A request of a subscriber: the next topic of argv.
LEMMA RequestKeeps ==
  ASSUME SInv, NEW r \in Subscribers, SSubscribe(r) \/ SUnsubscribe(r)
  PROVE  SInv'
<1> DEFINE cmd == IF pc[r] = "subscribe" THEN "subscribe" ELSE "unsubscribe"
           after == IF pc[r] = "subscribe" THEN "test" ELSE "exited"
           m == [cmd |-> cmd, from |-> r, topic |-> subTopics[r][idx[r]], num |-> 0]
<1>0. /\ PartType /\ r \in Clients /\ r # broker /\ broker \in Receivers
      /\ fan \in Seq(Subscribers) /\ lines \in [Publishers -> Nat]
      /\ idx \in [Subscribers -> Nat] /\ DOMAIN mail = Receivers
      /\ {"test", "exited"} \subseteq Places
  BY BrokerAssumption DEF SInv, PartType, Clients, Receivers, Places
<1>1. /\ idx[r] \in 1 .. Args(r) /\ Args(r) \in Nat /\ subTopics[r][idx[r]] \in Topics
      /\ pc[r] \in {"subscribe", "unsubscribe"}
  BY <1>0, ArgsNat DEF SInv, Loop, SSubscribe, SUnsubscribe
<1>2. Request(r, cmd, after) /\ pc[r] = cmd
  BY DEF SSubscribe, SUnsubscribe
<1>3. subTopics' = subTopics /\ topics' = topics /\ fan' = fan /\ lines' = lines
  BY <1>2 DEF Request, setting, brokerVars
<1>4. CASE mail' = mail /\ idx' = idx /\ Go(r, "exited")
  <2>1. Quiet
    BY <1>0, <1>3, <1>4, OneGoes
  <2>2. QED
    BY <2>1, QuietKeeps
<1>5. CASE /\ Put(broker, m) /\ idx' = [idx EXCEPT ![r] = IF @ = Args(r) THEN 1 ELSE @ + 1]
           /\ IF idx[r] = Args(r) THEN Go(r, after) ELSE UNCHANGED pc
  <2>1. /\ m \in Letters /\ m.cmd = cmd /\ m.from = r /\ m.topic = subTopics[r][idx[r]]
        /\ cmd = "subscribe" => m = Sub(r, subTopics[r][idx[r]])
        /\ cmd = "unsubscribe" => m = Unsub(r, subTopics[r][idx[r]])
        /\ \A s, t : m = Unsub(s, t) => s = r /\ t = subTopics[r][idx[r]] /\ cmd = "unsubscribe"
    BY <1>1, <1>2 DEF Letters, Sub, Unsub
  <2>2. mail'[broker] = Append(mail[broker], m) /\ DOMAIN mail' = Receivers
    BY <1>0, <1>5 DEF Put
  <2> HIDE DEF m
  <2>3. /\ pc' \in [{broker} \cup Clients -> Places] /\ pc'[broker] = pc[broker]
        /\ \A s \in Subscribers : s # r => pc'[s] = pc[s]
        /\ pc'[r] = IF idx[r] = Args(r) THEN after ELSE pc[r]
    BY <1>0, <1>5 DEF Go, PartType, Clients
  <2>4. /\ idx' \in [Subscribers -> Nat] /\ \A s \in Subscribers : s # r => idx'[s] = idx[s]
        /\ idx'[r] = IF idx[r] = Args(r) THEN 1 ELSE idx[r] + 1
    BY <1>0, <1>1, <1>5
  <2>5. PartType'
    <3>1. mail'[broker] \in Seq(Letters)
      BY <1>0, <2>1, <2>2, BoxAppend
    <3>2. QED
      BY <1>0, <1>3, <2>2, <2>3, <2>4, <3>1 DEF PartType
  <2>6. ASSUME NEW s \in Subscribers PROVE Loop(s)'
    <3>1. CASE s # r
      BY <1>3, <2>3, <2>4, <3>1 DEF SInv, Loop, Args
    <3>2. CASE s = r
      BY <1>1, <1>2, <1>3, <2>3, <2>4, <3>2 DEF Loop, Args
    <3>3. QED
      BY <3>1, <3>2
  <2>7. ASSUME NoRepeats, NEW s \in Subscribers, NEW k \in 1 .. Args(s), Pair(s, k)
        PROVE  Pair(s, k)'
    <3>1. CASE s # r
      <4>1. (Sent(s, k)' <=> Sent(s, k)) /\ (Left(s, k)' <=> Left(s, k))
        BY <2>3, <2>4, <3>1 DEF Sent, Left
      <4>2. m # Unsub(s, subTopics[s][k])
        BY <2>1, <3>1
      <4>3. QED
        BY <1>0, <1>3, <2>1, <2>2, <2>7, <4>1, <4>2, PairAppend
    <3>2. CASE s = r /\ k # idx[r]
      <4>1. Sent(s, k)' => Sent(s, k)
        BY <1>1, <1>2, <2>3, <2>4, <2>7, <3>2 DEF Sent
      <4>2. Left(s, k) => Left(s, k)'
        BY <1>1, <1>2, <2>3, <2>4, <2>7, <3>2 DEF Left
      <4>3. m # Unsub(s, subTopics[s][k])
        BY <1>1, <2>1, <2>7, <3>2 DEF NoRepeats, Repeats
      <4>4. QED
        BY <1>0, <1>3, <2>1, <2>2, <2>7, <4>1, <4>2, <4>3, PairAppend
    <3>3. CASE s = r /\ k = idx[r]
      <4>1. Left(s, k) => Left(s, k)'
        BY <1>1, <1>2, <3>3 DEF Left
      <4>2. m = Unsub(s, subTopics[s][k]) => Sent(s, k) /\ ~Left(s, k) /\ Left(s, k)'
        BY <1>1, <1>2, <2>1, <2>3, <2>4, <3>3 DEF Sent, Left
      <4>3. Sent(s, k)' => Sent(s, k) \/ m = Sub(s, subTopics[s][k])
        BY <1>1, <1>2, <2>1, <2>3, <2>4, <3>3 DEF Sent
      <4>4. QED
        BY <1>0, <1>3, <2>1, <2>2, <2>7, <4>1, <4>2, <4>3, PairAppend
    <3>4. QED
      BY <3>1, <3>2, <3>3
  <2>8. Origin => Origin'
    <3>1. m.cmd = "unsubscribe" => \E k \in 1 .. Args(m.from) : m.topic = subTopics[m.from][k]
      BY <1>1, <2>1
    <3>2. QED
      BY <1>0, <1>3, <2>1, <2>2, <3>1, OriginAppend
  <2>9. Subscriptions'
    BY <1>3, <2>3, <2>7, <2>8 DEF SInv, Subscriptions, NoRepeats, Repeats, Args
  <2>10. QED
    BY <2>5, <2>6, <2>9 DEF SInv
<1>6. QED
  BY <1>2, <1>4, <1>5 DEF Request, system

-----------------------------------------------------------------------------
(* The broker takes the first of its messages.                             *)

LEMMA BoxTail ==
  ASSUME PartType, mail[broker] # <<>>, mail'[broker] = Tail(mail[broker])
  PROVE  /\ mail'[broker] \in Seq(Letters) /\ Head(mail[broker]) \in Letters
         /\ Head(mail[broker]) = mail[broker][1]
         /\ Len(mail[broker]) \in Nat /\ 1 \in 1 .. Len(mail[broker])
         /\ Len(mail'[broker]) = Len(mail[broker]) - 1
         /\ \A i \in 1 .. Len(mail'[broker]) :
              i + 1 \in 1 .. Len(mail[broker]) /\ mail'[broker][i] = mail[broker][i + 1]
         /\ \A i \in 1 .. Len(mail[broker]) :
              i = 1 \/ (i - 1 \in 1 .. Len(mail'[broker]) /\ mail'[broker][i - 1] = mail[broker][i])
<1>1. mail[broker] \in Seq(Letters)
  BY DEF PartType
<1>2. Len(mail[broker]) \in Nat /\ Len(mail[broker]) # 0
  BY <1>1, LenProperties, EmptySeq
<1>3. /\ mail'[broker] \in Seq(Letters) /\ Head(mail[broker]) \in Letters
      /\ Len(mail'[broker]) = Len(mail[broker]) - 1
      /\ \A i \in 1 .. Len(mail'[broker]) : mail'[broker][i] = mail[broker][i + 1]
  BY <1>1, HeadTailProperties
<1>4. Head(mail[broker]) = mail[broker][1]
  BY <1>1
<1>5. \A i \in 1 .. Len(mail[broker]) :
        i = 1 \/ (i - 1 \in 1 .. Len(mail'[broker]) /\ mail'[broker][i - 1] = mail[broker][i])
  <2> TAKE i \in 1 .. Len(mail[broker])
  <2>1. i = 1 \/ (i - 1 \in 1 .. Len(mail'[broker]) /\ (i - 1) + 1 = i)
    BY <1>2, <1>3
  <2>2. QED
    BY <1>3, <2>1
<1>6. QED
  BY <1>2, <1>3, <1>4, <1>5

LEMMA PairTail ==
  ASSUME PartType, NEW s \in Subscribers, NEW k \in 1 .. Args(s), Pair(s, k),
         mail[broker] # <<>>, mail'[broker] = Tail(mail[broker]), subTopics' = subTopics,
         Sent(s, k)' <=> Sent(s, k), Left(s, k)' <=> Left(s, k), ~(Sent(s, k) /\ Left(s, k)),
         Head(mail[broker]) = Sub(s, subTopics[s][k]) => Known(s, subTopics[s][k])',
         \/ Known(s, subTopics[s][k]) => Known(s, subTopics[s][k])'
         \/ Head(mail[broker]) = Unsub(s, subTopics[s][k])
  PROVE  Pair(s, k)'
<1> DEFINE t == subTopics[s][k]
           n == Len(mail[broker])
           box == mail[broker]
<1>0. t' = t
  OBVIOUS
<1>1. /\ n \in Nat /\ 1 \in 1 .. n /\ Len(box') = n - 1 /\ Head(box) = box[1]
      /\ \A i \in 1 .. Len(box') : i + 1 \in 1 .. n /\ box'[i] = box[i + 1]
      /\ \A i \in 1 .. n : i = 1 \/ (i - 1 \in 1 .. Len(box') /\ box'[i - 1] = box[i])
  BY BoxTail
<1>2. /\ Sent(s, k) => Known(s, t) \/ \E i \in 1 .. n : box[i] = Sub(s, t)
      /\ \A j \in 1 .. n : box[j] = Unsub(s, t) =>
           /\ Left(s, k)
           /\ \A i \in 1 .. n : i < j => box[i] # Unsub(s, t)
           /\ Known(s, t) \/ \E i \in 1 .. n : i < j /\ box[i] = Sub(s, t)
  BY DEF Pair
<1>3. /\ box[1] = Sub(s, t) => Known(s, t)'
      /\ (Known(s, t) => Known(s, t)') \/ box[1] = Unsub(s, t)
  BY <1>0, <1>1
<1> HIDE DEF t, n, box
<1>4. Sent(s, k)' => Known(s, t)' \/ \E i \in 1 .. Len(box') : box'[i] = Sub(s, t)
  <2> SUFFICES ASSUME Sent(s, k)'
               PROVE  Known(s, t)' \/ \E i \in 1 .. Len(box') : box'[i] = Sub(s, t)
    OBVIOUS
  <2>1. box[1] # Unsub(s, t)
    BY <1>1, <1>2
  <2>2. CASE Known(s, t)
    BY <1>3, <2>1, <2>2
  <2>3. CASE \E i \in 1 .. n : box[i] = Sub(s, t)
    BY <1>1, <1>3, <2>3
  <2>4. QED
    BY <1>2, <2>2, <2>3
<1>5. ASSUME NEW j \in 1 .. Len(box'), box'[j] = Unsub(s, t)
      PROVE  /\ Left(s, k)'
             /\ \A i \in 1 .. Len(box') : i < j => box'[i] # Unsub(s, t)
             /\ Known(s, t)' \/ \E i \in 1 .. Len(box') : i < j /\ box'[i] = Sub(s, t)
  <2>1. j + 1 \in 1 .. n /\ box[j + 1] = Unsub(s, t) /\ 1 < j + 1 /\ j \in Nat
    BY <1>1, <1>5
  <2>2. /\ Left(s, k) /\ box[1] # Unsub(s, t)
        /\ \A i \in 1 .. n : i < j + 1 => box[i] # Unsub(s, t)
        /\ Known(s, t) \/ \E i \in 1 .. n : i < j + 1 /\ box[i] = Sub(s, t)
    BY <1>1, <1>2, <2>1
  <2>3. ASSUME NEW i \in 1 .. Len(box'), i < j PROVE box'[i] # Unsub(s, t)
    <3>1. i + 1 \in 1 .. n /\ i + 1 < j + 1 /\ box'[i] = box[i + 1]
      BY <1>1, <2>1, <2>3
    <3>2. QED
      BY <2>2, <3>1
  <2>4. CASE Known(s, t)
    BY <1>3, <2>2, <2>3, <2>4
  <2>5. CASE \E i \in 1 .. n : i < j + 1 /\ box[i] = Sub(s, t)
    <3>1. PICK i \in 1 .. n : i < j + 1 /\ box[i] = Sub(s, t)
      BY <2>5
    <3>2. CASE i = 1
      BY <1>3, <2>2, <2>3, <3>1, <3>2
    <3>3. CASE i # 1
      <4>1. i - 1 \in 1 .. Len(box') /\ box'[i - 1] = Sub(s, t) /\ i - 1 < j
        BY <1>1, <2>1, <3>1, <3>3
      <4>2. QED
        BY <2>2, <2>3, <4>1
    <3>4. QED
      BY <3>2, <3>3
  <2>6. QED
    BY <2>2, <2>4, <2>5
<1>6. QED
  BY <1>0, <1>4, <1>5 DEF Pair, t, box, Sub, Unsub

LEMMA OriginTail ==
  ASSUME PartType, Origin, mail[broker] # <<>>, mail'[broker] = Tail(mail[broker]),
         subTopics' = subTopics
  PROVE  Origin'
BY BoxTail DEF Origin, Args

LEMMA ReceiveKeeps ==
  ASSUME SInv, BReceive
  PROVE  SInv'
<1>0. /\ PartType /\ broker \notin Subscribers /\ DOMAIN mail = Receivers /\ broker \in Receivers
      /\ fan \in Seq(Subscribers) /\ pc[broker] = "recv" /\ "recv" \in Serving
  BY BrokerAssumption DEF SInv, PartType, Receivers, BReceive, Serving
<1>1. /\ subTopics' = subTopics /\ idx' = idx /\ lines' = lines
      /\ mail[broker] # <<>> /\ mail'[broker] = Tail(mail[broker]) /\ DOMAIN mail' = Receivers
  BY <1>0 DEF BReceive, Get, setting
<1>2. PICK m \in Letters : m = Head(mail[broker])
  BY <1>0, <1>1, BoxTail
<1>3. HandleSubscribe(m) \/ HandleUnsubscribe(m) \/ HandleSend(m)
  BY <1>2 DEF BReceive
<1>4. m.topic \in Topics /\ (m.cmd \in {"subscribe", "unsubscribe"} => m.from \in Subscribers)
  BY DEF Letters
<1>5. /\ topics' \in Seq(Nodes)
      /\ \A i, j \in 1 .. Len(topics') : topics'[i].name = topics'[j].name => i = j
      /\ \A s, t : m = Sub(s, t) => Known(s, t)'
      /\ \A s, t : (Known(s, t) => Known(s, t)') \/ (m.cmd = "unsubscribe" /\ m.from = s /\ m.topic = t)
  <2>1. CASE HandleSubscribe(m)
    <3>1. /\ m.cmd = "subscribe" /\ m.from \in Subscribers
          /\ topics' = AddOrSubscribe(m.topic, m.from)
      BY <1>4, <2>1 DEF HandleSubscribe
    <3>2. /\ topics' \in Seq(Nodes)
          /\ \A i, j \in 1 .. Len(topics') : topics'[i].name = topics'[j].name => i = j
          /\ Known(m.from, m.topic)'
          /\ \A s, t : Known(s, t) => Known(s, t)'
      BY <1>0, <1>4, <3>1, SubscribeAdds
    <3>3. \A s, t : m = Sub(s, t) => s = m.from /\ t = m.topic
      BY DEF Sub
    <3>4. ASSUME NEW s, NEW t, m = Sub(s, t) PROVE Known(s, t)'
      <4>1. s = m.from /\ t = m.topic
        BY <3>3, <3>4
      <4>2. QED
        BY <3>2, <4>1 DEF Known
    <3>5. QED
      BY <3>2, <3>4
  <2>2. CASE HandleUnsubscribe(m)
    <3>1. /\ m.cmd = "unsubscribe" /\ m.from \in Subscribers
          /\ topics' \in {topics, Unsubscribe(m.topic, m.from)}
      BY <1>4, <2>2 DEF HandleUnsubscribe
    <3>2. \A s, t : m # Sub(s, t)
      BY <3>1 DEF Sub
    <3>3. CASE topics' = topics
      BY <1>0, <3>2, <3>3 DEF PartType, Known
    <3>4. CASE topics' = Unsubscribe(m.topic, m.from)
      <4>1. /\ topics' \in Seq(Nodes)
            /\ \A i, j \in 1 .. Len(topics') : topics'[i].name = topics'[j].name => i = j
            /\ \A s, t : Known(s, t) /\ (s # m.from \/ t # m.topic) => Known(s, t)'
        BY <1>0, <1>4, <3>1, <3>4, UnsubscribeKeeps
      <4>2. QED
        BY <3>1, <3>2, <4>1
    <3>5. QED
      BY <3>1, <3>3, <3>4
  <2>3. CASE HandleSend(m)
    <3>1. m.cmd = "send" /\ topics' = topics
      BY <2>3 DEF HandleSend
    <3>2. \A s, t : m # Sub(s, t)
      BY <3>1 DEF Sub
    <3>3. QED
      BY <1>0, <3>1, <3>2 DEF PartType, Known
  <2>4. QED
    BY <1>3, <2>1, <2>2, <2>3
<1>6. /\ fan' \in Seq(Subscribers)
      /\ pc' \in [{broker} \cup Clients -> Places]
      /\ pc'[broker] \in {"test", "fanout", "crashed"}
      /\ \A s \in Subscribers : pc'[s] = pc[s]
  <2>1. fan' \in Seq(Subscribers)
    BY <1>0, <1>3, PidsFound DEF HandleSubscribe, HandleUnsubscribe, HandleSend
  <2>2. \E place \in {"test", "fanout", "crashed"} : Go(broker, place)
    BY <1>3 DEF HandleSubscribe, HandleUnsubscribe, HandleSend
  <2>3. QED
    BY <1>0, <2>1, <2>2 DEF Go, PartType, Places, Clients
<1>7. PartType'
  <2>1. mail'[broker] \in Seq(Letters)
    BY <1>0, <1>1, BoxTail
  <2>2. QED
    BY <1>0, <1>1, <1>5, <1>6, <2>1 DEF PartType
<1>8. \A s \in Subscribers : Loop(s)'
  BY <1>1, <1>6 DEF SInv, Loop, Args
<1>9. ASSUME NoRepeats
      PROVE  /\ pc'[broker] # "crashed"
             /\ Origin' /\ \A s \in Subscribers : \A k \in 1 .. Args(s) : Pair(s, k)'
  <2>1. Origin /\ \A s \in Subscribers : \A k \in 1 .. Args(s) : Pair(s, k)
    BY <1>0, <1>9 DEF SInv, Subscriptions
  <2>2. m = mail[broker][1] /\ 1 \in 1 .. Len(mail[broker]) /\ Len(mail[broker]) \in Nat
    BY <1>0, <1>1, <1>2, BoxTail
  <2>3. \A s, t : m.cmd = "unsubscribe" /\ m.from = s /\ m.topic = t => m = Unsub(s, t)
    <3>1. m.cmd = "unsubscribe" =>
            m \in [cmd : {"subscribe", "unsubscribe"}, from : Subscribers, topic : Topics, num : {0}]
      BY DEF Letters
    <3>2. QED
      BY <3>1 DEF Unsub
  <2>4. ASSUME HandleUnsubscribe(m) PROVE ~(TopicIndex(m.topic) # 0 /\ PidsOf(m.topic) = <<>>)
    <3>1. m.cmd = "unsubscribe" /\ m.from \in Subscribers
      BY <1>4, <2>4 DEF HandleUnsubscribe
    <3>2. PICK k \in 1 .. Args(m.from) : m.topic = subTopics[m.from][k]
      BY <2>1, <2>2, <3>1 DEF Origin
    <3>3. mail[broker][1] = Unsub(m.from, subTopics[m.from][k]) /\ Pair(m.from, k)
      BY <2>1, <2>2, <2>3, <3>1, <3>2
    <3>4. Known(m.from, m.topic)
      <4>1. \/ Known(m.from, subTopics[m.from][k])
            \/ \E i \in 1 .. Len(mail[broker]) : i < 1 /\ mail[broker][i] = Sub(m.from, m.topic)
        BY <2>2, <3>2, <3>3 DEF Pair
      <4>2. \A i \in 1 .. Len(mail[broker]) : ~(i < 1)
        BY <2>2
      <4>3. QED
        BY <3>2, <4>1, <4>2
    <3>5. QED
      BY <1>0, <3>4, PidsFound
  <2>5. pc'[broker] # "crashed"
    <3>1. Go(broker, "test") \/ Go(broker, "fanout")
      BY <1>3, <2>4 DEF HandleSubscribe, HandleUnsubscribe, HandleSend
    <3>2. QED
      BY <1>0, <3>1 DEF Go, PartType
  <2>6. ASSUME NEW s \in Subscribers, NEW k \in 1 .. Args(s) PROVE Pair(s, k)'
    <3>1. (Sent(s, k)' <=> Sent(s, k)) /\ (Left(s, k)' <=> Left(s, k))
      BY <1>1, <1>6 DEF Sent, Left
    <3>2. ~(Sent(s, k) /\ Left(s, k))
      <4>1. k \in Nat /\ idx[s] \in Nat
        BY <1>0, ArgsNat DEF PartType
      <4>2. QED
        BY <4>1 DEF Sent, Left
    <3>3. Pair(s, k)
      BY <2>1
    <3>4. /\ Head(mail[broker]) = Sub(s, subTopics[s][k]) => Known(s, subTopics[s][k])'
          /\ \/ Known(s, subTopics[s][k]) => Known(s, subTopics[s][k])'
             \/ Head(mail[broker]) = Unsub(s, subTopics[s][k])
      <4>1. PICK t : t = subTopics[s][k]
        OBVIOUS
      <4>2. /\ m = Sub(s, t) => Known(s, t)'
            /\ (Known(s, t) => Known(s, t)') \/ m = Unsub(s, t)
        BY <1>5, <2>3
      <4>3. t = subTopics'[s][k]
        BY <1>1, <4>1
      <4>4. Known(s, t)' <=> Known(s, subTopics[s][k])'
        BY <4>3 DEF Known
      <4>5. QED
        BY <1>2, <4>1, <4>2, <4>4
    <3>5. QED
      BY <1>0, <1>1, <3>1, <3>2, <3>3, <3>4, PairTail
  <2>7. Origin'
    BY <1>0, <1>1, <2>1, OriginTail
  <2>8. QED
    BY <2>5, <2>6, <2>7
<1>10. Subscriptions'
  BY <1>1, <1>9 DEF Subscriptions, NoRepeats, Repeats, Args
<1>11. QED
  BY <1>7, <1>8, <1>10 DEF SInv

-----------------------------------------------------------------------------
LEMMA SInvInit == Init => SInv
<1> SUFFICES ASSUME Init PROVE SInv
  OBVIOUS
<1>1. PartType
  <2>1. /\ <<>> \in Seq(Letters) /\ <<>> \in Seq(Nodes) /\ <<>> \in Seq(Subscribers)
        /\ Len(<<>>) = 0
    OBVIOUS
  <2>2. mail[broker] = <<>> /\ DOMAIN mail = Receivers
    BY DEF Init, Receivers
  <2>3. subTopics \in [Subscribers -> Seq(Topics)]
    BY BrokerAssumption DEF Init
  <2>4. pc \in [{broker} \cup Clients -> Places] /\ lines \in [Publishers -> Nat]
        /\ idx \in [Subscribers -> Nat]
    BY DEF Init, Places
  <2>5. topics = <<>> /\ fan = <<>>
    BY DEF Init
  <2>6. QED
    BY <2>1, <2>2, <2>3, <2>4, <2>5 DEF PartType
<1>2. \A s \in Subscribers : Loop(s)
  BY DEF Init, Loop, Clients
<1>3. mail[broker] = <<>> /\ Len(<<>>) = 0 /\ \A s \in Subscribers : pc[s] = "start"
  BY DEF Init, Receivers, Clients
<1>4. \A s \in Subscribers : \A k \in 1 .. Args(s) : Pair(s, k)
  BY <1>3 DEF Pair, Sent
<1>5. Origin /\ pc[broker] # "crashed"
  BY <1>3 DEF Origin, Init
<1>6. QED
  BY <1>1, <1>2, <1>4, <1>5 DEF SInv, Subscriptions

LEMMA SInvStep ==
  ASSUME SInv, [Next]_vars
  PROVE  SInv'
<1>1. CASE BReceive
  BY <1>1, ReceiveKeeps
<1>2. CASE \E p \in Publishers : PSend(p)
  BY <1>2, SendKeeps
<1>3. CASE \E s \in Subscribers : SSubscribe(s) \/ SUnsubscribe(s)
  BY <1>3, RequestKeeps
<1>4. CASE \/ BStart \/ AnotherBroker \/ BTest \/ BFanOut \/ BKill \/ BNextTopic \/ BRemoveQueue
           \/ \E p \in Publishers : PStart(p) \/ PTest(p) \/ PInput(p)
           \/ \E s \in Subscribers : SStart(s) \/ STest(s) \/ SReceive(s)
           \/ \E x \in {broker} \cup Clients : PressCtrlC(x)
           \/ UNCHANGED vars
  BY <1>4, QuietSteps, QuietKeeps
<1>5. QED
  BY <1>1, <1>2, <1>3, <1>4 DEF Next, BrokerStep, PublisherStep, SubscriberStep

\* What is unsubscribed has been subscribed before, and is unsubscribed once, as long as
\* nobody names a topic twice.
THEOREM SubscriptionsOrdered == Spec => []SInv
BY SInvInit, SInvStep, PTL DEF Spec

\* The broker never runs into the empty list in del_pid (main.c:83-84), unless a subscriber
\* was started with the same topic twice.
THEOREM NoCrash == Spec => []CrashNeedsRepeat
<1>1. SInv => CrashNeedsRepeat
  BY DEF SInv, Subscriptions, NoRepeats, CrashNeedsRepeat
<1>2. QED
  BY SubscriptionsOrdered, <1>1, PTL

-----------------------------------------------------------------------------
(* Types, and the count of the messages in the queue.                      *)

\* A publisher numbers its lines from 1.
Writing(p) ==
  /\ pc[p] = "start" => lines[p] = 0
  /\ pc[p] = "send" => lines[p] >= 1

\* While send_to_subscribers runs there is something it sends.
Loading == pc[broker] = "fanout" => load \in Payloads

TInv == TypeOK /\ IsFiniteSet(Waiting) /\ Loading /\ \A p \in Publishers : Writing(p)

QueueTyped ==
  /\ queue \in {"none", "up", "gone"}
  /\ DOMAIN mail = Receivers /\ mail[broker] \in Seq(Requests)
  /\ \A s \in Subscribers : mail[s] \in Seq(Payloads)
  /\ IsFiniteSet(Waiting) /\ qnum = Cardinality(Waiting) /\ qnum \in 0 .. limit

LEMMA Receiving == broker \in Receivers /\ broker \notin Subscribers /\ broker \notin Clients
                   /\ Subscribers \subseteq Receivers /\ \A r \in Receivers : r = broker \/ r \in Subscribers
BY BrokerAssumption DEF Receivers, Clients

LEMMA MailTyped ==
  ASSUME TypeOK, NEW r \in Receivers
  PROVE  /\ \E S : mail[r] \in Seq(S)
         /\ Len(mail[r]) \in Nat /\ DOMAIN mail[r] = 1 .. Len(mail[r])
<1>1. mail[r] \in Seq(Requests) \/ mail[r] \in Seq(Payloads)
  BY Receiving DEF TypeOK
<1>2. QED
  BY <1>1, LenProperties

LEMMA PutTyped ==
  ASSUME TInv, NEW r \in Receivers, NEW m, Put(r, m),
         r = broker => m \in Requests, r # broker => m \in Payloads
  PROVE  /\ DOMAIN mail' = Receivers /\ mail'[broker] \in Seq(Requests)
         /\ \A s \in Subscribers : mail'[s] \in Seq(Payloads)
         /\ IsFiniteSet(Waiting') /\ qnum' = Cardinality(Waiting') /\ qnum' \in 0 .. limit
<1>1. /\ TypeOK /\ IsFiniteSet(Waiting) /\ qnum = Cardinality(Waiting) /\ qnum \in Nat
      /\ DOMAIN mail = Receivers /\ limit \in Nat /\ qnum < limit /\ qnum' = qnum + 1
      /\ mail' = [mail EXCEPT ![r] = Append(mail[r], m)]
  BY BrokerAssumption DEF TInv, TypeOK, Put, Full
<1>2. PICK n \in Nat : n = Len(mail[r]) /\ DOMAIN mail[r] = 1 .. n
  BY <1>1, MailTyped
<1>3. /\ DOMAIN mail' = Receivers /\ mail'[r] = Append(mail[r], m)
      /\ \A x \in Receivers : x # r => mail'[x] = mail[x]
  BY <1>1
<1>4. DOMAIN mail'[r] = 1 .. n + 1
  <2>1. PICK S : mail[r] \in Seq(S)
    BY <1>1, MailTyped
  <2>2. mail[r] \in Seq(S \cup {m})
    <3>1. \A i \in 1 .. n : mail[r][i] \in S \cup {m}
      BY <1>2, <2>1, ElementOfSeq
    <3>2. mail[r] = [i \in 1 .. n |-> mail[r][i]]
      BY <1>2, <2>1
    <3>3. QED
      BY <3>1, <3>2, IsASeq
  <2>3. Len(Append(mail[r], m)) = n + 1 /\ Append(mail[r], m) \in Seq(S \cup {m})
    BY <1>2, <2>2, AppendProperties
  <2>4. QED
    BY <1>3, <2>3, LenProperties
<1>5. <<r, n + 1>> \notin Waiting
  BY <1>2 DEF Waiting
<1>6. Waiting' = Waiting \cup {<<r, n + 1>>}
  <2>1. \A i : i \in 1 .. n + 1 <=> i \in 1 .. n \/ i = n + 1
    BY <1>2
  <2>2. ASSUME NEW w PROVE w \in Waiting' <=> w \in Waiting \/ w = <<r, n + 1>>
    <3>1. w \in Waiting <=> \E x \in Receivers : \E i \in DOMAIN mail[x] : w = <<x, i>>
      BY DEF Waiting
    <3>2. w \in Waiting' <=> \E x \in Receivers : \E i \in DOMAIN mail'[x] : w = <<x, i>>
      BY DEF Waiting
    <3>3. QED
      BY <1>2, <1>3, <1>4, <2>1, <3>1, <3>2
  <2>3. QED
    BY <2>2
<1>7. IsFiniteSet(Waiting') /\ Cardinality(Waiting') = Cardinality(Waiting) + 1
  BY <1>1, <1>5, <1>6, FS_AddElement
<1>8. /\ mail'[broker] \in Seq(Requests)
      /\ \A s \in Subscribers : mail'[s] \in Seq(Payloads)
  <2>1. mail[broker] \in Seq(Requests) /\ \A s \in Subscribers : mail[s] \in Seq(Payloads)
    BY <1>1 DEF TypeOK
  <2>2. CASE r = broker
    BY <1>3, <2>1, <2>2, Receiving, AppendProperties
  <2>3. CASE r # broker
    BY <1>3, <2>1, <2>3, Receiving, AppendProperties, SMTT(40)
  <2>4. QED
    BY <2>2, <2>3
<1>9. QED
  BY <1>1, <1>3, <1>7, <1>8

LEMMA GetTyped ==
  ASSUME TInv, NEW r \in Receivers, Get(r)
  PROVE  /\ DOMAIN mail' = Receivers /\ mail'[broker] \in Seq(Requests)
         /\ \A s \in Subscribers : mail'[s] \in Seq(Payloads)
         /\ IsFiniteSet(Waiting') /\ qnum' = Cardinality(Waiting') /\ qnum' \in 0 .. limit
<1>1. /\ TypeOK /\ IsFiniteSet(Waiting) /\ qnum = Cardinality(Waiting) /\ qnum \in Nat
      /\ DOMAIN mail = Receivers /\ limit \in Nat /\ qnum <= limit /\ qnum' = qnum - 1
      /\ mail[r] # <<>> /\ mail' = [mail EXCEPT ![r] = Tail(mail[r])]
  BY BrokerAssumption DEF TInv, TypeOK, Get
<1>2. PICK n \in Nat : n = Len(mail[r]) /\ DOMAIN mail[r] = 1 .. n
  BY <1>1, MailTyped
<1>3. /\ DOMAIN mail' = Receivers /\ mail'[r] = Tail(mail[r])
      /\ \A x \in Receivers : x # r => mail'[x] = mail[x]
  BY <1>1
<1>4. DOMAIN mail'[r] = 1 .. n - 1 /\ n >= 1
  <2>1. PICK S : mail[r] \in Seq(S)
    BY <1>1, MailTyped
  <2>2. n # 0
    BY <1>1, <1>2, <2>1, EmptySeq
  <2>3. Len(Tail(mail[r])) = n - 1 /\ Tail(mail[r]) \in Seq(S)
    BY <1>1, <1>2, <2>1, HeadTailProperties
  <2>4. QED
    BY <1>2, <1>3, <2>2, <2>3, LenProperties
<1>5. <<r, n>> \in Waiting
  BY <1>2, <1>4 DEF Waiting
<1>6. Waiting' = Waiting \ {<<r, n>>}
  <2>1. \A i : i \in 1 .. n - 1 <=> i \in 1 .. n /\ i # n
    BY <1>2, <1>4
  <2>2. ASSUME NEW w PROVE w \in Waiting' <=> w \in Waiting /\ w # <<r, n>>
    <3>1. w \in Waiting <=> \E x \in Receivers : \E i \in DOMAIN mail[x] : w = <<x, i>>
      BY DEF Waiting
    <3>2. w \in Waiting' <=> \E x \in Receivers : \E i \in DOMAIN mail'[x] : w = <<x, i>>
      BY DEF Waiting
    <3>3. QED
      BY <1>2, <1>3, <1>4, <2>1, <3>1, <3>2
  <2>3. QED
    BY <2>2
<1>7. IsFiniteSet(Waiting') /\ Cardinality(Waiting') = Cardinality(Waiting) - 1 /\ Cardinality(Waiting') \in Nat
  BY <1>1, <1>5, <1>6, FS_RemoveElement, FS_CardinalityType
<1>8. /\ mail'[broker] \in Seq(Requests)
      /\ \A s \in Subscribers : mail'[s] \in Seq(Payloads)
  <2>1. mail[broker] \in Seq(Requests) /\ \A s \in Subscribers : mail[s] \in Seq(Payloads)
    BY <1>1 DEF TypeOK
  <2>2. CASE r = broker
    BY <1>1, <1>3, <2>1, <2>2, Receiving, HeadTailProperties
  <2>3. CASE r # broker
    BY <1>1, <1>3, <2>1, <2>3, Receiving, HeadTailProperties
  <2>4. QED
    BY <2>2, <2>3
<1>9. QED
  BY <1>1, <1>3, <1>7, <1>8

\* The queue: one message more, one less, as before, or nothing left of it.
LEMMA QueueStep ==
  ASSUME SInv, TInv, [Next]_vars
  PROVE  QueueTyped'
<1>1. /\ TypeOK /\ IsFiniteSet(Waiting) /\ DOMAIN mail = Receivers /\ queue \in {"none", "up", "gone"}
      /\ mail[broker] \in Seq(Requests) /\ \A s \in Subscribers : mail[s] \in Seq(Payloads)
      /\ qnum = Cardinality(Waiting) /\ qnum \in 0 .. limit /\ limit \in Nat
  BY BrokerAssumption DEF SInv, TInv, TypeOK
<1>0. limit' = limit
  <2>1. UNCHANGED setting
    BY DEF Next, vars, BStart, AnotherBroker, BrokerStep, BTest, BReceive, BFanOut, BKill, BNextTopic,
           BRemoveQueue, PStart, PInput, PublisherStep, PTest, PSend, SStart, SubscriberStep,
           SSubscribe, SUnsubscribe, Request, STest, SReceive, PressCtrlC
  <2>2. QED
    BY <2>1 DEF setting
<1>2. CASE UNCHANGED <<mail, qnum>> /\ queue' \in {queue, "up"}
  BY <1>0, <1>1, <1>2 DEF Waiting, QueueTyped
<1>3. ASSUME NEW r \in Receivers, Get(r) PROVE QueueTyped'
  BY <1>0, <1>1, <1>3, GetTyped DEF Get, QueueTyped, TInv
<1>4. ASSUME NEW r \in Receivers, NEW m, Put(r, m), r = broker => m \in Requests,
             r # broker => m \in Payloads
      PROVE  QueueTyped'
  BY <1>0, <1>1, <1>4, PutTyped DEF Put, QueueTyped
<1>5. CASE BRemoveQueue
  <2>1. mail' = [r \in Receivers |-> <<>>] /\ qnum' = 0 /\ queue' = "gone"
    BY <1>5 DEF BRemoveQueue
  <2>2. Waiting' = {}
    BY <2>1 DEF Waiting
  <2>3. <<>> \in Seq(Requests) /\ <<>> \in Seq(Payloads)
    OBVIOUS
  <2>4. QED
    BY <1>0, <1>1, <2>1, <2>2, <2>3, Receiving, FS_EmptySet DEF QueueTyped
<1>6. CASE BReceive
  BY <1>3, <1>6, Receiving DEF BReceive
<1>7. CASE BFanOut
  <2>1. CASE Put(Head(fan), load) /\ fan # <<>>
    <3>1. Head(fan) \in Subscribers
      BY <2>1, HeadTailProperties DEF SInv, PartType
    <3>2. load \in Payloads
      BY <1>7 DEF BFanOut, TInv, Loading
    <3>3. QED
      BY <1>4, <2>1, <3>1, <3>2, Receiving
  <2>2. CASE UNCHANGED system
    BY <1>2, <2>2 DEF system
  <2>3. QED
    BY <1>7, <2>1, <2>2 DEF BFanOut
<1>8. ASSUME NEW p \in Publishers, PSend(p) PROVE QueueTyped'
  <2>1. [cmd |-> "send", from |-> p, topic |-> PubTopic[p], num |-> lines[p]] \in Requests
    <3>1. lines[p] \in Nat /\ PubTopic[p] \in Topics /\ lines[p] >= 1
      BY <1>1, <1>8, BrokerAssumption DEF TypeOK, TInv, Writing, PSend
    <3>2. QED
      BY <3>1 DEF Requests
  <2>2. QED
    BY <1>2, <1>4, <1>8, <2>1, Receiving DEF PSend, system
<1>9. ASSUME NEW s \in Subscribers, SSubscribe(s) \/ SUnsubscribe(s) PROVE QueueTyped'
  <2>1. subTopics[s][idx[s]] \in Topics
    <3>1. idx[s] \in 1 .. Len(subTopics[s])
      BY <1>9 DEF SInv, Loop, SSubscribe, SUnsubscribe, Args
    <3>2. subTopics[s] \in Seq(Topics)
      BY DEF SInv, PartType
    <3>3. QED
      BY <3>1, <3>2, ElementOfSeq
  <2>2. \A cmd \in {"subscribe", "unsubscribe"} :
          [cmd |-> cmd, from |-> s, topic |-> subTopics[s][idx[s]], num |-> 0] \in Requests
    BY <2>1 DEF Requests
  <2>3. PICK cmd \in {"subscribe", "unsubscribe"} : \E after : Request(s, cmd, after)
    BY <1>9 DEF SSubscribe, SUnsubscribe
  <2>4. QED
    BY <1>2, <1>4, <2>2, <2>3, Receiving DEF Request, system
<1>10. ASSUME NEW s \in Subscribers, SReceive(s) PROVE QueueTyped'
  BY <1>2, <1>3, <1>10, Receiving DEF SReceive, system
<1>11. CASE BStart
  BY <1>2, <1>11 DEF BStart
<1>12. CASE \/ AnotherBroker \/ BTest \/ BKill \/ BNextTopic \/ UNCHANGED vars
            \/ \E p \in Publishers : PStart(p) \/ PTest(p) \/ PInput(p)
            \/ \E s \in Subscribers : SStart(s) \/ STest(s)
            \/ \E x \in {broker} \cup Clients : PressCtrlC(x)
  <2>1. UNCHANGED system
    BY <1>12 DEF AnotherBroker, BTest, BKill, BNextTopic, vars, PStart, PTest, PInput, SStart, STest,
                 PressCtrlC
  <2>2. QED
    BY <1>2, <2>1 DEF system
<1>13. QED
  BY <1>5, <1>6, <1>7, <1>8, <1>9, <1>10, <1>11, <1>12
     DEF Next, BrokerStep, PublisherStep, SubscriberStep

\* The part of TypeOK that the subscriptions and the queue say nothing about.
Rest ==
  /\ got \in [Subscribers -> Seq(Payloads)]
  /\ flag \in [{broker} \cup Clients -> BOOLEAN]
  /\ pubs \in Seq(Publishers) /\ kills \in Seq(Clients)
  /\ load \in Payloads \cup {NoLoad} /\ Loading
  /\ \A s \in Subscribers : idx[s] \in 1 .. Args(s) + 1
  /\ subTopics \in CommandLines /\ limit \in Limits
  /\ presses \in [{broker} \cup Clients -> Nat] /\ refused \in 0 .. MaxRivals
  /\ \A p \in Publishers : Writing(p)

LEMMA TypeParts == TInv /\ SInv => QueueTyped /\ Rest
BY DEF TInv, TypeOK, QueueTyped, Rest

LEMMA TypeWhole ==
  ASSUME PartType, QueueTyped, Rest
  PROVE  TInv
<1>1. topics \in Seq([name : Topics, pids : Seq(Subscribers)])
  BY DEF PartType, Nodes
<1>2. QED
  BY <1>1 DEF PartType, QueueTyped, Rest, TInv, TypeOK

LEMMA SameRest ==
  ASSUME Rest, UNCHANGED <<setting, got, flag, pubs, kills, load, idx, userVars>>,
         Loading', \A p \in Publishers : Writing(p)'
  PROVE  Rest'
BY DEF Rest, setting, userVars, Args

\* A place that a publisher, or another process, goes to.
LEMMA WritingKept ==
  ASSUME PartType, Rest, NEW x \in {broker} \cup Clients, NEW place, Go(x, place) \/ pc' = pc,
         lines' = lines, place # "start", x \in Publishers /\ place = "send" => pc[x] = "send"
  PROVE  \A p \in Publishers : Writing(p)'
<1>1. pc \in [{broker} \cup Clients -> Places]
  BY DEF PartType
<1>2. ASSUME NEW p \in Publishers PROVE Writing(p)'
  <2>1. Writing(p) /\ p \in {broker} \cup Clients
    BY DEF Rest, Clients
  <2>2. pc'[p] = pc[p] \/ (p = x /\ pc'[p] = place)
    BY <1>1, <2>1 DEF Go
  <2>3. QED
    BY <2>1, <2>2 DEF Writing
<1>3. QED
  BY <1>2

LEMMA LoadingKept ==
  ASSUME PartType, Rest, NEW x \in {broker} \cup Clients, NEW place, Go(x, place) \/ pc' = pc,
         load' = load, x = broker => place # "fanout"
  PROVE  Loading'
<1>1. pc \in [{broker} \cup Clients -> Places] /\ Loading
  BY DEF PartType, Rest
<1>2. pc'[broker] = "fanout" => pc[broker] = "fanout"
  BY <1>1 DEF Go
<1>3. QED
  BY <1>1, <1>2 DEF Loading

\* What a signal changes.
LEMMA SignalledRest ==
  ASSUME PartType, Rest, NEW x \in {broker} \cup Clients,
         flag' = [flag EXCEPT ![x] = TRUE], Go(x, Interrupted(x)) \/ pc' = pc,
         UNCHANGED <<setting, got, load, idx, lines, refused>>,
         pubs' \in Seq(Publishers), kills' \in Seq(Clients),
         presses' \in [{broker} \cup Clients -> Nat]
  PROVE  Rest'
<1>1. flag' \in [{broker} \cup Clients -> BOOLEAN]
  BY DEF Rest
<1>2. CASE pc' = pc
  <2>1. Loading' /\ \A p \in Publishers : Writing(p)'
    BY <1>2 DEF Rest, Loading, Writing
  <2>2. QED
    BY <1>1, <2>1 DEF Rest, setting, Args
<1>3. CASE Go(x, Interrupted(x)) /\ Interrupted(x) # pc[x]
  <2>1. PICK place : place = Interrupted(x)
    OBVIOUS
  <2>2. place \in {"kill", "exited", "unsubscribe"}
    BY <1>3, <2>1 DEF Interrupted, AfterLoop
  <2>3. Go(x, place)
    BY <1>3, <2>1
  <2>4. Loading' /\ \A p \in Publishers : Writing(p)'
    BY <2>2, <2>3, LoadingKept, WritingKept
  <2>5. QED
    BY <1>1, <2>4 DEF Rest, setting, Args
<1>4. CASE Go(x, Interrupted(x)) /\ Interrupted(x) = pc[x]
  <2>1. pc' = pc
    BY <1>4 DEF Go, PartType
  <2>2. QED
    BY <1>2, <2>1
<1>5. QED
  BY <1>2, <1>3, <1>4

LEMMA ListsTyped ==
  ASSUME PartType, Rest
  PROVE  /\ pubs \in Seq(Clients) /\ <<>> \in Seq(Publishers)
         /\ kills # <<>> => Tail(kills) \in Seq(Clients) /\ Head(kills) \in Clients
         /\ topics # <<>> => Head(topics).pids \in Seq(Clients)
<1>1. pubs \in Seq(Publishers) /\ kills \in Seq(Clients) /\ topics \in Seq(Nodes)
  BY DEF PartType, Rest
<1>2. Publishers \subseteq Clients /\ Subscribers \subseteq Clients
  BY DEF Clients
<1>3. \A q \in Seq(Publishers) : q \in Seq(Clients)
  BY <1>2
<1>4. \A q \in Seq(Subscribers) : q \in Seq(Clients)
  BY <1>2
<1>5. topics # <<>> => Head(topics) \in Nodes
  BY <1>1, HeadTailProperties
<1>6. topics # <<>> => Head(topics).pids \in Seq(Subscribers)
  BY <1>5 DEF Nodes
<1>7. QED
  BY <1>1, <1>3, <1>4, <1>6, HeadTailProperties

LEMMA RestStep ==
  ASSUME SInv, TInv, [Next]_vars
  PROVE  Rest'
<1>0. /\ PartType /\ Rest /\ QueueTyped /\ broker \notin Clients /\ broker \in {broker} \cup Clients
      /\ pc \in [{broker} \cup Clients -> Places]
      /\ \A p \in Publishers : p \in {broker} \cup Clients /\ p # broker
      /\ \A s \in Subscribers : s \in {broker} \cup Clients /\ s # broker /\ s \notin Publishers
  BY TypeParts, BrokerAssumption DEF SInv, PartType, Clients
<1>1. CASE BStart
  <2>1. Go(broker, "test") /\ UNCHANGED <<setting, got, flag, pubs, kills, load, idx, userVars, lines>>
    BY <1>1 DEF BStart, brokerVars
  <2>2. QED
    BY <1>0, <2>1, SameRest, LoadingKept, WritingKept
<1>2. CASE AnotherBroker
  <2>1. Loading' /\ \A p \in Publishers : Writing(p)'
    BY <1>0, <1>2 DEF AnotherBroker, Rest, Loading, Writing, brokerVars
  <2>2. refused' \in 0 .. MaxRivals
    <3>1. MaxRivals \in Nat
      BY BrokerAssumption
    <3>2. QED
      BY <1>0, <1>2, <3>1 DEF AnotherBroker, Rest
  <2>3. QED
    BY <1>0, <1>2, <2>1, <2>2 DEF AnotherBroker, Rest, setting, brokerVars, Args
<1>3. CASE BTest
  <2>1. /\ UNCHANGED <<setting, got, flag, load, idx, userVars, lines>>
        /\ Go(broker, "recv") \/ Go(broker, "kill")
        /\ UNCHANGED <<pubs, kills>> \/ (kills' = pubs /\ pubs' = <<>>)
    BY <1>3 DEF BTest, StartShutdown
  <2>2. Loading' /\ \A p \in Publishers : Writing(p)'
    BY <1>0, <2>1, LoadingKept, WritingKept
  <2>3. pubs' \in Seq(Publishers) /\ kills' \in Seq(Clients)
    BY <1>0, <2>1, ListsTyped DEF Rest
  <2>4. QED
    BY <1>0, <2>1, <2>2, <2>3 DEF Rest, setting, userVars, Args
<1>4. CASE BReceive
  <2>1. PICK m : m = Head(mail[broker])
    OBVIOUS
  <2>2. m \in Requests
    BY <1>0, <1>4, <2>1, HeadTailProperties DEF QueueTyped, BReceive, Get
  <2>3. /\ UNCHANGED <<setting, got, flag, kills, idx, userVars, lines>>
        /\ HandleSubscribe(m) \/ HandleUnsubscribe(m) \/ HandleSend(m)
    BY <1>4, <2>1 DEF BReceive
  <2>4. CASE UNCHANGED <<pubs, load>> /\ (Go(broker, "test") \/ Go(broker, "crashed"))
    BY <1>0, <2>3, <2>4, SameRest, LoadingKept, WritingKept
  <2>5. CASE HandleSend(m)
    <3>1. m.from \in Publishers /\ m.num \in Nat \ {0} /\ pubs \in Seq(Publishers)
      BY <1>0, <2>2, <2>5 DEF HandleSend, Requests, Rest
    <3>2. pubs' \in Seq(Publishers)
      BY <2>5, <3>1, AddPidAdds DEF HandleSend
    <3>3. load' \in Payloads
      BY <2>5, <3>1 DEF HandleSend, Payloads
    <3>4. Go(broker, "fanout")
      BY <2>5 DEF HandleSend
    <3>5. \A p \in Publishers : Writing(p)'
      BY <1>0, <2>3, <3>4, WritingKept
    <3>6. QED
      BY <1>0, <2>3, <3>2, <3>3, <3>5 DEF Rest, setting, userVars, Args, Loading
  <2>6. QED
    BY <2>3, <2>4, <2>5 DEF HandleSubscribe, HandleUnsubscribe
<1>5. CASE BFanOut
  <2>1. UNCHANGED <<setting, got, flag, pubs, kills, idx, userVars, lines>>
    BY <1>5 DEF BFanOut
  <2>2. CASE UNCHANGED <<pc, load>>
    <3>1. Loading' /\ \A p \in Publishers : Writing(p)'
      BY <1>0, <2>1, <2>2 DEF Rest, Loading, Writing
    <3>2. QED
      BY <1>0, <2>1, <2>2, <3>1, SameRest
  <2>3. CASE load' = NoLoad /\ Go(broker, "test")
    <3>1. Loading'
      BY <1>0, <2>3 DEF Go, Loading
    <3>2. \A p \in Publishers : Writing(p)'
      BY <1>0, <2>1, <2>3, WritingKept
    <3>3. load' \in Payloads \cup {NoLoad}
      BY <2>3 DEF NoLoad
    <3>4. QED
      BY <1>0, <2>1, <3>1, <3>2, <3>3 DEF Rest, setting, userVars, Args
  <2>4. QED
    BY <1>5, <2>2, <2>3 DEF BFanOut
<1>6. CASE BKill
  <2>1. /\ UNCHANGED <<setting, got, load, idx, userVars, lines, pubs>> /\ kills # <<>>
        /\ kills' = Tail(kills)
    BY <1>6 DEF BKill
  <2>2. PICK x : x = Head(kills)
    OBVIOUS
  <2>3. x \in Clients /\ kills' \in Seq(Clients) /\ pubs' \in Seq(Publishers)
    BY <1>0, <2>1, <2>2, ListsTyped DEF Rest
  <2>4. \/ UNCHANGED <<flag, pc>>
        \/ flag' = [flag EXCEPT ![x] = TRUE] /\ (pc' = pc \/ Go(x, Interrupted(x)))
    BY <1>6, <2>2 DEF BKill
  <2>5. CASE UNCHANGED <<flag, pc>>
    BY <1>0, <2>1, <2>3, <2>5 DEF Rest, setting, userVars, Args, Loading, Writing
  <2>6. CASE flag' = [flag EXCEPT ![x] = TRUE] /\ (pc' = pc \/ Go(x, Interrupted(x)))
    <3>1. presses' \in [{broker} \cup Clients -> Nat] /\ refused' = refused
      BY <1>0, <2>1 DEF Rest, userVars
    <3>2. QED
      BY <1>0, <2>1, <2>3, <2>6, <3>1, SignalledRest
  <2>7. QED
    BY <2>4, <2>5, <2>6
<1>7. CASE BNextTopic
  <2>1. /\ UNCHANGED <<setting, got, flag, pubs, load, idx, userVars, lines, pc>> /\ topics # <<>>
        /\ kills' = Head(topics).pids
    BY <1>7 DEF BNextTopic
  <2>2. kills' \in Seq(Clients)
    BY <1>0, <2>1, ListsTyped
  <2>3. QED
    BY <1>0, <2>1, <2>2 DEF Rest, setting, userVars, Args, Loading, Writing
<1>8. CASE BRemoveQueue
  <2>1. Go(broker, "exited") /\ UNCHANGED <<setting, got, flag, pubs, kills, load, idx, userVars, lines>>
    BY <1>8 DEF BRemoveQueue, brokerVars
  <2>2. QED
    BY <1>0, <2>1, SameRest, LoadingKept, WritingKept
<1>9. ASSUME NEW p \in Publishers, PStart(p) \/ PTest(p) \/ PSend(p) PROVE Rest'
  <2>1. UNCHANGED <<setting, got, flag, pubs, kills, load, idx, userVars, lines>>
    BY <1>9 DEF PStart, PTest, PSend, brokerVars
  <2>2. Go(p, "test") \/ Go(p, "exited") \/ Go(p, "fgets")
    BY <1>9 DEF PStart, PTest, PSend
  <2>3. QED
    BY <1>0, <2>1, <2>2, SameRest, LoadingKept, WritingKept
<1>10. ASSUME NEW p \in Publishers, PInput(p) PROVE Rest'
  <2>1. UNCHANGED <<setting, got, flag, pubs, kills, load, idx, userVars>>
    BY <1>10 DEF PInput, brokerVars
  <2>2. CASE lines' = [lines EXCEPT ![p] = @ + 1] /\ Go(p, "send")
    <3>1. lines \in [Publishers -> Nat]
      BY <1>0 DEF PartType
    <3>2. Loading'
      BY <1>0, <2>1, <2>2, LoadingKept
    <3>3. pc'[p] = "send" /\ \A q \in Publishers : q # p => pc'[q] = pc[q] /\ lines'[q] = lines[q]
      BY <1>0, <2>2, <3>1 DEF Go
    <3>4. lines'[p] >= 1
      BY <2>2, <3>1
    <3>5. \A q \in Publishers : Writing(q)'
      BY <1>0, <3>3, <3>4 DEF Rest, Writing
    <3>6. QED
      BY <1>0, <2>1, <3>2, <3>5, SameRest
  <2>3. CASE lines' = lines /\ (Go(p, "test") \/ Go(p, "exited"))
    BY <1>0, <2>1, <2>3, SameRest, LoadingKept, WritingKept
  <2>4. QED
    BY <1>10, <2>2, <2>3 DEF PInput
<1>11. ASSUME NEW s \in Subscribers, SStart(s) \/ STest(s) PROVE Rest'
  <2>1. UNCHANGED <<setting, got, flag, pubs, kills, load, idx, userVars, lines>>
    BY <1>11 DEF SStart, STest, brokerVars
  <2>2. PICK place \in {"exited", "test", "subscribe", "recv", "unsubscribe"} : Go(s, place)
    BY <1>11 DEF SStart, STest, AfterLoop
  <2>3. QED
    BY <1>0, <2>1, <2>2, SameRest, LoadingKept, WritingKept
<1>12. ASSUME NEW s \in Subscribers, SSubscribe(s) \/ SUnsubscribe(s) PROVE Rest'
  <2>1. PICK cmd \in {"subscribe", "unsubscribe"}, after \in {"test", "exited"} :
          Request(s, cmd, after)
    BY <1>12 DEF SSubscribe, SUnsubscribe
  <2>2. UNCHANGED <<setting, got, flag, pubs, kills, load, userVars, lines>>
    BY <2>1 DEF Request, brokerVars
  <2>3. Go(s, after) \/ pc' = pc \/ Go(s, "exited")
    BY <2>1 DEF Request
  <2>4. Loading' /\ \A p \in Publishers : Writing(p)'
    BY <1>0, <2>2, <2>3, LoadingKept, WritingKept
  <2>5. \A r \in Subscribers : idx'[r] \in 1 .. Args(r) + 1
    <3>1. idx \in [Subscribers -> Nat] /\ idx[s] \in 1 .. Args(s) /\ Args(s) \in Nat
      BY <1>0, <1>12, ArgsNat DEF SInv, PartType, Loop, SSubscribe, SUnsubscribe
    <3>2. \A r \in Subscribers : r # s => idx'[r] = idx[r]
      BY <2>1, <3>1 DEF Request
    <3>3. idx'[s] \in {1, idx[s], idx[s] + 1}
      BY <2>1, <3>1 DEF Request
    <3>4. idx'[s] \in 1 .. Args(s) + 1
      BY <3>1, <3>3
    <3>5. QED
      BY <1>0, <3>2, <3>4 DEF Rest
  <2>6. QED
    BY <1>0, <2>2, <2>4, <2>5 DEF Rest, setting, userVars, Args
<1>13. ASSUME NEW s \in Subscribers, SReceive(s) PROVE Rest'
  <2>1. UNCHANGED <<setting, flag, pubs, kills, load, idx, userVars, lines>>
    BY <1>13 DEF SReceive, brokerVars
  <2>2. PICK place \in {"test", "exited", "unsubscribe"} : Go(s, place)
    BY <1>13 DEF SReceive, AfterLoop
  <2>3. Loading' /\ \A p \in Publishers : Writing(p)'
    BY <1>0, <2>1, <2>2, LoadingKept, WritingKept
  <2>4. got' \in [Subscribers -> Seq(Payloads)]
    <3>1. CASE got' = got
      BY <1>0, <3>1 DEF Rest
    <3>2. CASE Get(s) /\ got' = [got EXCEPT ![s] = Append(@, Head(mail[s]))]
      <4>1. Head(mail[s]) \in Payloads
        BY <1>0, <3>2, HeadTailProperties DEF QueueTyped, Get
      <4>2. got[s] \in Seq(Payloads) /\ got \in [Subscribers -> Seq(Payloads)]
        BY <1>0 DEF Rest
      <4>3. Append(got[s], Head(mail[s])) \in Seq(Payloads)
        BY <4>1, <4>2, AppendProperties
      <4>4. QED
        BY <3>2, <4>2, <4>3
    <3>3. QED
      BY <1>13, <3>1, <3>2 DEF SReceive
  <2>5. QED
    BY <1>0, <2>1, <2>3, <2>4 DEF Rest, setting, userVars, Args
<1>14. ASSUME NEW x \in {broker} \cup Clients, PressCtrlC(x) PROVE Rest'
  <2>1. /\ UNCHANGED <<setting, got, load, idx, lines, refused>>
        /\ presses' = [presses EXCEPT ![x] = @ + 1] /\ Signal(x)
    BY <1>14 DEF PressCtrlC
  <2>2. presses' \in [{broker} \cup Clients -> Nat]
    BY <1>0, <2>1 DEF Rest
  <2>3. pubs' \in Seq(Publishers) /\ kills' \in Seq(Clients)
    <3>1. UNCHANGED <<pubs, kills>> \/ (kills' = pubs /\ pubs' = <<>>)
      BY <2>1 DEF Signal, StartShutdown
    <3>2. QED
      BY <1>0, <3>1, ListsTyped DEF Rest
  <2>4. flag' = [flag EXCEPT ![x] = TRUE] /\ (Go(x, Interrupted(x)) \/ pc' = pc)
    BY <2>1 DEF Signal
  <2>5. QED
    BY <1>0, <2>1, <2>2, <2>3, <2>4, SignalledRest
<1>15. CASE UNCHANGED vars
  BY <1>0, <1>15 DEF vars, Rest, setting, brokerVars, userVars, Args, Loading, Writing
<1>16. QED
  BY <1>1, <1>2, <1>3, <1>4, <1>5, <1>6, <1>7, <1>8, <1>9, <1>10, <1>11, <1>12, <1>13, <1>14, <1>15
     DEF Next, BrokerStep, PublisherStep, SubscriberStep

LEMMA TInvInit == Init => TInv
<1> SUFFICES ASSUME Init PROVE TInv
  OBVIOUS
<1>1. PartType
  BY SInvInit DEF SInv
<1>2. QueueTyped
  <2>1. mail = [r \in Receivers |-> <<>>] /\ qnum = 0 /\ queue = "none"
    BY DEF Init
  <2>2. Waiting = {}
    BY <2>1 DEF Waiting
  <2>3. <<>> \in Seq(Requests) /\ <<>> \in Seq(Payloads)
    OBVIOUS
  <2>4. limit \in Nat
    BY BrokerAssumption DEF Init
  <2>5. QED
    BY <2>1, <2>2, <2>3, <2>4, Receiving, FS_EmptySet DEF QueueTyped
<1>3. Rest
  <2>1. <<>> \in Seq(Payloads) /\ <<>> \in Seq(Publishers) /\ <<>> \in Seq(Clients)
    OBVIOUS
  <2>2. pc[broker] # "fanout" /\ \A p \in Publishers : pc[p] = "start" /\ lines[p] = 0
    BY DEF Init, Clients
  <2>3. \A s \in Subscribers : idx[s] \in 1 .. Args(s) + 1
    <3>1. \A s \in Subscribers : idx[s] = 1 /\ Args(s) \in Nat
      BY <1>1, ArgsNat DEF Init
    <3>2. QED
      BY <3>1
  <2>4. refused \in 0 .. MaxRivals
    BY BrokerAssumption DEF Init
  <2>5. QED
    BY <2>1, <2>2, <2>3, <2>4 DEF Init, Rest, Loading, Writing
<1>4. QED
  BY <1>1, <1>2, <1>3, TypeWhole

LEMMA TInvStep ==
  ASSUME SInv, TInv, [Next]_vars
  PROVE  SInv' /\ TInv'
<1>1. SInv'
  BY SInvStep
<1>2. PartType' /\ QueueTyped' /\ Rest'
  BY <1>1, QueueStep, RestStep DEF SInv
<1>3. (PartType /\ QueueTyped /\ Rest => TInv)'
  BY TypeWhole, PTL
<1>4. QED
  BY <1>1, <1>2, <1>3

\* Types, and the count of the messages in the queue, hold whatever is sent, read, lost to
\* a signal or removed with the queue.
THEOREM TypeCorrect == Spec => []TypeOK
<1>1. Init => SInv /\ TInv
  BY SInvInit, TInvInit
<1>2. SInv /\ TInv /\ [Next]_vars => SInv' /\ TInv'
  BY TInvStep
<1>3. TInv => TypeOK
  BY DEF TInv
<1>4. QED
  BY <1>1, <1>2, <1>3, PTL DEF Spec

-----------------------------------------------------------------------------
(* The payloads of one publisher, from its keyboard to a subscriber.       *)

Box == mail[broker]
Sends(p) == {i \in 1 .. Len(Box) : Box[i].cmd = "send" /\ Box[i].from = p}
InBox(p) == {Box[i].num : i \in Sends(p)}
LastSent(p) == IF pc[p] = "send" THEN lines[p] - 1 ELSE lines[p]
Serves(p) == pc[broker] = "fanout" /\ load.pub = p
UnderWay(p) == InBox(p) \cup {n \in {load.num} : Serves(p)}
Awaits(s, p) == InBox(p) \cup {n \in {load.num} : Serves(p) /\ Contains(fan, s)}
Heard(s, p) == {Stream(s)[i].num : i \in {j \in 1 .. Len(Stream(s)) : Stream(s)[j].pub = p}}

Lines(p) ==
  /\ \A i \in Sends(p) : Box[i].topic = PubTopic[p]
  /\ \A i, j \in Sends(p) : i < j => Box[i].num < Box[j].num
  /\ Serves(p) => \A n \in InBox(p) : load.num < n
  /\ \A n \in UnderWay(p) : n \in 1 .. LastSent(p)
  /\ \A m, n \in UnderWay(p) : m < n => n - 1 \in UnderWay(p)
  /\ pc[p] # "exited" /\ UnderWay(p) # {} => LastSent(p) \in UnderWay(p)

Distinct(q) == \A a, b \in 1 .. Len(q) : q[a] = q[b] => a = b
Lists ==
  /\ \A i \in 1 .. Len(topics) : Distinct(topics[i].pids)
  /\ \A s \in Subscribers, t \in Topics : Known(s, t) => Contains(subTopics[s], t)
  /\ \A i \in 1 .. Len(Box) :
       Box[i].cmd # "send" => Contains(subTopics[Box[i].from], Box[i].topic)
  /\ pc[broker] = "fanout" =>
       Distinct(fan) /\ \A s \in Subscribers : Contains(fan, s) => Known(s, PubTopic[load.pub])
Leaves(s) == pc[s] \in {"unsubscribe", "exited"}
Leave(s) ==
  /\ \A i \in 1 .. Len(Box) : Box[i].cmd = "unsubscribe" /\ Box[i].from = s =>
       Leaves(s) /\ \A j \in i .. Len(Box) : ~(Box[j].cmd = "subscribe" /\ Box[j].from = s)
  /\ \A p \in Publishers : Heard(s, p) # {} /\ ~Known(s, PubTopic[p]) =>
       Leaves(s) /\ \A j \in 1 .. Len(Box) : ~(Box[j].cmd = "subscribe" /\ Box[j].from = s)

Follows(s, p) ==
  /\ \A h \in Heard(s, p) :
       h <= LastSent(p) /\ (\A n \in Awaits(s, p) : h < n) /\ (Serves(p) => h <= load.num)
  /\ presses[broker] = 0 /\ Heard(s, p) # {} /\ Known(s, PubTopic[p]) =>
       /\ \A n \in Awaits(s, p) : n - 1 \in Heard(s, p) \cup Awaits(s, p)
       /\ pc[p] # "exited" => LastSent(p) \in Heard(s, p) \cup Awaits(s, p)

Streams ==
  /\ OrderedOnce /\ Gapless
  /\ pc[broker] \in Serving =>
       /\ Lists
       /\ \A p \in Publishers : Lines(p)
       /\ \A s \in Subscribers : Leave(s) /\ \A p \in Publishers : Follows(s, p)

NumbersNat(p) ==
  /\ InBox(p) \subseteq Nat /\ UnderWay(p) \subseteq Nat /\ LastSent(p) \in Int
  /\ InBox(p) \subseteq UnderWay(p)
  /\ \A s : InBox(p) \subseteq Awaits(s, p) /\ Awaits(s, p) \subseteq UnderWay(p)

LEMMA Numbers ==
  ASSUME TInv, NEW p \in Publishers
  PROVE  NumbersNat(p)
<1>1. Box \in Seq(Requests) /\ lines[p] \in Nat
  BY DEF TInv, TypeOK, Box
<1>2. \A i \in 1 .. Len(Box) : Box[i].num \in Nat
  <2>1. \A i \in 1 .. Len(Box) : Box[i] \in Requests
    BY <1>1, ElementOfSeq
  <2>2. \A r \in Requests : r.num \in Nat
    BY DEF Requests
  <2>3. QED
    BY <2>1, <2>2
<1>3. Serves(p) => load.num \in Nat
  BY DEF TInv, Loading, Serves, Payloads
<1>4. InBox(p) \subseteq Nat
  BY <1>2 DEF InBox, Sends
<1>5. UnderWay(p) \subseteq Nat
  BY <1>3, <1>4 DEF UnderWay
<1>6. QED
  BY <1>1, <1>4, <1>5 DEF NumbersNat, UnderWay, Awaits, LastSent

LEMMA BoxGrows ==
  ASSUME TInv, NEW m \in Requests, mail'[broker] = Append(mail[broker], m)
  PROVE  \E k \in Nat :
           /\ k = Len(Box) /\ Len(Box') = k + 1 /\ Box'[k + 1] = m
           /\ \A i \in 1 .. k : Box'[i] = Box[i] /\ Box[i] \in Requests
           /\ \A p : Sends(p)' = Sends(p) \cup {i \in {k + 1} : m.cmd = "send" /\ m.from = p}
           /\ \A p : InBox(p)' = InBox(p) \cup {n \in {m.num} : m.cmd = "send" /\ m.from = p}
<1>1. Box \in Seq(Requests) /\ Box' = Append(Box, m)
  BY DEF TInv, TypeOK, Box
<1>2. PICK k \in Nat : k = Len(Box)
  BY <1>1, LenProperties
<1>3. Len(Box') = k + 1 /\ Box'[k + 1] = m /\ \A i \in 1 .. k : Box'[i] = Box[i]
  BY <1>1, <1>2, AppendProperties
<1>4. \A i \in 1 .. k : Box[i] \in Requests
  BY <1>1, <1>2, ElementOfSeq
<1>5. \A i : i \in 1 .. k + 1 <=> i \in 1 .. k \/ i = k + 1
  OBVIOUS
<1>6. k + 1 \notin 1 .. k
  OBVIOUS
<1>7. ASSUME NEW p
      PROVE  Sends(p)' = Sends(p) \cup {i \in {k + 1} : m.cmd = "send" /\ m.from = p}
  BY <1>2, <1>3, <1>5 DEF Sends
<1>8. ASSUME NEW p
      PROVE  InBox(p)' = InBox(p) \cup {n \in {m.num} : m.cmd = "send" /\ m.from = p}
  <2>1. \A i \in Sends(p) : i \in 1 .. k
    BY <1>2 DEF Sends
  <2>2. InBox(p)' = {Box'[i].num : i \in Sends(p)'}
    BY DEF InBox
  <2>3. QED
    BY <1>3, <1>7, <2>1, <2>2 DEF InBox
<1>9. QED
  BY <1>2, <1>3, <1>4, <1>7, <1>8

LEMMA BoxShrinks ==
  ASSUME TInv, mail[broker] # <<>>, mail'[broker] = Tail(mail[broker]), NEW m, m = Head(mail[broker])
  PROVE  \E k \in Nat :
           /\ Len(Box) = k + 1 /\ Len(Box') = k /\ m = Box[1] /\ m \in Requests
           /\ \A i \in 1 .. k : Box'[i] = Box[i + 1] /\ Box[i + 1] \in Requests
           /\ \A p : \A i \in Sends(p)' : i + 1 \in Sends(p) /\ i \in 1 .. k
           /\ \A p : InBox(p) = InBox(p)' \cup {n \in {m.num} : m.cmd = "send" /\ m.from = p}
<1>1. Box \in Seq(Requests) /\ Box' = Tail(Box) /\ Box # <<>> /\ m = Head(Box)
  BY DEF TInv, TypeOK, Box
<1>2. PICK k \in Nat : Len(Box) = k + 1
  <2>1. Len(Box) \in Nat /\ Len(Box) # 0
    BY <1>1, LenProperties, EmptySeq
  <2>2. Len(Box) - 1 \in Nat /\ Len(Box) = (Len(Box) - 1) + 1
    BY <2>1
  <2>3. QED
    BY <2>2
<1>3. /\ Len(Box') = k /\ m = Box[1] /\ m \in Requests
      /\ \A i \in 1 .. k : Box'[i] = Box[i + 1]
  BY <1>1, <1>2, HeadTailProperties
<1>4. \A i \in 1 .. k + 1 : Box[i] \in Requests
  BY <1>1, <1>2, ElementOfSeq
<1>5. \A i \in 1 .. k : i + 1 \in 1 .. k + 1
  OBVIOUS
<1>6. \A i \in 1 .. k + 1 : i = 1 \/ (i - 1 \in 1 .. k /\ (i - 1) + 1 = i)
  OBVIOUS
<1>7. ASSUME NEW p, NEW i \in Sends(p)' PROVE i + 1 \in Sends(p) /\ i \in 1 .. k
  BY <1>2, <1>3, <1>5, <1>7 DEF Sends
<1>8. ASSUME NEW p
      PROVE  InBox(p) = InBox(p)' \cup {n \in {m.num} : m.cmd = "send" /\ m.from = p}
  <2>0. /\ InBox(p)' = {Box'[i].num : i \in Sends(p)'}
        /\ Sends(p)' = {i \in 1 .. k : Box'[i].cmd = "send" /\ Box'[i].from = p}
        /\ Sends(p) = {i \in 1 .. k + 1 : Box[i].cmd = "send" /\ Box[i].from = p}
    BY <1>2, <1>3 DEF InBox, Sends
  <2>1. ASSUME NEW n \in InBox(p)' PROVE n \in InBox(p)
    <3>1. PICK i \in Sends(p)' : n = Box'[i].num
      BY <2>0, <2>1
    <3>2. i + 1 \in Sends(p) /\ n = Box[i + 1].num
      BY <1>3, <1>7, <3>1
    <3>3. QED
      BY <3>2 DEF InBox
  <2>2. ASSUME NEW n \in InBox(p)
        PROVE  n \in InBox(p)' \cup {x \in {m.num} : m.cmd = "send" /\ m.from = p}
    <3>1. PICK i \in 1 .. k + 1 : Box[i].cmd = "send" /\ Box[i].from = p /\ n = Box[i].num
      BY <2>0, <2>2 DEF InBox
    <3>2. CASE i = 1
      BY <1>3, <3>1, <3>2
    <3>3. CASE i # 1
      <4>1. PICK j \in 1 .. k : j + 1 = i
        BY <1>6, <3>3
      <4>2. j \in Sends(p)' /\ n = Box'[j].num
        BY <1>3, <2>0, <3>1, <4>1
      <4>3. QED
        BY <2>0, <4>2
    <3>4. QED
      BY <3>2, <3>3
  <2>3. ASSUME m.cmd = "send", m.from = p PROVE m.num \in InBox(p)
    <3>1. 1 \in 1 .. k + 1
      OBVIOUS
    <3>2. QED
      BY <1>3, <2>0, <2>3, <3>1 DEF InBox
  <2>4. QED
    BY <2>1, <2>2, <2>3
<1>9. QED
  BY <1>2, <1>3, <1>4, <1>5, <1>7, <1>8

\* What was sent to a subscriber, as a sequence.
LEMMA ConcatGrows ==
  ASSUME NEW S, NEW a \in Seq(S), NEW b \in Seq(S), NEW l \in S
  PROVE  a \o Append(b, l) = Append(a \o b, l)
<1>1. PICK n \in Nat, k \in Nat : n = Len(a) /\ k = Len(b)
  BY LenProperties
<1>2. /\ Append(b, l) \in Seq(S) /\ Len(Append(b, l)) = k + 1 /\ Append(b, l)[k + 1] = l
      /\ \A i \in 1 .. k : Append(b, l)[i] = b[i]
  BY <1>1, AppendProperties
<1>3. /\ a \o b \in Seq(S) /\ Len(a \o b) = n + k
      /\ \A i \in 1 .. n + k : (a \o b)[i] = IF i <= n THEN a[i] ELSE b[i - n]
  BY <1>1, ConcatProperties
<1>4. /\ a \o Append(b, l) \in Seq(S) /\ Len(a \o Append(b, l)) = n + (k + 1)
      /\ \A i \in 1 .. n + (k + 1) :
           (a \o Append(b, l))[i] = IF i <= n THEN a[i] ELSE Append(b, l)[i - n]
  BY <1>1, <1>2, ConcatProperties
<1>5. /\ Append(a \o b, l) \in Seq(S) /\ Len(Append(a \o b, l)) = n + k + 1
      /\ Append(a \o b, l)[n + k + 1] = l
      /\ \A i \in 1 .. n + k : Append(a \o b, l)[i] = (a \o b)[i]
  BY <1>1, <1>3, AppendProperties
<1>6. ASSUME NEW i \in 1 .. n + (k + 1)
      PROVE  (a \o Append(b, l))[i] = Append(a \o b, l)[i]
  <2>1. CASE i = n + k + 1
    <3>1. ~(i <= n) /\ i - n = k + 1
      BY <2>1
    <3>2. QED
      BY <1>2, <1>4, <1>5, <2>1, <3>1
  <2>2. CASE i \in 1 .. n + k
    <3>1. CASE i <= n
      BY <1>3, <1>4, <1>5, <2>2, <3>1
    <3>2. CASE ~(i <= n)
      <4>1. i - n \in 1 .. k
        BY <2>2, <3>2
      <4>2. QED
        BY <1>2, <1>3, <1>4, <1>5, <2>2, <3>2, <4>1
    <3>3. QED
      BY <3>1, <3>2
  <2>3. i = n + k + 1 \/ i \in 1 .. n + k
    OBVIOUS
  <2>4. QED
    BY <2>1, <2>2, <2>3
<1>7. n + (k + 1) = n + k + 1
  OBVIOUS
<1>8. QED
  BY <1>4, <1>5, <1>6, <1>7, SeqEqual

LEMMA ConcatMoves ==
  ASSUME NEW S, NEW a \in Seq(S), NEW b \in Seq(S), b # <<>>
  PROVE  Append(a, Head(b)) \o Tail(b) = a \o b
<1>1. PICK n \in Nat : n = Len(a)
  BY LenProperties
<1>2. PICK k \in Nat : Len(b) = k + 1
  <2>1. Len(b) \in Nat /\ Len(b) # 0
    BY LenProperties, EmptySeq
  <2>2. Len(b) - 1 \in Nat /\ Len(b) = (Len(b) - 1) + 1
    BY <2>1
  <2>3. QED
    BY <2>2
<1>3. /\ Tail(b) \in Seq(S) /\ Len(Tail(b)) = k /\ Head(b) = b[1] /\ Head(b) \in S
      /\ \A i \in 1 .. k : Tail(b)[i] = b[i + 1]
  BY <1>2, HeadTailProperties
<1>4. /\ Append(a, Head(b)) \in Seq(S) /\ Len(Append(a, Head(b))) = n + 1
      /\ Append(a, Head(b))[n + 1] = Head(b)
      /\ \A i \in 1 .. n : Append(a, Head(b))[i] = a[i]
  BY <1>1, <1>3, AppendProperties
<1>5. /\ a \o b \in Seq(S) /\ Len(a \o b) = n + (k + 1)
      /\ \A i \in 1 .. n + (k + 1) : (a \o b)[i] = IF i <= n THEN a[i] ELSE b[i - n]
  BY <1>1, <1>2, ConcatProperties
<1>6. PICK c \in Seq(S) : c = Append(a, Head(b)) /\ Len(c) = n + 1
  BY <1>4
<1>7. /\ c \o Tail(b) \in Seq(S) /\ Len(c \o Tail(b)) = (n + 1) + k
      /\ \A i \in 1 .. (n + 1) + k :
           (c \o Tail(b))[i] = IF i <= n + 1 THEN c[i] ELSE Tail(b)[i - (n + 1)]
  <2>1. PICK d \in Seq(S) : d = Tail(b) /\ Len(d) = k
    BY <1>3
  <2>2. /\ c \o d \in Seq(S) /\ Len(c \o d) = (n + 1) + k
        /\ \A i \in 1 .. (n + 1) + k :
             (c \o d)[i] = IF i <= n + 1 THEN c[i] ELSE d[i - (n + 1)]
    BY <1>6, <2>1, ConcatProperties
  <2>3. QED
    BY <2>1, <2>2
<1>8. ASSUME NEW i \in 1 .. (n + 1) + k PROVE (c \o Tail(b))[i] = (a \o b)[i]
  <2>0. i \in 1 .. n + (k + 1)
    OBVIOUS
  <2>1. CASE i <= n
    BY <1>4, <1>5, <1>6, <1>7, <2>0, <2>1
  <2>2. CASE i = n + 1
    <3>1. ~(i <= n) /\ i - n = 1 /\ i <= n + 1
      BY <2>2
    <3>2. QED
      BY <1>3, <1>4, <1>5, <1>6, <1>7, <2>0, <2>2, <3>1
  <2>3. CASE i > n + 1
    <3>1. ~(i <= n) /\ ~(i <= n + 1) /\ i - (n + 1) \in 1 .. k /\ (i - (n + 1)) + 1 = i - n
      BY <2>3
    <3>2. Tail(b)[i - (n + 1)] = b[i - n]
      BY <1>3, <3>1
    <3>3. QED
      BY <1>5, <1>7, <2>0, <3>1, <3>2
  <2>4. i <= n \/ i = n + 1 \/ i > n + 1
    OBVIOUS
  <2>5. QED
    BY <2>1, <2>2, <2>3, <2>4
<1>9. (n + 1) + k = n + (k + 1)
  OBVIOUS
<1>10. c \o Tail(b) = a \o b
  BY <1>5, <1>7, <1>8, <1>9, SeqEqual
<1>11. QED
  BY <1>6, <1>10

LEMMA StreamTyped ==
  ASSUME TInv, NEW s \in Subscribers
  PROVE  /\ got[s] \in Seq(Payloads) /\ mail[s] \in Seq(Payloads) /\ Stream(s) \in Seq(Payloads)
         /\ Len(Stream(s)) \in Nat /\ DOMAIN Stream(s) = 1 .. Len(Stream(s))
         /\ \A i \in 1 .. Len(Stream(s)) :
              Stream(s)[i].pub \in Publishers /\ Stream(s)[i].num \in Nat \ {0}
<1>1. got[s] \in Seq(Payloads) /\ mail[s] \in Seq(Payloads)
  BY DEF TInv, TypeOK
<1>2. Stream(s) \in Seq(Payloads)
  BY <1>1, ConcatProperties DEF Stream
<1>3. \A i \in 1 .. Len(Stream(s)) : Stream(s)[i] \in Payloads
  BY <1>2, ElementOfSeq
<1>4. \A l \in Payloads : l.pub \in Publishers /\ l.num \in Nat \ {0}
  BY DEF Payloads
<1>5. QED
  BY <1>1, <1>2, <1>3, <1>4, LenProperties

\* s reads the next message: what was sent to it stays what it is.
LEMMA StreamRead ==
  ASSUME TInv, NEW s \in Subscribers, Get(s), got' = [got EXCEPT ![s] = Append(@, Head(mail[s]))]
  PROVE  \A r \in Subscribers : Stream(r)' = Stream(r)
<1>1. /\ got \in [Subscribers -> Seq(Payloads)] /\ DOMAIN mail = Receivers
      /\ got[s] \in Seq(Payloads) /\ mail[s] \in Seq(Payloads)
  BY DEF TInv, TypeOK
<1>2. /\ \A r \in Subscribers : r # s => got'[r] = got[r] /\ mail'[r] = mail[r]
      /\ got'[s] = Append(got[s], Head(mail[s])) /\ mail'[s] = Tail(mail[s]) /\ mail[s] # <<>>
  BY <1>1, Receiving DEF Get
<1>3. Append(got[s], Head(mail[s])) \o Tail(mail[s]) = got[s] \o mail[s]
  BY <1>1, <1>2, ConcatMoves
<1>4. QED
  BY <1>2, <1>3 DEF Stream

\* One payload more for s.
LEMMA StreamGrows ==
  ASSUME TInv, NEW s \in Subscribers, NEW l \in Payloads, Put(s, l), got' = got
  PROVE  /\ \A r \in Subscribers : r # s => Stream(r)' = Stream(r)
         /\ \E k \in Nat :
              /\ DOMAIN Stream(s) = 1 .. k /\ DOMAIN Stream(s)' = 1 .. k + 1
              /\ k = Len(Stream(s)) /\ Len(Stream(s)') = k + 1 /\ Stream(s)'[k + 1] = l
              /\ \A i \in 1 .. k : Stream(s)'[i] = Stream(s)[i]
<1>1. /\ DOMAIN mail = Receivers /\ got[s] \in Seq(Payloads) /\ mail[s] \in Seq(Payloads)
      /\ Stream(s) \in Seq(Payloads)
  BY StreamTyped DEF TInv, TypeOK
<1>2. /\ \A r \in Subscribers : r # s => mail'[r] = mail[r]
      /\ mail'[s] = Append(mail[s], l)
  BY <1>1, Receiving DEF Put
<1>3. Stream(s)' = Append(Stream(s), l)
  <2>1. \A a, b \in Seq(Payloads) : a \o Append(b, l) = Append(a \o b, l)
    <3> TAKE a, b \in Seq(Payloads)
    <3>1. QED
      BY ONLY ConcatGrows, l \in Payloads, a \in Seq(Payloads), b \in Seq(Payloads)
  <2>2. got[s] \o Append(mail[s], l) = Append(got[s] \o mail[s], l)
    BY <1>1, <2>1
  <2>3. QED
    BY <1>2, <2>1, <2>2 DEF Stream
<1>4. PICK k \in Nat : k = Len(Stream(s))
  BY <1>1, LenProperties
<1>5. /\ DOMAIN Stream(s) = 1 .. k /\ DOMAIN Stream(s)' = 1 .. k + 1
      /\ Len(Stream(s)') = k + 1 /\ Stream(s)'[k + 1] = l
      /\ \A i \in 1 .. k : Stream(s)'[i] = Stream(s)[i]
  <2>1. PICK q \in Seq(Payloads) : q = Stream(s) /\ Len(q) = k
    BY <1>1, <1>4
  <2>2. /\ Append(q, l) \in Seq(Payloads) /\ Len(Append(q, l)) = k + 1 /\ Append(q, l)[k + 1] = l
        /\ \A i \in 1 .. k : Append(q, l)[i] = q[i]
    BY <2>1, AppendProperties
  <2>3. DOMAIN q = 1 .. k /\ DOMAIN Append(q, l) = 1 .. k + 1
    BY <2>1, <2>2, LenProperties
  <2>4. QED
    BY <1>3, <2>1, <2>2, <2>3
<1>6. \A r \in Subscribers : r # s => Stream(r)' = Stream(r)
  BY <1>2 DEF Stream
<1>7. QED
  BY <1>4, <1>5, <1>6

OrderedAt(s) ==
  /\ \A i \in DOMAIN Stream(s) : Contains(subTopics[s], PubTopic[Stream(s)[i].pub])
  /\ \A i, j \in DOMAIN Stream(s) :
       i < j /\ Stream(s)[i].pub = Stream(s)[j].pub => Stream(s)[i].num < Stream(s)[j].num

GaplessAt(s) ==
  \A i, j \in DOMAIN Stream(s) :
    /\ i < j /\ Stream(s)[i].pub = Stream(s)[j].pub
    /\ Stream(s)[j].num > Stream(s)[i].num + 1
    => \E k \in i .. j : /\ Stream(s)[k].pub = Stream(s)[i].pub
                         /\ Stream(s)[k].num = Stream(s)[i].num + 1

LEMMA StreamWise ==
  /\ OrderedOnce <=> \A s \in Subscribers : OrderedAt(s)
  /\ Gapless <=> (presses[broker] = 0 => \A s \in Subscribers : GaplessAt(s))
BY DEF OrderedOnce, Gapless, OrderedAt, GaplessAt

\* s is sent the payload l.
More(s, l) ==
  \E k \in Nat :
    /\ DOMAIN Stream(s) = 1 .. k /\ DOMAIN Stream(s)' = 1 .. k + 1
    /\ k = Len(Stream(s)) /\ Len(Stream(s)') = k + 1 /\ Stream(s)'[k + 1] = l
    /\ \A i \in 1 .. k : Stream(s)'[i] = Stream(s)[i]

LEMMA HeardGrows ==
  ASSUME NEW s \in Subscribers, NEW l \in Payloads, More(s, l), NEW p
  PROVE  Heard(s, p)' = Heard(s, p) \cup {n \in {l.num} : l.pub = p}
<1>1. PICK k \in Nat :
        /\ k = Len(Stream(s)) /\ Len(Stream(s)') = k + 1 /\ Stream(s)'[k + 1] = l
        /\ \A i \in 1 .. k : Stream(s)'[i] = Stream(s)[i]
  BY DEF More
<1>2. \A i : i \in 1 .. k + 1 <=> i \in 1 .. k \/ i = k + 1
  OBVIOUS
<1>3. /\ Heard(s, p) = {Stream(s)[i].num : i \in {j \in 1 .. k : Stream(s)[j].pub = p}}
      /\ Heard(s, p)' = {Stream(s)'[i].num : i \in {j \in 1 .. k + 1 : Stream(s)'[j].pub = p}}
  BY <1>1 DEF Heard
<1>4. ASSUME NEW n \in Heard(s, p)' PROVE n \in Heard(s, p) \cup {x \in {l.num} : l.pub = p}
  <2>1. PICK i \in 1 .. k + 1 : Stream(s)'[i].pub = p /\ n = Stream(s)'[i].num
    BY <1>3, <1>4
  <2>2. QED
    BY <1>1, <1>2, <1>3, <2>1
<1>5. ASSUME NEW n \in Heard(s, p) PROVE n \in Heard(s, p)'
  <2>1. PICK i \in 1 .. k : Stream(s)[i].pub = p /\ n = Stream(s)[i].num
    BY <1>3, <1>5
  <2>2. i \in 1 .. k + 1 /\ Stream(s)'[i] = Stream(s)[i]
    BY <1>1, <1>2
  <2>3. QED
    BY <1>3, <2>1, <2>2
<1>6. l.pub = p => l.num \in Heard(s, p)'
  BY <1>1, <1>2, <1>3
<1>7. QED
  BY <1>4, <1>5, <1>6

LEMMA OrderGrows ==
  ASSUME TInv, NEW s \in Subscribers, NEW l \in Payloads, More(s, l), subTopics' = subTopics,
         OrderedAt(s), Contains(subTopics[s], PubTopic[l.pub]),
         \A h \in Heard(s, l.pub) : h < l.num
  PROVE  OrderedAt(s)'
<1>1. PICK k \in Nat :
        /\ DOMAIN Stream(s) = 1 .. k /\ DOMAIN Stream(s)' = 1 .. k + 1 /\ k = Len(Stream(s))
        /\ Stream(s)'[k + 1] = l /\ \A i \in 1 .. k : Stream(s)'[i] = Stream(s)[i]
  BY DEF More
<1>2. \A i : i \in 1 .. k + 1 <=> i \in 1 .. k \/ i = k + 1
  OBVIOUS
<1>3. \A i \in 1 .. k : Stream(s)[i].pub = l.pub => Stream(s)[i].num < l.num
  BY <1>1 DEF Heard
<1>4. \A i \in 1 .. k + 1 : Contains(subTopics[s], PubTopic[Stream(s)'[i].pub])
  BY <1>1, <1>2 DEF OrderedAt
<1>5. ASSUME NEW i \in 1 .. k + 1, NEW j \in 1 .. k + 1, i < j,
             Stream(s)'[i].pub = Stream(s)'[j].pub
      PROVE  Stream(s)'[i].num < Stream(s)'[j].num
  <2>1. i \in 1 .. k
    BY <1>5
  <2>2. CASE j = k + 1
    BY <1>1, <1>3, <1>5, <2>1, <2>2
  <2>3. CASE j \in 1 .. k
    BY <1>1, <1>5, <2>1, <2>3 DEF OrderedAt
  <2>4. QED
    BY <1>2, <2>2, <2>3
<1>6. QED
  BY <1>1, <1>4, <1>5 DEF OrderedAt

LEMMA GapGrows ==
  ASSUME TInv, NEW s \in Subscribers, NEW l \in Payloads, More(s, l),
         OrderedAt(s), GaplessAt(s),
         \A h \in Heard(s, l.pub) : h < l.num,
         Heard(s, l.pub) # {} => l.num - 1 \in Heard(s, l.pub)
  PROVE  GaplessAt(s)'
<1>1. PICK k \in Nat :
        /\ DOMAIN Stream(s) = 1 .. k /\ DOMAIN Stream(s)' = 1 .. k + 1 /\ k = Len(Stream(s))
        /\ Stream(s)'[k + 1] = l /\ \A i \in 1 .. k : Stream(s)'[i] = Stream(s)[i]
  BY DEF More
<1>2. \A i : i \in 1 .. k + 1 <=> i \in 1 .. k \/ i = k + 1
  OBVIOUS
<1>3. \A i \in 1 .. k : Stream(s)[i].num \in Nat
  BY <1>1, StreamTyped
<1>4. l.num \in Nat
  BY DEF Payloads
<1>5. ASSUME NEW i \in 1 .. k + 1, NEW j \in 1 .. k + 1, i < j,
             Stream(s)'[i].pub = Stream(s)'[j].pub, Stream(s)'[j].num > Stream(s)'[i].num + 1
      PROVE  \E x \in i .. j : /\ Stream(s)'[x].pub = Stream(s)'[i].pub
                               /\ Stream(s)'[x].num = Stream(s)'[i].num + 1
  <2>1. i \in 1 .. k
    BY <1>5
  <2>2. CASE j \in 1 .. k
    <3>1. PICK x \in i .. j : Stream(s)[x].pub = Stream(s)[i].pub /\ Stream(s)[x].num = Stream(s)[i].num + 1
      BY <1>1, <1>5, <2>1, <2>2 DEF GaplessAt
    <3>2. x \in 1 .. k
      BY <2>1, <2>2
    <3>3. QED
      BY <1>1, <2>1, <3>1, <3>2
  <2>3. CASE j = k + 1
    <3>1. Stream(s)[i].pub = l.pub /\ l.num > Stream(s)[i].num + 1
      BY <1>1, <1>5, <2>1, <2>3
    <3>2. Stream(s)[i].num \in Heard(s, l.pub)
      BY <1>1, <2>1, <3>1 DEF Heard
    <3>3. PICK m \in 1 .. k : Stream(s)[m].pub = l.pub /\ Stream(s)[m].num = l.num - 1
      BY <1>1, <3>2 DEF Heard
    <3>4. i < m
      <4>1. Stream(s)[i].num < Stream(s)[m].num /\ Stream(s)[i].num \in Nat /\ Stream(s)[m].num \in Nat
        BY <1>3, <1>4, <2>1, <3>1, <3>3
      <4>2. m < i => Stream(s)[m].num < Stream(s)[i].num
        BY <1>1, <2>1, <3>1, <3>3 DEF OrderedAt
      <4>3. m # i
        BY <4>1
      <4>4. i \in Nat /\ m \in Nat
        BY <2>1
      <4>5. QED
        BY <4>1, <4>2, <4>3, <4>4
    <3>5. PICK x \in i .. m : Stream(s)[x].pub = Stream(s)[i].pub /\ Stream(s)[x].num = Stream(s)[i].num + 1
      <4>1. CASE Stream(s)[m].num = Stream(s)[i].num + 1
        <5>1. m \in i .. m
          BY <2>1, <3>4
        <5>2. QED
          BY <3>1, <3>3, <4>1, <5>1
      <4>2. CASE Stream(s)[m].num # Stream(s)[i].num + 1
        <5>1. Stream(s)[m].num > Stream(s)[i].num + 1
          BY <1>3, <1>4, <2>1, <3>1, <3>3, <4>2
        <5>2. QED
          BY <1>1, <2>1, <3>1, <3>3, <3>4, <5>1 DEF GaplessAt
      <4>3. QED
        BY <4>1, <4>2
    <3>6. x \in 1 .. k /\ x \in i .. j
      BY <2>1, <2>3, <3>5
    <3>7. QED
      BY <1>1, <2>1, <3>5, <3>6
  <2>4. QED
    BY <1>2, <2>2, <2>3
<1>6. QED
  BY <1>1, <1>5 DEF GaplessAt

\* The queue is removed: what s has not read is lost.
LEMMA StreamCut ==
  ASSUME TInv, NEW s \in Subscribers, got' = got, mail'[s] = <<>>, subTopics' = subTopics
  PROVE  /\ OrderedAt(s) => OrderedAt(s)'
         /\ GaplessAt(s) => GaplessAt(s)'
<1>1. got[s] \in Seq(Payloads) /\ mail[s] \in Seq(Payloads)
  BY DEF TInv, TypeOK
<1>2. PICK n \in Nat, k \in Nat : n = Len(got[s]) /\ k = Len(mail[s])
  BY <1>1, LenProperties
<1>3. /\ DOMAIN Stream(s) = 1 .. n + k
      /\ \A i \in 1 .. n : Stream(s)[i] = got[s][i]
  <2>1. /\ Stream(s) \in Seq(Payloads) /\ Len(Stream(s)) = n + k
        /\ \A i \in 1 .. n + k : Stream(s)[i] = IF i <= n THEN got[s][i] ELSE mail[s][i - n]
    BY <1>1, <1>2, ConcatProperties, ZenonT(40) DEF Stream
  <2>2. \A i \in 1 .. n : i \in 1 .. n + k /\ i <= n
    OBVIOUS
  <2>3. QED
    BY <2>1, <2>2, LenProperties
<1>4. Stream(s)' = got[s] /\ DOMAIN got[s] = 1 .. n
  <2>1. \A q \in Seq(Payloads) : q \o <<>> = q
    OBVIOUS
  <2>2. QED
    BY <1>1, <1>2, <2>1, LenProperties DEF Stream
<1>5. \A i \in 1 .. n : i \in 1 .. n + k
  OBVIOUS
<1>6. \A i, j \in 1 .. n : \A x \in i .. j : x \in 1 .. n
  BY <1>2
<1>7. OrderedAt(s) => OrderedAt(s)'
  BY <1>3, <1>4, <1>5 DEF OrderedAt
<1>8. ASSUME GaplessAt(s) PROVE GaplessAt(s)'
  BY <1>3, <1>4, <1>5, <1>6, <1>8 DEF GaplessAt
<1>9. QED
  BY <1>7, <1>8

-----------------------------------------------------------------------------
(* Step by step.  First the steps that move one process or change nothing   *)
(* that is sent.                                                           *)

\* Nothing is sent: at most a payload is read, or a publisher ends with a line unsent.
Calm ==
  /\ UNCHANGED <<Box, subTopics>> /\ \A s \in Subscribers : Stream(s)' = Stream(s)
  /\ presses'[broker] = 0 => presses[broker] = 0
  /\ pc'[broker] \in Serving =>
       /\ pc[broker] \in Serving /\ topics' = topics
       /\ \A p \in Publishers :
            /\ pc[p] = "exited" => pc'[p] = "exited"
            /\ \/ LastSent(p)' = LastSent(p)
               \/ pc'[p] = "exited" /\ LastSent(p)' \in Int /\ LastSent(p) <= LastSent(p)'
       /\ \A s \in Subscribers : Leaves(s) => Leaves(s)'

SameLoad == UNCHANGED <<fan, load>> /\ (pc[broker] = "fanout" <=> pc'[broker] = "fanout")

LEMMA CalmStreams ==
  ASSUME OrderedOnce, Gapless, Calm
  PROVE  OrderedOnce' /\ Gapless'
<1>1. \A s \in Subscribers : Stream(s)' = Stream(s)
  BY DEF Calm
<1>2. \A s \in Subscribers : /\ OrderedAt(s) => OrderedAt(s)'
                             /\ GaplessAt(s) => GaplessAt(s)'
  BY <1>1 DEF OrderedAt, GaplessAt, Calm
<1>3. /\ OrderedOnce' <=> \A s \in Subscribers : OrderedAt(s)'
      /\ Gapless' <=> (presses'[broker] = 0 => \A s \in Subscribers : GaplessAt(s)')
  BY DEF OrderedOnce, Gapless, OrderedAt, GaplessAt
<1>4. QED
  BY <1>2, <1>3, StreamWise DEF Calm

LEMMA CalmSets ==
  ASSUME Calm, SameLoad, pc'[broker] \in Serving
  PROVE  /\ Box' = Box
         /\ \A p : Sends(p)' = Sends(p) /\ InBox(p)' = InBox(p) /\ UnderWay(p)' = UnderWay(p)
         /\ \A p : Serves(p)' <=> Serves(p)
         /\ \A s, p : Awaits(s, p)' = Awaits(s, p)
         /\ \A s \in Subscribers : \A p : Heard(s, p)' = Heard(s, p)
         /\ \A s, t : Known(s, t)' <=> Known(s, t)
<1>1. Box' = Box
  BY DEF Calm
<1>2. \A p : Sends(p)' = Sends(p)
  BY <1>1 DEF Sends
<1>3. \A p : InBox(p)' = InBox(p)
  BY <1>1, <1>2 DEF InBox
<1>4. \A p : Serves(p)' <=> Serves(p)
  BY DEF Serves, SameLoad
<1>5. \A p : UnderWay(p)' = UnderWay(p)
  BY <1>3, <1>4 DEF UnderWay, SameLoad
<1>6. \A s, p : Awaits(s, p)' = Awaits(s, p)
  BY <1>3, <1>4 DEF Awaits, SameLoad
<1>7. \A s \in Subscribers : Stream(s)' = Stream(s)
  BY DEF Calm
<1>8. \A s \in Subscribers : \A p : Heard(s, p)' = Heard(s, p)
  BY <1>7 DEF Heard
<1>9. \A s, t : Known(s, t)' <=> Known(s, t)
  BY DEF Known, Calm
<1>10. QED
  BY <1>1, <1>2, <1>3, <1>4, <1>5, <1>6, <1>8, <1>9

LEMMA CalmKeeps ==
  ASSUME TInv, Streams, Calm, pc'[broker] \in Serving => SameLoad
  PROVE  Streams'
<1>1. OrderedOnce' /\ Gapless'
  BY CalmStreams DEF Streams
<1>2. ASSUME pc'[broker] \in Serving
      PROVE  /\ Lists'
             /\ \A p \in Publishers : Lines(p)'
             /\ \A s \in Subscribers : Leave(s)' /\ \A p \in Publishers : Follows(s, p)'
  <2>1. /\ Lists /\ \A p \in Publishers : Lines(p)
        /\ \A s \in Subscribers : Leave(s) /\ \A p \in Publishers : Follows(s, p)
    BY <1>2 DEF Streams, Calm
  <2>2. Lists'
    <3>1. /\ topics' = topics /\ subTopics' = subTopics /\ Box' = Box /\ fan' = fan /\ load' = load
          /\ pc[broker] = "fanout" <=> pc'[broker] = "fanout"
      BY <1>2 DEF Calm, SameLoad
    <3>2. \A s, t : Known(s, t)' <=> Known(s, t)
      BY <1>2, CalmSets
    <3>3. /\ Distinct(fan)' <=> Distinct(fan)
          /\ \A i : Distinct(topics[i].pids)' <=> Distinct(topics[i].pids)
      BY <3>1 DEF Distinct
    <3>4. QED
      BY <2>1, <3>1, <3>2, <3>3 DEF Lists
  <2>3. ASSUME NEW p \in Publishers PROVE Lines(p)'
    <3>1. LastSent(p) \in Int /\ UnderWay(p) \subseteq Nat
      BY Numbers DEF NumbersNat
    <3>2. /\ Box' = Box /\ Sends(p)' = Sends(p) /\ InBox(p)' = InBox(p)
          /\ UnderWay(p)' = UnderWay(p) /\ load' = load /\ (Serves(p)' <=> Serves(p))
      BY <1>2, CalmSets DEF SameLoad
    <3>3. /\ pc[p] = "exited" => pc'[p] = "exited"
          /\ \/ LastSent(p)' = LastSent(p)
             \/ pc'[p] = "exited" /\ LastSent(p)' \in Int /\ LastSent(p) <= LastSent(p)'
      BY <1>2 DEF Calm
    <3>4. \A n \in UnderWay(p) : n \in 1 .. LastSent(p)'
      BY <2>1, <3>1, <3>3 DEF Lines
    <3>5. pc'[p] # "exited" /\ UnderWay(p) # {} => LastSent(p)' \in UnderWay(p)
      BY <2>1, <3>3 DEF Lines
    <3>6. Lines(p)
      BY <2>1
    <3>7. QED
      BY <3>2, <3>4, <3>5, <3>6 DEF Lines
  <2>4. ASSUME NEW s \in Subscribers PROVE Leave(s)'
    <3>1. Leave(s) /\ (Leaves(s) => Leaves(s)')
      BY <1>2, <2>1 DEF Calm
    <3>2. Box' = Box /\ \A p : Heard(s, p)' = Heard(s, p) /\ \A t : Known(s, t)' <=> Known(s, t)
      BY <1>2, CalmSets
    <3>3. QED
      BY <3>1, <3>2 DEF Leave
  <2>5. ASSUME NEW s \in Subscribers, NEW p \in Publishers PROVE Follows(s, p)'
    <3>1. /\ Heard(s, p)' = Heard(s, p) /\ Awaits(s, p)' = Awaits(s, p) /\ load' = load
          /\ (Serves(p)' <=> Serves(p)) /\ (Known(s, PubTopic[p])' <=> Known(s, PubTopic[p]))
          /\ presses'[broker] = 0 => presses[broker] = 0
      BY <1>2, CalmSets DEF SameLoad, Calm
    <3>2. /\ pc[p] = "exited" => pc'[p] = "exited"
          /\ \/ LastSent(p)' = LastSent(p)
             \/ pc'[p] = "exited" /\ LastSent(p)' \in Int /\ LastSent(p) <= LastSent(p)'
          /\ LastSent(p) \in Int
      BY <1>2, Numbers DEF Calm, NumbersNat
    <3>3. \A h \in Heard(s, p) : h \in Int
      BY StreamTyped DEF Heard
    <3>4. Follows(s, p)
      BY <2>1
    <3>5. \A h \in Heard(s, p) : h <= LastSent(p)'
      BY <3>2, <3>3, <3>4 DEF Follows
    <3>6. QED
      BY <3>1, <3>2, <3>4, <3>5 DEF Follows
  <2>6. QED
    BY <2>2, <2>3, <2>4, <2>5
<1>3. QED
  BY <1>1, <1>2 DEF Streams

LEMMA DistinctTail ==
  ASSUME NEW S, NEW q \in Seq(S), q # <<>>, Distinct(q)
  PROVE  /\ Distinct(Tail(q)) /\ ~Contains(Tail(q), Head(q)) /\ Contains(q, Head(q))
         /\ \A x : Contains(q, x) <=> Contains(Tail(q), x) \/ x = Head(q)
<1>1. PICK k \in Nat : Len(q) = k + 1
  <2>1. Len(q) \in Nat /\ Len(q) # 0
    BY LenProperties, EmptySeq
  <2>2. Len(q) - 1 \in Nat /\ Len(q) = (Len(q) - 1) + 1
    BY <2>1
  <2>3. QED
    BY <2>2
<1>2. Len(Tail(q)) = k /\ Head(q) = q[1] /\ \A i \in 1 .. k : Tail(q)[i] = q[i + 1]
  BY <1>1, HeadTailProperties
<1>3. /\ 1 \in 1 .. k + 1 /\ \A i \in 1 .. k : i + 1 \in 1 .. k + 1 /\ i + 1 # 1
      /\ \A i \in 1 .. k + 1 : i = 1 \/ (i - 1 \in 1 .. k /\ (i - 1) + 1 = i)
      /\ \A i, j \in 1 .. k : i + 1 = j + 1 => i = j
  OBVIOUS
<1>4. \A a, b \in 1 .. k + 1 : q[a] = q[b] => a = b
  BY <1>1 DEF Distinct
<1>5. Distinct(Tail(q))
  BY <1>2, <1>3, <1>4 DEF Distinct
<1>6. ~Contains(Tail(q), Head(q))
  BY <1>2, <1>3, <1>4 DEF Contains
<1>7. \A x : Contains(q, x) <=> Contains(Tail(q), x) \/ x = Head(q)
  <2> TAKE x
  <2>1. Contains(q, x) <=> \E i \in 1 .. k + 1 : q[i] = x
    BY <1>1 DEF Contains
  <2>2. Contains(Tail(q), x) <=> \E i \in 1 .. k : q[i + 1] = x
    BY <1>2 DEF Contains
  <2>3. ASSUME NEW i \in 1 .. k + 1, q[i] = x PROVE Contains(Tail(q), x) \/ x = Head(q)
    <3>1. CASE i = 1
      BY <1>2, <2>3, <3>1
    <3>2. CASE i # 1
      <4>1. PICK j \in 1 .. k : j + 1 = i
        BY <1>3, <3>2
      <4>2. QED
        BY <2>2, <2>3, <4>1
    <3>3. QED
      BY <3>1, <3>2
  <2>4. x = Head(q) => Contains(q, x)
    BY <1>2, <1>3, <2>1
  <2>5. Contains(Tail(q), x) => Contains(q, x)
    BY <1>3, <2>1, <2>2
  <2>6. QED
    BY <2>1, <2>3, <2>4, <2>5
<1>8. QED
  BY <1>5, <1>6, <1>7

\* A signal makes the broker's msgsnd fail: one subscriber is passed over.
LEMMA PassedOver ==
  ASSUME TInv, Streams, pc' = pc, UNCHANGED <<got, mail, topics, subTopics, load, lines>>,
         fan # <<>>, fan' = Tail(fan), presses'[broker] # 0, pc[broker] = "fanout"
  PROVE  Streams'
<1>0. pc[broker] \in Serving
  BY DEF Serving
<1>1. /\ OrderedOnce /\ Gapless /\ Lists /\ \A p \in Publishers : Lines(p)
      /\ \A s \in Subscribers : Leave(s) /\ \A p \in Publishers : Follows(s, p)
  BY <1>0 DEF Streams
<1>2. OrderedOnce' /\ Gapless'
  <2>1. \A s \in Subscribers : Stream(s)' = Stream(s)
    BY DEF Stream
  <2>2. \A s \in Subscribers : OrderedAt(s) => OrderedAt(s)'
    BY <2>1 DEF OrderedAt
  <2>3. /\ OrderedOnce' <=> \A s \in Subscribers : OrderedAt(s)'
        /\ Gapless' <=> (presses'[broker] = 0 => \A s \in Subscribers : GaplessAt(s)')
    BY DEF OrderedOnce, Gapless, OrderedAt, GaplessAt
  <2>4. QED
    BY <1>1, <2>2, <2>3, StreamWise
<1>3. /\ Box' = Box
      /\ \A p : Sends(p)' = Sends(p) /\ InBox(p)' = InBox(p) /\ UnderWay(p)' = UnderWay(p)
      /\ \A p : (Serves(p)' <=> Serves(p)) /\ LastSent(p)' = LastSent(p)
      /\ \A s, p : Heard(s, p)' = Heard(s, p)
      /\ \A s, t : Known(s, t)' <=> Known(s, t)
  BY DEF Box, Sends, InBox, UnderWay, Serves, LastSent, Heard, Stream, Known
<1>4. fan \in Seq(Subscribers) /\ Distinct(fan)
  BY <1>1 DEF TInv, TypeOK, Lists
<1>5. Distinct(fan)' /\ \A s : Contains(fan', s) => Contains(fan, s)
  <2>1. Distinct(Tail(fan)) /\ \A s : Contains(Tail(fan), s) => Contains(fan, s)
    BY <1>4, DistinctTail
  <2>2. QED
    BY <2>1 DEF Distinct
<1>6. Lists'
  <2>1. \A i : Distinct(topics[i].pids)' <=> Distinct(topics[i].pids)
    BY DEF Distinct
  <2>2. QED
    BY <1>1, <1>3, <1>5, <2>1 DEF Lists
<1>7. \A p \in Publishers : Lines(p)'
  BY <1>1, <1>3 DEF Lines
<1>8. \A s \in Subscribers : Leave(s)'
  BY <1>1, <1>3 DEF Leave, Leaves
<1>9. ASSUME NEW s \in Subscribers, NEW p \in Publishers PROVE Follows(s, p)'
  <2>1. \A n \in Awaits(s, p)' : n \in Awaits(s, p)
    BY <1>3, <1>5 DEF Awaits
  <2>2. QED
    BY <1>1, <1>3, <2>1 DEF Follows
<1>10. QED
  BY <1>2, <1>6, <1>7, <1>8, <1>9 DEF Streams

\* Everybody has been served.
LEMMA FanEnds ==
  ASSUME TInv, Streams, UNCHANGED <<got, mail, topics, subTopics, lines, presses>>,
         pc[broker] = "fanout", fan = <<>>, Go(broker, "test"), load' = NoLoad
  PROVE  Streams'
<1>0. /\ pc[broker] \in Serving /\ pc'[broker] = "test"
      /\ \A x \in Publishers \cup Subscribers : pc'[x] = pc[x]
  BY BrokerAssumption DEF Serving, Go, TInv, TypeOK, Clients
<1>1. /\ OrderedOnce /\ Gapless /\ Lists /\ \A p \in Publishers : Lines(p)
      /\ \A s \in Subscribers : Leave(s) /\ \A p \in Publishers : Follows(s, p)
  BY <1>0 DEF Streams
<1>2. OrderedOnce' /\ Gapless'
  <2>1. \A s \in Subscribers : Stream(s)' = Stream(s)
    BY DEF Stream
  <2>2. \A s \in Subscribers : (OrderedAt(s) => OrderedAt(s)') /\ (GaplessAt(s) => GaplessAt(s)')
    BY <2>1 DEF OrderedAt, GaplessAt
  <2>3. /\ OrderedOnce' <=> \A s \in Subscribers : OrderedAt(s)'
        /\ Gapless' <=> (presses'[broker] = 0 => \A s \in Subscribers : GaplessAt(s)')
    BY DEF OrderedOnce, Gapless, OrderedAt, GaplessAt
  <2>4. QED
    BY <1>1, <2>2, <2>3, StreamWise
<1>3. /\ Box' = Box
      /\ \A p : Sends(p)' = Sends(p) /\ InBox(p)' = InBox(p) /\ UnderWay(p)' = InBox(p)
      /\ \A p \in Publishers : ~Serves(p)' /\ LastSent(p)' = LastSent(p)
      /\ \A s, p : Heard(s, p)' = Heard(s, p)
      /\ \A s, t : Known(s, t)' <=> Known(s, t)
  BY <1>0 DEF Box, Sends, InBox, UnderWay, Serves, LastSent, Heard, Stream, Known
<1>4. \A s, p : Awaits(s, p)' = InBox(p) /\ Awaits(s, p) = InBox(p)
  <2>1. \A s : ~Contains(fan, s)
    BY DEF Contains
  <2>2. \A p : ~Serves(p)'
    BY <1>0 DEF Serves
  <2>3. QED
    BY <1>3, <2>1, <2>2 DEF Awaits
<1>5. Lists'
  <2>1. \A i : Distinct(topics[i].pids)' <=> Distinct(topics[i].pids)
    BY DEF Distinct
  <2>2. QED
    BY <1>0, <1>1, <1>3, <2>1 DEF Lists
<1>6. ASSUME NEW p \in Publishers PROVE Lines(p)'
  <2>1. /\ Lines(p) /\ pc'[p] = pc[p] /\ InBox(p) \subseteq Nat /\ LastSent(p) \in Int
        /\ InBox(p) \subseteq UnderWay(p)
    BY <1>0, <1>1, Numbers DEF NumbersNat
  <2>2. UnderWay(p) = InBox(p) \/ (Serves(p) /\ UnderWay(p) = InBox(p) \cup {load.num})
    BY DEF UnderWay
  <2>3. Serves(p) => load.num \in Nat
    BY DEF TInv, Loading, Serves, Payloads
  <2>4. \A m, n \in InBox(p) : m < n => n - 1 \in InBox(p)
    BY <2>1, <2>2, <2>3 DEF Lines
  <2>5. pc[p] # "exited" /\ InBox(p) # {} => LastSent(p) \in InBox(p)
    BY <2>1, <2>2, <2>3 DEF Lines
  <2>6. QED
    BY <1>3, <2>1, <2>4, <2>5 DEF Lines
<1>7. \A s \in Subscribers : Leave(s)'
  BY <1>0, <1>1, <1>3 DEF Leave, Leaves
<1>8. ASSUME NEW s \in Subscribers, NEW p \in Publishers PROVE Follows(s, p)'
  <2>1. Follows(s, p) /\ pc'[p] = pc[p]
    BY <1>0, <1>1
  <2>2. QED
    BY <1>3, <1>4, <2>1 DEF Follows
<1>9. QED
  BY <1>2, <1>5, <1>6, <1>7, <1>8 DEF Streams

\* What a request leaves alone, whoever sends it.
LEMMA PutBroker ==
  ASSUME TInv, Streams, NEW m \in Requests, Put(broker, m),
         UNCHANGED <<got, topics, subTopics, fan, load, presses>>, pc'[broker] = pc[broker]
  PROVE  /\ OrderedOnce' /\ Gapless'
         /\ \A s, p : (Serves(p)' <=> Serves(p))
         /\ \A s \in Subscribers : \A p : Heard(s, p)' = Heard(s, p)
         /\ \A s, t : Known(s, t)' <=> Known(s, t)
         /\ mail'[broker] = Append(mail[broker], m)
<1>1. DOMAIN mail = Receivers
  BY DEF TInv, TypeOK
<1>2. mail'[broker] = Append(mail[broker], m) /\ \A s \in Subscribers : mail'[s] = mail[s]
  BY <1>1, Receiving DEF Put
<1>3. \A s \in Subscribers : Stream(s)' = Stream(s)
  BY <1>2 DEF Stream
<1>4. \A s \in Subscribers : (OrderedAt(s) => OrderedAt(s)') /\ (GaplessAt(s) => GaplessAt(s)')
  BY <1>3 DEF OrderedAt, GaplessAt
<1>5. /\ OrderedOnce' <=> \A s \in Subscribers : OrderedAt(s)'
      /\ Gapless' <=> (presses'[broker] = 0 => \A s \in Subscribers : GaplessAt(s)')
  BY DEF OrderedOnce, Gapless, OrderedAt, GaplessAt
<1>6. OrderedOnce' /\ Gapless'
  BY <1>4, <1>5, StreamWise DEF Streams
<1>7. \A p : (Serves(p)' <=> Serves(p))
  BY DEF Serves
<1>8. \A s, t : Known(s, t)' <=> Known(s, t)
  BY DEF Known
<1>9. \A s \in Subscribers : \A p : Heard(s, p)' = Heard(s, p)
  BY <1>3 DEF Heard
<1>10. QED
  BY <1>2, <1>6, <1>7, <1>8, <1>9

\* A publisher sends its next line.
LEMMA LineSent ==
  ASSUME TInv, Streams, NEW p \in Publishers, PSend(p), ~UNCHANGED system
  PROVE  Streams'
<1>1. PICK m : m = [cmd |-> "send", from |-> p, topic |-> PubTopic[p], num |-> lines[p]]
  OBVIOUS
<1>2. /\ pc[p] = "send" /\ Put(broker, m) /\ Go(p, "test")
      /\ UNCHANGED <<subTopics, got, topics, fan, load, presses, lines>>
  BY <1>1 DEF PSend, setting, brokerVars, userVars
<1>3. m \in Requests /\ m.cmd = "send" /\ m.from = p /\ m.num = lines[p] /\ m.topic = PubTopic[p]
  <2>1. lines[p] \in Nat /\ PubTopic[p] \in Topics /\ lines[p] >= 1
    BY <1>2, BrokerAssumption DEF TypeOK, TInv, Writing
  <2>2. QED
    BY <1>1, <2>1 DEF Requests
<1>4. /\ pc'[broker] = pc[broker] /\ pc'[p] = "test"
      /\ \A x \in Publishers \cup Subscribers : x # p => pc'[x] = pc[x]
      /\ p \notin Subscribers
  BY <1>2, BrokerAssumption DEF Go, TInv, TypeOK, Clients
<1>5. /\ OrderedOnce' /\ Gapless'
      /\ \A q : (Serves(q)' <=> Serves(q))
      /\ \A s \in Subscribers : \A q : Heard(s, q)' = Heard(s, q)
      /\ \A s, t : Known(s, t)' <=> Known(s, t)
      /\ mail'[broker] = Append(mail[broker], m)
  BY <1>2, <1>3, <1>4, PutBroker
<1>6. PICK k \in Nat :
        /\ k = Len(Box) /\ Len(Box') = k + 1 /\ Box'[k + 1] = m
        /\ \A i \in 1 .. k : Box'[i] = Box[i] /\ Box[i] \in Requests
        /\ \A q : Sends(q)' = Sends(q) \cup {i \in {k + 1} : m.cmd = "send" /\ m.from = q}
        /\ \A q : InBox(q)' = InBox(q) \cup {n \in {m.num} : m.cmd = "send" /\ m.from = q}
  BY <1>3, <1>5, BoxGrows
<1>7. \A i : i \in 1 .. k + 1 <=> i \in 1 .. k \/ i = k + 1
  OBVIOUS
<1>8. SUFFICES ASSUME pc[broker] \in Serving
               PROVE  /\ Lists'
                      /\ \A q \in Publishers : Lines(q)'
                      /\ \A s \in Subscribers : Leave(s)' /\ \A q \in Publishers : Follows(s, q)'
  BY <1>4, <1>5 DEF Streams
<1>9. /\ Lists /\ \A q \in Publishers : Lines(q)
      /\ \A s \in Subscribers : Leave(s) /\ \A q \in Publishers : Follows(s, q)
  BY <1>8 DEF Streams
<1>10. Lists'
  <2>1. /\ \A i : Distinct(topics[i].pids)' <=> Distinct(topics[i].pids)
        /\ Distinct(fan)' <=> Distinct(fan)
    BY <1>2 DEF Distinct
  <2>2. \A i \in 1 .. Len(Box)' : Box'[i].cmd # "send" => Contains(subTopics[Box'[i].from], Box'[i].topic)
    BY <1>3, <1>6, <1>7, <1>9 DEF Lists
  <2>3. QED
    BY <1>2, <1>4, <1>5, <1>9, <2>1, <2>2 DEF Lists
<1>11. /\ InBox(p)' = InBox(p) \cup {lines[p]} /\ Sends(p)' = Sends(p) \cup {k + 1}
       /\ \A q : q # p => InBox(q)' = InBox(q) /\ Sends(q)' = Sends(q)
       /\ \A q : \A i \in Sends(q) : i \in 1 .. k
  <2>1. \A q : \A i \in Sends(q) : i \in 1 .. k
    BY <1>6 DEF Sends
  <2>2. QED
    BY <1>3, <1>6, <2>1
<1>12. /\ LastSent(p) = lines[p] - 1 /\ LastSent(p)' = lines[p] /\ lines[p] \in Nat
       /\ \A q \in Publishers : q # p => LastSent(q)' = LastSent(q)
  BY <1>2, <1>4 DEF LastSent, TInv, TypeOK
<1>13. /\ UnderWay(p)' = UnderWay(p) \cup {lines[p]}
       /\ \A q : q # p => UnderWay(q)' = UnderWay(q)
       /\ \A s : Awaits(s, p)' = Awaits(s, p) \cup {lines[p]}
       /\ \A s, q : q # p => Awaits(s, q)' = Awaits(s, q)
  BY <1>2, <1>5, <1>11 DEF UnderWay, Awaits
<1>14. ASSUME NEW q \in Publishers PROVE Lines(q)'
  <2>1. Lines(q) /\ NumbersNat(q)
    BY <1>9, Numbers
  <2>2. CASE q # p
    <3>1. \A i \in Sends(q) : Box'[i] = Box[i]
      BY <1>6, <1>11
    <3>2. /\ Sends(q)' = Sends(q) /\ InBox(q)' = InBox(q) /\ UnderWay(q)' = UnderWay(q)
          /\ LastSent(q)' = LastSent(q) /\ pc'[q] = pc[q] /\ load' = load /\ (Serves(q)' <=> Serves(q))
      BY <1>2, <1>4, <1>5, <1>11, <1>12, <1>13, <2>2
    <3>3. QED
      BY <2>1, <3>1, <3>2 DEF Lines
  <2>3. CASE q = p
    <3>1. \A i \in Sends(p)' : Box'[i].topic = PubTopic[p]
      BY <1>3, <1>6, <1>11, <2>1, <2>3 DEF Lines
    <3>2. \A n \in UnderWay(p) : n \in Nat /\ n >= 1 /\ n < lines[p]
      BY <1>12, <2>1, <2>3 DEF Lines, NumbersNat
    <3>3. ASSUME NEW i \in Sends(p)', NEW j \in Sends(p)', i < j PROVE Box'[i].num < Box'[j].num
      <4>1. i \in Sends(p)
        BY <1>11, <3>3
      <4>2. CASE j \in Sends(p)
        BY <1>6, <1>11, <2>1, <2>3, <3>3, <4>1, <4>2 DEF Lines
      <4>3. CASE j = k + 1
        <5>1. Box[i].num \in UnderWay(p)
          BY <2>1, <2>3, <4>1 DEF InBox, NumbersNat
        <5>2. QED
          BY <1>3, <1>6, <1>11, <3>2, <4>1, <4>3, <5>1
      <4>4. QED
        BY <1>11, <4>2, <4>3
    <3>4. Serves(p)' => \A n \in InBox(p)' : load'.num < n
      <4>1. Serves(p) => load.num \in UnderWay(p)
        BY DEF UnderWay
      <4>2. QED
        BY <1>2, <1>5, <1>11, <2>1, <2>3, <3>2, <4>1 DEF Lines
    <3>5. \A n \in UnderWay(p)' : n \in 1 .. LastSent(p)'
      BY <1>3, <1>12, <1>13, <3>2 DEF Requests
    <3>6. \A a, n \in UnderWay(p)' : a < n => n - 1 \in UnderWay(p)'
      BY <1>2, <1>12, <1>13, <2>1, <2>3, <3>2 DEF Lines
    <3>7. LastSent(p)' \in UnderWay(p)'
      BY <1>12, <1>13
    <3>8. QED
      BY <2>3, <3>1, <3>3, <3>4, <3>5, <3>6, <3>7 DEF Lines
  <2>4. QED
    BY <2>2, <2>3
<1>15. ASSUME NEW s \in Subscribers PROVE Leave(s)'
  <2>1. Leaves(s)' <=> Leaves(s)
    BY <1>4 DEF Leaves
  <2>2. \A i \in 1 .. k + 1 : Box'[i].cmd # "send" => i \in 1 .. k
    BY <1>3, <1>6, <1>7
  <2>3. ASSUME NEW i \in 1 .. k + 1, Box'[i].cmd = "unsubscribe" /\ Box'[i].from = s
        PROVE  Leaves(s) /\ \A j \in i .. k + 1 : ~(Box'[j].cmd = "subscribe" /\ Box'[j].from = s)
    <3>1. i \in 1 .. k
      BY <2>2, <2>3
    <3>2. Leaves(s) /\ \A j \in i .. k : ~(Box[j].cmd = "subscribe" /\ Box[j].from = s)
      BY <1>6, <1>9, <2>3, <3>1 DEF Leave
    <3>3. \A j \in i .. k + 1 : j = k + 1 \/ (j \in i .. k /\ j \in 1 .. k)
      BY <3>1
    <3>4. QED
      BY <1>3, <1>6, <3>2, <3>3
  <2>4. ASSUME NEW q \in Publishers, Heard(s, q) # {} /\ ~Known(s, PubTopic[q])
        PROVE  Leaves(s) /\ \A j \in 1 .. k + 1 : ~(Box'[j].cmd = "subscribe" /\ Box'[j].from = s)
    BY <1>3, <1>6, <1>7, <1>9, <2>4 DEF Leave
  <2>5. QED
    BY <1>5, <1>6, <2>1, <2>3, <2>4 DEF Leave
<1>16. ASSUME NEW s \in Subscribers, NEW q \in Publishers PROVE Follows(s, q)'
  <2>1. Follows(s, q) /\ NumbersNat(q) /\ \A h \in Heard(s, q) : h \in Nat
    BY <1>9, Numbers, StreamTyped DEF Heard
  <2>2. /\ Heard(s, q)' = Heard(s, q) /\ (Serves(q)' <=> Serves(q)) /\ load' = load
        /\ (Known(s, PubTopic[q])' <=> Known(s, PubTopic[q])) /\ presses' = presses
    BY <1>2, <1>5
  <2>3. CASE q # p
    <3>1. Awaits(s, q)' = Awaits(s, q) /\ LastSent(q)' = LastSent(q) /\ pc'[q] = pc[q]
      BY <1>4, <1>12, <1>13, <2>3
    <3>2. QED
      BY <2>1, <2>2, <3>1 DEF Follows
  <2>4. CASE q = p
    <3>1. Awaits(s, p)' = Awaits(s, p) \cup {lines[p]}
      BY <1>13
    <3>2. \A h \in Heard(s, p) : h <= LastSent(p) /\ \A n \in Awaits(s, p) : h < n
      BY <2>1, <2>4 DEF Follows
    <3>3. \A h \in Heard(s, p) : h <= LastSent(p)' /\ \A n \in Awaits(s, p)' : h < n
      BY <1>12, <2>1, <2>4, <3>1, <3>2
    <3>4. presses[broker] = 0 /\ Heard(s, p) # {} /\ Known(s, PubTopic[p]) =>
            /\ \A n \in Awaits(s, p) : n - 1 \in Heard(s, p) \cup Awaits(s, p)
            /\ lines[p] - 1 \in Heard(s, p) \cup Awaits(s, p)
      BY <1>2, <1>12, <2>1, <2>4 DEF Follows
    <3>5. QED
      BY <1>12, <2>1, <2>2, <2>4, <3>1, <3>3, <3>4 DEF Follows
  <2>5. QED
    BY <2>3, <2>4
<1>17. QED
  BY <1>10, <1>14, <1>15, <1>16

\* A subscriber asks for its next topic, or takes it back.
LEMMA Requested ==
  ASSUME SInv, TInv, Streams, NEW r \in Subscribers, SSubscribe(r) \/ SUnsubscribe(r),
         ~UNCHANGED system
  PROVE  Streams'
<1>1. PICK cmd \in {"subscribe", "unsubscribe"}, after \in {"test", "exited"} :
        /\ Request(r, cmd, after) /\ pc[r] = cmd /\ (cmd = "unsubscribe" => after = "exited")
  BY DEF SSubscribe, SUnsubscribe
<1>2. PICK m : m = [cmd |-> cmd, from |-> r, topic |-> subTopics[r][idx[r]], num |-> 0]
  OBVIOUS
<1>3. /\ Put(broker, m) /\ (IF idx[r] = Args(r) THEN Go(r, after) ELSE UNCHANGED pc)
      /\ UNCHANGED <<subTopics, got, topics, fan, load, presses, lines>>
  BY <1>1, <1>2 DEF Request, setting, brokerVars, userVars
<1>4. /\ m \in Requests /\ m.cmd = cmd /\ m.from = r
      /\ Contains(subTopics[r], m.topic)
  <2>1. idx[r] \in 1 .. Len(subTopics[r]) /\ subTopics[r] \in Seq(Topics)
    BY DEF SInv, PartType, Loop, SSubscribe, SUnsubscribe, Args
  <2>2. subTopics[r][idx[r]] \in Topics
    BY <2>1, ElementOfSeq
  <2>3. QED
    BY <1>2, <2>1, <2>2 DEF Requests, Contains
<1>5. /\ pc'[broker] = pc[broker] /\ \A x \in Publishers \cup Subscribers : x # r => pc'[x] = pc[x]
      /\ pc'[r] = pc[r] \/ pc'[r] = after
      /\ r \notin Publishers
  BY <1>3, BrokerAssumption DEF Go, TInv, TypeOK, Clients
<1>6. /\ OrderedOnce' /\ Gapless'
      /\ \A q : (Serves(q)' <=> Serves(q))
      /\ \A s \in Subscribers : \A q : Heard(s, q)' = Heard(s, q)
      /\ \A s, t : Known(s, t)' <=> Known(s, t)
      /\ mail'[broker] = Append(mail[broker], m)
  BY <1>3, <1>4, <1>5, PutBroker
<1>7. PICK k \in Nat :
        /\ k = Len(Box) /\ Len(Box') = k + 1 /\ Box'[k + 1] = m
        /\ \A i \in 1 .. k : Box'[i] = Box[i] /\ Box[i] \in Requests
        /\ \A q : Sends(q)' = Sends(q) \cup {i \in {k + 1} : m.cmd = "send" /\ m.from = q}
        /\ \A q : InBox(q)' = InBox(q) \cup {n \in {m.num} : m.cmd = "send" /\ m.from = q}
  BY <1>4, <1>6, BoxGrows
<1>8. \A i : i \in 1 .. k + 1 <=> i \in 1 .. k \/ i = k + 1
  OBVIOUS
<1>9. SUFFICES ASSUME pc[broker] \in Serving
               PROVE  /\ Lists'
                      /\ \A q \in Publishers : Lines(q)'
                      /\ \A s \in Subscribers : Leave(s)' /\ \A q \in Publishers : Follows(s, q)'
  BY <1>5, <1>6 DEF Streams
<1>10. /\ Lists /\ \A q \in Publishers : Lines(q)
       /\ \A s \in Subscribers : Leave(s) /\ \A q \in Publishers : Follows(s, q)
  BY <1>9 DEF Streams
<1>11. Lists'
  <2>1. /\ \A i : Distinct(topics[i].pids)' <=> Distinct(topics[i].pids)
        /\ Distinct(fan)' <=> Distinct(fan)
    BY <1>3 DEF Distinct
  <2>2. \A i \in 1 .. Len(Box)' : Box'[i].cmd # "send" => Contains(subTopics[Box'[i].from], Box'[i].topic)
    BY <1>4, <1>7, <1>8, <1>10 DEF Lists
  <2>3. QED
    BY <1>3, <1>5, <1>6, <1>10, <2>1, <2>2 DEF Lists
<1>12. \A q : InBox(q)' = InBox(q) /\ Sends(q)' = Sends(q)
  BY <1>4, <1>7
<1>13. /\ \A q : UnderWay(q)' = UnderWay(q)
       /\ \A s, q : Awaits(s, q)' = Awaits(s, q)
       /\ \A q \in Publishers : LastSent(q)' = LastSent(q)
  BY <1>3, <1>5, <1>6, <1>12 DEF UnderWay, Awaits, LastSent
<1>14. ASSUME NEW q \in Publishers PROVE Lines(q)'
  <2>1. Lines(q) /\ pc'[q] = pc[q]
    BY <1>5, <1>10
  <2>2. \A i \in Sends(q) : Box'[i] = Box[i]
    BY <1>7 DEF Sends
  <2>3. QED
    BY <1>3, <1>6, <1>12, <1>13, <2>1, <2>2 DEF Lines
<1>15. ASSUME NEW s \in Subscribers PROVE Leave(s)'
  <2>1. Leaves(s) => Leaves(s)'
    BY <1>1, <1>5 DEF Leaves
  <2>2. m.cmd = "subscribe" /\ m.from = s => ~Leaves(s)
    BY <1>1, <1>4 DEF Leaves
  <2>3. ASSUME NEW i \in 1 .. k + 1, Box'[i].cmd = "unsubscribe" /\ Box'[i].from = s
        PROVE  Leaves(s)' /\ \A j \in i .. k + 1 : ~(Box'[j].cmd = "subscribe" /\ Box'[j].from = s)
    <3>1. CASE i \in 1 .. k
      <4>1. Leaves(s) /\ \A j \in i .. k : ~(Box[j].cmd = "subscribe" /\ Box[j].from = s)
        BY <1>7, <1>10, <2>3, <3>1 DEF Leave
      <4>2. \A j \in i .. k + 1 : j = k + 1 \/ (j \in i .. k /\ j \in 1 .. k)
        BY <3>1
      <4>3. QED
        BY <1>7, <2>1, <2>2, <4>1, <4>2
    <3>2. CASE i = k + 1
      <4>1. m.cmd = "unsubscribe" /\ r = s /\ \A j \in i .. k + 1 : j = k + 1
        BY <1>4, <1>7, <2>3, <3>2
      <4>2. Leaves(s)
        BY <1>1, <1>4, <4>1 DEF Leaves
      <4>3. QED
        BY <1>7, <2>1, <4>1, <4>2
    <3>3. QED
      BY <1>8, <3>1, <3>2
  <2>4. ASSUME NEW q \in Publishers, Heard(s, q) # {} /\ ~Known(s, PubTopic[q])
        PROVE  Leaves(s)' /\ \A j \in 1 .. k + 1 : ~(Box'[j].cmd = "subscribe" /\ Box'[j].from = s)
    <3>1. Leaves(s) /\ \A j \in 1 .. k : ~(Box[j].cmd = "subscribe" /\ Box[j].from = s)
      BY <1>7, <1>10, <2>4 DEF Leave
    <3>2. QED
      BY <1>7, <1>8, <2>1, <2>2, <3>1
  <2>5. QED
    BY <1>6, <1>7, <2>3, <2>4 DEF Leave
<1>16. ASSUME NEW s \in Subscribers, NEW q \in Publishers PROVE Follows(s, q)'
  <2>1. Follows(s, q) /\ pc'[q] = pc[q]
    BY <1>5, <1>10
  <2>2. QED
    BY <1>3, <1>6, <1>13, <2>1 DEF Follows
<1>17. QED
  BY <1>11, <1>14, <1>15, <1>16

\* The lists of pids: each pid once.
LEMMA RemoveDistinct ==
  ASSUME NEW S, NEW pids \in Seq(S), NEW x \in 1 .. Len(pids), Distinct(pids)
  PROVE  /\ Distinct(RemoveAt(pids, x))
         /\ \A y : Contains(RemoveAt(pids, x), y) => Contains(pids, y)
<1> DEFINE before == SubSeq(pids, 1, x - 1)
           after == SubSeq(pids, x + 1, Len(pids))
<1>1. PICK n \in Nat : n = Len(pids)
  BY LenProperties
<1>2. x \in Nat /\ x >= 1 /\ x <= n
  BY <1>1
<1>3. \A i \in 1 .. n : pids[i] \in S
  BY <1>1, ElementOfSeq
<1>4. /\ before \in Seq(S) /\ Len(before) = x - 1
      /\ \A i \in 1 .. x - 1 : before[i] = pids[i]
  <2>1. \A i \in 1 .. x - 1 : pids[i] \in S
    BY <1>2, <1>3
  <2>2. /\ before \in Seq(S) /\ Len(before) = IF 1 <= x - 1 THEN (x - 1) - 1 + 1 ELSE 0
        /\ \A i \in 1 .. (x - 1) - 1 + 1 : before[i] = pids[1 + i - 1]
    BY <1>2, <2>1, SubSeqProperties
  <2>3. QED
    BY <1>2, <2>2
<1>5. /\ after \in Seq(S) /\ Len(after) = n - x
      /\ \A i \in 1 .. n - x : after[i] = pids[x + i]
  <2>1. \A i \in x + 1 .. n : pids[i] \in S
    BY <1>2, <1>3
  <2>2. /\ after \in Seq(S)
        /\ Len(after) = IF x + 1 <= n THEN n - (x + 1) + 1 ELSE 0
        /\ \A i \in 1 .. n - (x + 1) + 1 : after[i] = pids[x + 1 + i - 1]
    BY <1>1, <1>2, <2>1, SubSeqProperties
  <2>3. QED
    BY <1>2, <2>2
<1>6. RemoveAt(pids, x) = before \o after
  BY DEF RemoveAt
<1> HIDE DEF before, after
<1>7. /\ Len(before \o after) = n - 1
      /\ \A i \in 1 .. n - 1 :
           (before \o after)[i] = IF i <= x - 1 THEN before[i] ELSE after[i - (x - 1)]
  <2>1. /\ Len(before \o after) = Len(before) + Len(after)
        /\ \A i \in 1 .. Len(before) + Len(after) :
             (before \o after)[i] = IF i <= Len(before) THEN before[i] ELSE after[i - Len(before)]
    BY <1>4, <1>5, ConcatProperties
  <2>2. Len(before) + Len(after) = n - 1
    BY <1>2, <1>4, <1>5
  <2>3. QED
    BY <1>4, <2>1, <2>2
\* Where the i-th element that is left has been.
<1> DEFINE old(i) == IF i <= x - 1 THEN i ELSE i + 1
<1>8. ASSUME NEW i \in 1 .. n - 1
      PROVE  old(i) \in 1 .. n /\ (before \o after)[i] = pids[old(i)]
  <2>1. CASE i <= x - 1
    <3>1. i \in 1 .. x - 1 /\ i \in 1 .. n
      BY <1>2, <2>1
    <3>2. QED
      BY <1>4, <1>7, <2>1, <3>1
  <2>2. CASE ~(i <= x - 1)
    <3>1. i - (x - 1) \in 1 .. n - x /\ x + (i - (x - 1)) = i + 1 /\ i + 1 \in 1 .. n
      BY <1>2, <2>2
    <3>2. after[i - (x - 1)] = pids[i + 1]
      BY <1>5, <3>1
    <3>3. QED
      BY <1>7, <2>2, <3>1, <3>2
  <2>3. QED
    BY <2>1, <2>2
<1>9. \A i, j \in 1 .. n - 1 : old(i) = old(j) => i = j
  BY <1>2
<1> HIDE DEF old
<1>10. Distinct(before \o after)
  <2>1. ASSUME NEW i \in 1 .. n - 1, NEW j \in 1 .. n - 1,
               (before \o after)[i] = (before \o after)[j]
        PROVE  i = j
    <3>1. pids[old(i)] = pids[old(j)] /\ old(i) \in 1 .. n /\ old(j) \in 1 .. n
      BY <1>8, <2>1
    <3>2. old(i) = old(j)
      BY <1>1, <3>1 DEF Distinct
    <3>3. QED
      BY <1>9, <3>2
  <2>2. QED
    BY <1>7, <2>1 DEF Distinct
<1>11. \A y : Contains(before \o after, y) => Contains(pids, y)
  BY <1>1, <1>7, <1>8 DEF Contains
<1>12. QED
  BY <1>6, <1>10, <1>11

LEMMA DelPidTakes ==
  ASSUME NEW S, NEW pids \in Seq(S), NEW pid, Distinct(pids)
  PROVE  /\ Distinct(DelPid(pids, pid))
         /\ \A y : Contains(DelPid(pids, pid), y) => Contains(pids, y)
<1>1. CASE ~Contains(pids, pid)
  BY <1>1 DEF DelPid, RemoveFirst, Contains
<1>2. CASE Contains(pids, pid)
  <2>1. PICK T : T = {i \in 1 .. Len(pids) : pids[i] = pid}
    OBVIOUS
  <2>2. Len(pids) \in Nat
    BY LenProperties
  <2>3. Min(T) \in T
    <3>1. T \subseteq Nat
      BY <2>1, <2>2
    <3>2. T # {}
      BY <1>2, <2>1 DEF Contains
    <3>3. QED
      BY <3>1, <3>2, MinIsLeast
  <2>4. DelPid(pids, pid) = RemoveAt(pids, Min(T))
    BY <1>2, <2>1, <2>3 DEF DelPid, RemoveFirst, SelectInSeq, Contains
  <2>5. QED
    BY <2>1, <2>3, <2>4, RemoveDistinct
<1>3. QED
  BY <1>1, <1>2

LEMMA AddPidDistinct ==
  ASSUME NEW S, NEW pids \in Seq(S), NEW pid \in S, Distinct(pids)
  PROVE  /\ Distinct(AddPid(pids, pid))
         /\ \A y : Contains(AddPid(pids, pid), y) => Contains(pids, y) \/ y = pid
<1>1. CASE Contains(pids, pid)
  BY <1>1 DEF AddPid
<1>2. CASE ~Contains(pids, pid)
  <2>1. PICK n \in Nat : n = Len(pids)
    BY LenProperties
  <2>2. <<pid>> \in Seq(S) /\ Len(<<pid>>) = 1 /\ <<pid>>[1] = pid
    OBVIOUS
  <2>3. PICK q : q = <<pid>> \o pids
    OBVIOUS
  <2>4. /\ Len(q) = 1 + n
        /\ \A i \in 1 .. 1 + n : q[i] = IF i <= 1 THEN <<pid>>[i] ELSE pids[i - 1]
    BY <2>1, <2>2, <2>3, ConcatProperties
  <2>5. /\ \A i \in 1 .. 1 + n : i = 1 \/ (i - 1 \in 1 .. n /\ ~(i <= 1))
        /\ \A i, j \in 1 .. 1 + n : i - 1 = j - 1 => i = j
    OBVIOUS
  <2>6. \A i \in 1 .. 1 + n : (q[i] = pid /\ i = 1) \/ (i - 1 \in 1 .. n /\ q[i] = pids[i - 1])
    BY <2>2, <2>4, <2>5
  <2>7. \A i \in 1 .. n : pids[i] # pid
    BY <1>2, <2>1 DEF Contains
  <2>8. Distinct(q)
    BY <2>1, <2>4, <2>5, <2>6, <2>7, SMTT(40) DEF Distinct
  <2>9. \A y : Contains(q, y) => Contains(pids, y) \/ y = pid
    BY <2>1, <2>4, <2>6 DEF Contains
  <2>10. QED
    BY <1>2, <2>3, <2>8, <2>9 DEF AddPid
<1>3. QED
  BY <1>1, <1>2

LEMMA PidsKnown ==
  ASSUME PartType, NEW t, \A i \in 1 .. Len(topics) : Distinct(topics[i].pids)
  PROVE  Distinct(PidsOf(t)) /\ \A s : Contains(PidsOf(t), s) <=> Known(s, t)
<1>1. CASE TopicIndex(t) = 0
  <2>1. Len(topics) \in Nat /\ 0 \notin 1 .. Len(topics)
    BY LenProperties DEF PartType
  <2>2. \A s : ~Known(s, t)
    BY <1>1, <2>1, TopicFound DEF Known
  <2>3. \A s : ~Contains(<<>>, s)
    BY DEF Contains
  <2>4. Distinct(<<>>)
    BY DEF Distinct
  <2>5. QED
    BY <1>1, <2>2, <2>3, <2>4 DEF PidsOf
<1>2. CASE TopicIndex(t) # 0
  <2>1. /\ TopicIndex(t) \in 1 .. Len(topics) /\ topics[TopicIndex(t)].name = t
        /\ \A i \in 1 .. Len(topics) : topics[i].name = t => i = TopicIndex(t)
    BY <1>2, TopicFound
  <2>2. PidsOf(t) = topics[TopicIndex(t)].pids
    BY <1>2 DEF PidsOf
  <2>3. QED
    BY <2>1, <2>2 DEF Known
<1>3. QED
  BY <1>1, <1>2

\* Nobody but pid is added, and pid to this topic only.
LEMMA SubscribeOnly ==
  ASSUME PartType, NEW name \in Topics, NEW pid \in Subscribers,
         topics' = AddOrSubscribe(name, pid),
         \A i \in 1 .. Len(topics) : Distinct(topics[i].pids)
  PROVE  /\ \A i \in 1 .. Len(topics') : Distinct(topics[i].pids)'
         /\ \A s, t : Known(s, t)' => Known(s, t) \/ (s = pid /\ t = name)
<1>0. topics \in Seq(Nodes) /\ Len(topics) \in Nat /\ \A i \in 1 .. Len(topics) : topics[i] \in Nodes
  BY ElementOfSeq, LenProperties DEF PartType
<1>1. CASE TopicIndex(name) = 0
  <2> DEFINE node == [name |-> name, pids |-> <<pid>>]
  <2>1. node \in Nodes /\ node.name = name /\ node.pids = <<pid>>
    BY DEF Nodes
  <2>2. Distinct(<<pid>>) /\ \A y : Contains(<<pid>>, y) => y = pid
    BY DEF Contains, Distinct
  <2>3. topics' = <<node>> \o topics
    BY <1>1 DEF AddOrSubscribe
  <2> HIDE DEF node
  <2>4. <<node>> \in Seq(Nodes) /\ Len(<<node>>) = 1 /\ <<node>>[1] = node
    BY <2>1
  <2>5. /\ Len(topics') = 1 + Len(topics)
        /\ \A i \in 1 .. 1 + Len(topics) :
             topics'[i] = IF i <= 1 THEN <<node>>[i] ELSE topics[i - 1]
    BY <1>0, <2>3, <2>4, ConcatProperties
  <2>6. \A i \in 1 .. Len(topics') :
          topics'[i] = node \/ (i - 1 \in 1 .. Len(topics) /\ topics'[i] = topics[i - 1])
    BY <1>0, <2>4, <2>5
  <2>7. \A i \in 1 .. Len(topics') : Distinct(topics'[i].pids)
    BY <2>1, <2>2, <2>6
  <2>8. \A i \in 1 .. Len(topics') : Distinct(topics[i].pids)'
    BY <2>7 DEF Distinct
  <2>9. ASSUME NEW s, NEW t, Known(s, t)' PROVE Known(s, t) \/ (s = pid /\ t = name)
    <3>1. PICK i \in 1 .. Len(topics') : topics'[i].name = t /\ Contains(topics'[i].pids, s)
      BY <2>9 DEF Known
    <3>2. QED
      BY <2>1, <2>2, <2>6, <3>1 DEF Known
  <2>10. QED
    BY <2>8, <2>9
<1>2. CASE TopicIndex(name) # 0
  <2>1. PICK x : x = TopicIndex(name)
    OBVIOUS
  <2>2. x \in 1 .. Len(topics) /\ topics[x].name = name
    BY <1>2, <2>1, TopicFound
  <2>3. topics[x].pids \in Seq(Subscribers) /\ Distinct(topics[x].pids)
    BY <1>0, <2>2 DEF Nodes
  <2>4. PICK v : v = AddPid(topics[x].pids, pid)
    OBVIOUS
  <2>5. /\ v \in Seq(Subscribers) /\ Distinct(v)
        /\ \A y : Contains(v, y) => Contains(topics[x].pids, y) \/ y = pid
    BY <2>3, <2>4, AddPidAdds, AddPidDistinct
  <2>6. topics' = [topics EXCEPT ![x].pids = v]
    BY <1>2, <2>1, <2>4 DEF AddOrSubscribe
  <2>7. /\ Len(topics') = Len(topics)
        /\ topics'[x].name = topics[x].name /\ topics'[x].pids = v
        /\ \A j \in 1 .. Len(topics) : j # x => topics'[j] = topics[j]
    BY <2>2, <2>5, <2>6, NodeReplaced
  <2>8. \A i \in 1 .. Len(topics') : Distinct(topics'[i].pids)
    BY <2>5, <2>7
  <2>9. \A i \in 1 .. Len(topics') : Distinct(topics[i].pids)'
    BY <2>8 DEF Distinct
  <2>10. QED
    BY <2>2, <2>5, <2>7, <2>9 DEF Known
<1>3. QED
  BY <1>1, <1>2

\* Nobody is added by taking one away.
LEMMA UnsubscribeOnly ==
  ASSUME PartType, NEW name \in Topics, NEW pid \in Subscribers,
         topics' = Unsubscribe(name, pid),
         \A i \in 1 .. Len(topics) : Distinct(topics[i].pids)
  PROVE  /\ \A i \in 1 .. Len(topics') : Distinct(topics[i].pids)'
         /\ \A s, t : Known(s, t)' => Known(s, t)
<1>1. CASE TopicIndex(name) = 0
  BY <1>1 DEF Unsubscribe, PartType, Known, Distinct
<1>2. CASE TopicIndex(name) # 0
  <2>1. PICK x : x = TopicIndex(name)
    OBVIOUS
  <2>2. x \in 1 .. Len(topics) /\ topics[x].name = name
    BY <1>2, <2>1, TopicFound
  <2>3. topics[x].pids \in Seq(Subscribers) /\ Distinct(topics[x].pids)
    BY <2>2, NodesTyped
  <2>4. PICK v : v = DelPid(topics[x].pids, pid)
    OBVIOUS
  <2>5. /\ v \in Seq(Subscribers) /\ Distinct(v)
        /\ \A y : Contains(v, y) => Contains(topics[x].pids, y)
    BY <2>3, <2>4, DelPidKeeps, DelPidTakes
  <2>6. topics' = [topics EXCEPT ![x].pids = v]
    BY <1>2, <2>1, <2>4 DEF Unsubscribe
  <2>7. /\ Len(topics') = Len(topics)
        /\ topics'[x].name = topics[x].name /\ topics'[x].pids = v
        /\ \A j \in 1 .. Len(topics) : j # x => topics'[j] = topics[j]
    BY <2>2, <2>5, <2>6, NodeReplaced
  <2>8. \A i \in 1 .. Len(topics') : Distinct(topics'[i].pids)
    BY <2>5, <2>7
  <2>9. \A i \in 1 .. Len(topics') : Distinct(topics[i].pids)'
    BY <2>8 DEF Distinct
  <2>10. QED
    BY <2>2, <2>5, <2>7, <2>9 DEF Known
<1>3. QED
  BY <1>1, <1>2

\* The broker sends the payload to the next subscriber of its list.
LEMMA Served ==
  ASSUME TInv, Streams, pc[broker] = "fanout", fan # <<>>, Put(Head(fan), load), fan' = Tail(fan),
         UNCHANGED <<pc, load, got, topics, subTopics, lines, presses>>
  PROVE  Streams'
<1>0. PICK r : r = Head(fan)
  OBVIOUS
<1>1. pc[broker] \in Serving /\ fan \in Seq(Subscribers) /\ DOMAIN mail = Receivers
  BY DEF Serving, TInv, TypeOK
<1>2. /\ OrderedOnce /\ Gapless /\ Lists /\ \A p \in Publishers : Lines(p)
      /\ \A s \in Subscribers : Leave(s) /\ \A p \in Publishers : Follows(s, p)
  BY <1>1 DEF Streams
<1>3. r \in Subscribers /\ Put(r, load) /\ load \in Payloads
  BY <1>0, <1>1, HeadTailProperties DEF TInv, Loading
<1>4. PICK p \in Publishers : p = load.pub
  BY <1>3 DEF Payloads
<1>5. load.num \in Nat /\ PubTopic[p] \in Topics /\ Serves(p)
  BY <1>3, <1>4, BrokerAssumption DEF Payloads, Serves
<1>6. /\ Distinct(Tail(fan)) /\ ~Contains(fan', r) /\ Contains(fan, r)
      /\ \A s : Contains(fan, s) <=> Contains(fan', s) \/ s = r
  BY <1>0, <1>1, <1>2, DistinctTail DEF Lists
<1>7. Known(r, PubTopic[p]) /\ Contains(subTopics[r], PubTopic[p])
  BY <1>2, <1>3, <1>4, <1>5, <1>6 DEF Lists
<1>8. /\ More(r, load) /\ \A s \in Subscribers : s # r => Stream(s)' = Stream(s)
  BY <1>3, StreamGrows DEF More
<1>9. /\ Heard(r, p)' = Heard(r, p) \cup {load.num}
      /\ \A s \in Subscribers, q \in Publishers : s # r \/ q # p => Heard(s, q)' = Heard(s, q)
  <2>0. \A q : Heard(r, q)' = Heard(r, q) \cup {n \in {load.num} : load.pub = q}
    BY <1>3, <1>8, HeardGrows
  <2>1. Heard(r, p)' = Heard(r, p) \cup {load.num}
    BY <1>4, <2>0
  <2>2. \A q \in Publishers : q # p => Heard(r, q)' = Heard(r, q)
    BY <1>4, <2>0
  <2>3. \A s \in Subscribers, q \in Publishers : s # r => Heard(s, q)' = Heard(s, q)
    BY <1>8 DEF Heard
  <2>4. QED
    BY <2>1, <2>2, <2>3
<1>10. /\ Box' = Box
       /\ \A q : Sends(q)' = Sends(q) /\ InBox(q)' = InBox(q) /\ UnderWay(q)' = UnderWay(q)
       /\ \A q : (Serves(q)' <=> Serves(q)) /\ LastSent(q)' = LastSent(q)
       /\ \A s, t : Known(s, t)' <=> Known(s, t)
  <2>1. Box' = Box
    BY <1>1, <1>3, Receiving DEF Box, Put
  <2>2. \A q : Sends(q)' = Sends(q) /\ InBox(q)' = InBox(q)
    BY <2>1 DEF Sends, InBox
  <2>3. QED
    BY <2>1, <2>2 DEF UnderWay, Serves, LastSent, Known
<1>11. /\ UnderWay(p) = InBox(p) \cup {load.num} /\ Awaits(r, p) = InBox(p) \cup {load.num}
       /\ Awaits(r, p)' = InBox(p)
       /\ \A s \in Subscribers, q \in Publishers : s # r \/ q # p => Awaits(s, q)' = Awaits(s, q)
  BY <1>4, <1>5, <1>6, <1>10 DEF UnderWay, Awaits, Serves
<1>12. /\ Lines(p) /\ Follows(r, p) /\ NumbersNat(p)
       /\ \A h \in Heard(r, p) : h \in Nat /\ h < load.num
       /\ \A n \in InBox(p) : load.num < n /\ n \in Nat
  <2>1. Lines(p) /\ Follows(r, p) /\ NumbersNat(p)
    BY <1>2, <1>3, Numbers
  <2>2. QED
    BY <1>3, <1>5, <1>11, <2>1, StreamTyped DEF Heard, Follows, Lines, NumbersNat
<1>13. OrderedOnce'
  <2>1. OrderedAt(r)'
    BY <1>2, <1>3, <1>4, <1>7, <1>8, <1>12, OrderGrows, StreamWise
  <2>2. \A s \in Subscribers : s # r => OrderedAt(s)'
    BY <1>2, <1>8, StreamWise DEF OrderedAt
  <2>3. OrderedOnce' <=> \A s \in Subscribers : OrderedAt(s)'
    BY DEF OrderedOnce, OrderedAt
  <2>4. QED
    BY <2>1, <2>2, <2>3
<1>14. Gapless'
  <2>1. SUFFICES ASSUME presses[broker] = 0 PROVE \A s \in Subscribers : GaplessAt(s)'
    <3>1. Gapless' <=> (presses'[broker] = 0 => \A s \in Subscribers : GaplessAt(s)')
      BY DEF Gapless, GaplessAt
    <3>2. QED
      BY <3>1
  <2>2. Heard(r, p) # {} => load.num - 1 \in Heard(r, p)
    <3>1. Heard(r, p) # {} => load.num - 1 \in Heard(r, p) \cup Awaits(r, p)
      BY <1>7, <1>11, <1>12, <2>1 DEF Follows
    <3>2. load.num - 1 \notin Awaits(r, p)
      BY <1>5, <1>11, <1>12
    <3>3. QED
      BY <3>1, <3>2
  <2>3. GaplessAt(r)'
    BY <1>2, <1>3, <1>4, <1>8, <1>12, <2>1, <2>2, GapGrows, StreamWise
  <2>4. \A s \in Subscribers : s # r => GaplessAt(s)'
    BY <1>2, <1>8, <2>1, StreamWise DEF GaplessAt
  <2>5. QED
    BY <2>3, <2>4
<1>15. Lists'
  <2>1. /\ \A i : Distinct(topics[i].pids)' <=> Distinct(topics[i].pids)
        /\ Distinct(fan)'
    BY <1>6 DEF Distinct
  <2>2. QED
    BY <1>2, <1>6, <1>10, <2>1 DEF Lists
<1>16. \A q \in Publishers : Lines(q)'
  BY <1>2, <1>10 DEF Lines
<1>17. ASSUME NEW s \in Subscribers PROVE Leave(s)'
  <2>1. Leave(s) /\ (Leaves(s)' <=> Leaves(s))
    BY <1>2 DEF Leaves
  <2>2. \A q \in Publishers : Heard(s, q)' # {} /\ ~Known(s, PubTopic[q]) => Heard(s, q) # {}
    BY <1>7, <1>9
  <2>3. QED
    BY <1>10, <2>1, <2>2 DEF Leave
<1>18. ASSUME NEW s \in Subscribers, NEW q \in Publishers PROVE Follows(s, q)'
  <2>1. CASE s # r \/ q # p
    <3>1. Follows(s, q) /\ Heard(s, q)' = Heard(s, q) /\ Awaits(s, q)' = Awaits(s, q)
      BY <1>2, <1>9, <1>11, <2>1
    <3>2. QED
      BY <1>10, <3>1 DEF Follows
  <2>2. CASE s = r /\ q = p
    <3>1. load.num \in 1 .. LastSent(p)
      BY <1>11, <1>12 DEF Lines
    <3>2. \A h \in Heard(r, p)' : h <= LastSent(p) /\ (\A n \in InBox(p) : h < n) /\ h <= load.num
      BY <1>5, <1>9, <1>11, <1>12, <3>1 DEF Follows, NumbersNat
    <3>3. ASSUME presses[broker] = 0
          PROVE  /\ \A n \in InBox(p) : n - 1 \in Heard(r, p)' \cup InBox(p)
                 /\ pc[p] # "exited" => LastSent(p) \in Heard(r, p)' \cup InBox(p)
      <4>1. \A n \in InBox(p) : n - 1 \in UnderWay(p)
        BY <1>11, <1>12 DEF Lines
      <4>2. pc[p] # "exited" => LastSent(p) \in UnderWay(p)
        BY <1>11, <1>12 DEF Lines
      <4>3. QED
        BY <1>9, <1>11, <4>1, <4>2
    <3>4. QED
      BY <1>10, <1>11, <2>2, <3>2, <3>3 DEF Follows
  <2>3. QED
    BY <2>1, <2>2
<1>19. QED
  BY <1>13, <1>14, <1>15, <1>16, <1>17, <1>18 DEF Streams

\* The broker reads a request.
LEMMA GetBroker ==
  ASSUME TInv, Streams, Get(broker), UNCHANGED <<got, subTopics, presses>>
  PROVE  /\ OrderedOnce' /\ Gapless'
         /\ \A s \in Subscribers : \A p : Heard(s, p)' = Heard(s, p)
         /\ mail[broker] # <<>> /\ mail'[broker] = Tail(mail[broker])
<1>1. DOMAIN mail = Receivers
  BY DEF TInv, TypeOK
<1>2. /\ mail[broker] # <<>> /\ mail'[broker] = Tail(mail[broker])
      /\ \A s \in Subscribers : mail'[s] = mail[s]
  BY <1>1, Receiving DEF Get
<1>3. \A s \in Subscribers : Stream(s)' = Stream(s)
  BY <1>2 DEF Stream
<1>4. \A s \in Subscribers : (OrderedAt(s) => OrderedAt(s)') /\ (GaplessAt(s) => GaplessAt(s)')
  BY <1>3 DEF OrderedAt, GaplessAt
<1>5. /\ OrderedOnce' <=> \A s \in Subscribers : OrderedAt(s)'
      /\ Gapless' <=> (presses'[broker] = 0 => \A s \in Subscribers : GaplessAt(s)')
  BY DEF OrderedOnce, Gapless, OrderedAt, GaplessAt
<1>6. OrderedOnce' /\ Gapless'
  BY <1>4, <1>5, StreamWise DEF Streams
<1>7. QED
  BY <1>2, <1>3, <1>6 DEF Heard

LEMMA Received ==
  ASSUME SInv, TInv, Streams, BReceive
  PROVE  Streams'
<1>1. PICK m : m = Head(mail[broker])
  OBVIOUS
<1>2. /\ pc[broker] = "recv" /\ Get(broker) /\ UNCHANGED <<got, subTopics, presses, lines>>
      /\ HandleSubscribe(m) \/ HandleUnsubscribe(m) \/ HandleSend(m)
      /\ pc \in [{broker} \cup Clients -> Places] /\ PartType
  BY <1>1 DEF BReceive, setting, userVars, TInv, TypeOK, SInv
<1>3. /\ OrderedOnce' /\ Gapless'
      /\ \A s \in Subscribers : \A p : Heard(s, p)' = Heard(s, p)
      /\ mail[broker] # <<>> /\ mail'[broker] = Tail(mail[broker])
  BY <1>2, GetBroker
<1>4. PICK k \in Nat :
        /\ Len(Box) = k + 1 /\ Len(Box') = k /\ m = Box[1] /\ m \in Requests
        /\ \A i \in 1 .. k : Box'[i] = Box[i + 1] /\ Box[i + 1] \in Requests
        /\ \A p : \A i \in Sends(p)' : i + 1 \in Sends(p) /\ i \in 1 .. k
        /\ \A p : InBox(p) = InBox(p)' \cup {n \in {m.num} : m.cmd = "send" /\ m.from = p}
  BY <1>1, <1>3, BoxShrinks, ZenonT(40)
<1>5. /\ 1 \in 1 .. k + 1 /\ \A i \in 1 .. k : i + 1 \in 1 .. k + 1 /\ i + 1 > 1
      /\ \A i \in 1 .. k : \A j \in i .. k : j \in 1 .. k /\ j + 1 \in i + 1 .. k + 1
  OBVIOUS
<1>6. pc[broker] \in Serving /\ \A p : ~Serves(p)
  BY <1>2 DEF Serving, Serves
<1>7. /\ Lists /\ \A p \in Publishers : Lines(p)
      /\ \A s \in Subscribers : Leave(s) /\ \A p \in Publishers : Follows(s, p)
  BY <1>6 DEF Streams
<1>8. SUFFICES ASSUME pc'[broker] \in Serving
               PROVE  /\ Lists'
                      /\ \A p \in Publishers : Lines(p)'
                      /\ \A s \in Subscribers : Leave(s)' /\ \A p \in Publishers : Follows(s, p)'
  BY <1>3 DEF Streams
<1>9. /\ \A x \in Publishers \cup Subscribers : pc'[x] = pc[x]
      /\ \A p \in Publishers : LastSent(p)' = LastSent(p)
      /\ pc'[broker] = "fanout" <=> m.cmd = "send"
  <2>1. PICK place \in {"test", "fanout", "crashed"} :
          Go(broker, place) /\ (place = "fanout" <=> m.cmd = "send")
    BY <1>2 DEF HandleSubscribe, HandleUnsubscribe, HandleSend
  <2>2. pc'[broker] = place /\ \A x \in Publishers \cup Subscribers : pc'[x] = pc[x]
    BY <1>2, <2>1, BrokerAssumption DEF Go, Clients
  <2>3. QED
    BY <1>2, <2>1, <2>2 DEF LastSent
\* The lists.
<1>10. /\ \A i \in 1 .. Len(topics') : Distinct(topics[i].pids)'
       /\ \A s, t : Known(s, t)' => \/ Known(s, t)
                                    \/ m.cmd = "subscribe" /\ s = m.from /\ t = m.topic
       /\ \A s, t : Known(s, t) => Known(s, t)' \/ (m.cmd = "unsubscribe" /\ s = m.from)
       /\ m.cmd = "send" => topics' = topics
  <2>0. \A i \in 1 .. Len(topics) : Distinct(topics[i].pids)
    BY <1>7 DEF Lists
  <2>1. CASE topics' = topics /\ m.cmd # "subscribe"
    BY <2>0, <2>1 DEF Distinct, Known
  <2>2. CASE HandleSubscribe(m)
    <3>1. m.cmd = "subscribe" /\ m.topic \in Topics /\ m.from \in Subscribers
      BY <1>4, <2>2 DEF HandleSubscribe, Requests
    <3>2. topics' = AddOrSubscribe(m.topic, m.from)
      BY <2>2 DEF HandleSubscribe
    <3>3. QED
      BY <1>2, <2>0, <3>1, <3>2, SubscribeAdds, SubscribeOnly
  <2>3. CASE HandleUnsubscribe(m) /\ topics' = Unsubscribe(m.topic, m.from)
    <3>1. m.cmd = "unsubscribe" /\ m.topic \in Topics /\ m.from \in Subscribers
      BY <1>4, <2>3 DEF HandleUnsubscribe, Requests
    <3>2. QED
      BY <1>2, <2>0, <2>3, <3>1, UnsubscribeKeeps, UnsubscribeOnly
  <2>4. QED
    BY <1>2, <2>1, <2>2, <2>3 DEF HandleUnsubscribe, HandleSend
\* The payload that is now served.
<1>11. \A p : Serves(p)' <=> m.cmd = "send" /\ m.from = p
  BY <1>2, <1>9 DEF Serves, HandleSend, HandleSubscribe, HandleUnsubscribe
<1>12. m.cmd = "send" => /\ load'.pub = m.from /\ load'.num = m.num /\ fan' = PidsOf(m.topic)
                         /\ m.from \in Publishers /\ m.topic = PubTopic[m.from] /\ 1 \in Sends(m.from)
  <2>1. SUFFICES ASSUME m.cmd = "send"
                 PROVE  /\ load'.pub = m.from /\ load'.num = m.num /\ fan' = PidsOf(m.topic)
                        /\ m.from \in Publishers /\ m.topic = PubTopic[m.from] /\ 1 \in Sends(m.from)
    OBVIOUS
  <2>2. HandleSend(m)
    BY <1>2, <2>1 DEF HandleSubscribe, HandleUnsubscribe
  <2>3. m.from \in Publishers /\ 1 \in Sends(m.from)
    BY <1>4, <1>5, <2>1 DEF Requests, Sends
  <2>4. QED
    BY <1>4, <1>7, <2>2, <2>3 DEF HandleSend, Lines
<1>13. ASSUME NEW s \in Subscribers, m.cmd = "send"
       PROVE  Contains(fan', s) <=> Known(s, m.topic)
  BY <1>2, <1>7, <1>12, <1>13, PidsKnown DEF Lists
<1>14. ASSUME NEW p \in Publishers
       PROVE  /\ UnderWay(p)' = UnderWay(p) /\ UnderWay(p) = InBox(p)
              /\ \A s \in Subscribers :
                   /\ Awaits(s, p) = InBox(p) /\ Awaits(s, p)' \subseteq InBox(p)
                   /\ Known(s, PubTopic[p]) => Awaits(s, p)' = Awaits(s, p)
  <2>1. UnderWay(p) = InBox(p) /\ \A s \in Subscribers : Awaits(s, p) = InBox(p)
    BY <1>6 DEF UnderWay, Awaits
  <2>2. CASE m.cmd = "send" /\ m.from = p
    <3>1. UnderWay(p)' = InBox(p)' \cup {m.num} /\ InBox(p) = InBox(p)' \cup {m.num}
      BY <1>4, <1>11, <1>12, <2>2 DEF UnderWay
    <3>2. \A s \in Subscribers :
            Awaits(s, p)' = InBox(p)' \cup {n \in {m.num} : Known(s, PubTopic[p])}
      BY <1>11, <1>12, <1>13, <2>2 DEF Awaits
    <3>3. QED
      BY <2>1, <3>1, <3>2
  <2>3. CASE ~(m.cmd = "send" /\ m.from = p)
    <3>1. InBox(p)' = InBox(p) /\ ~Serves(p)'
      BY <1>4, <1>11, <2>3
    <3>2. UnderWay(p)' = InBox(p)' /\ \A s : Awaits(s, p)' = InBox(p)'
      BY <3>1 DEF UnderWay, Awaits
    <3>3. QED
      BY <2>1, <3>1, <3>2
  <2>4. QED
    BY <2>2, <2>3
<1>15. Lists'
  <2>1. \A s \in Subscribers, t \in Topics : Known(s, t)' => Contains(subTopics[s], t)
    BY <1>4, <1>5, <1>7, <1>10 DEF Lists
  <2>2. \A i \in 1 .. k : Box'[i].cmd # "send" => Contains(subTopics[Box'[i].from], Box'[i].topic)
    BY <1>4, <1>5, <1>7 DEF Lists
  <2>3. pc'[broker] = "fanout" =>
          /\ Distinct(fan)'
          /\ \A s \in Subscribers : Contains(fan', s) => Known(s, PubTopic[load.pub])'
    <3>1. SUFFICES ASSUME m.cmd = "send"
                   PROVE  /\ Distinct(fan)'
                          /\ \A s \in Subscribers : Contains(fan', s) => Known(s, PubTopic[load.pub])'
      BY <1>9
    <3>2. Distinct(fan')
      BY <1>2, <1>7, <1>12, <3>1, PidsKnown DEF Lists
    <3>3. \A s, t : Known(s, t)' <=> Known(s, t)
      BY <1>10, <3>1 DEF Known
    <3>4. \A s \in Subscribers : Contains(fan', s) => Known(s, m.topic)'
      BY <1>13, <3>1, <3>3
    <3>5. PICK t : t = m.topic /\ t = PubTopic[load'.pub]
      BY <1>12, <3>1
    <3>6. \A s : Known(s, t)' <=> Known(s, PubTopic[load.pub])'
      BY <3>5 DEF Known
    <3>7. \A s : Known(s, t)' <=> Known(s, m.topic)'
      BY <3>5 DEF Known
    <3>8. QED
      BY <3>2, <3>4, <3>6, <3>7 DEF Distinct
  <2>4. QED
    BY <1>2, <1>4, <1>10, <2>1, <2>2, <2>3 DEF Lists
<1>16. ASSUME NEW p \in Publishers PROVE Lines(p)'
  <2>1. Lines(p) /\ pc'[p] = pc[p] /\ LastSent(p)' = LastSent(p) /\ NumbersNat(p)
    BY <1>7, <1>9, Numbers
  <2>2. \A i \in Sends(p)' : Box'[i].topic = PubTopic[p]
    BY <1>4, <2>1 DEF Lines
  <2>3. \A i, j \in Sends(p)' : i < j => Box'[i].num < Box'[j].num
    BY <1>4, <2>1, SMTT(40) DEF Lines
  <2>4. Serves(p)' => \A n \in InBox(p)' : load'.num < n
    <3>1. SUFFICES ASSUME Serves(p)', NEW n \in InBox(p)' PROVE load'.num < n
      OBVIOUS
    <3>2. PICK i \in Sends(p)' : n = Box'[i].num
      BY <3>1 DEF InBox
    <3>3. i + 1 \in Sends(p) /\ n = Box[i + 1].num /\ 1 < i + 1
      BY <1>4, <1>5, <3>2
    <3>4. 1 \in Sends(p) /\ load'.num = Box[1].num
      BY <1>4, <1>11, <1>12, <3>1
    <3>5. QED
      BY <2>1, <3>3, <3>4 DEF Lines
  <2>5. QED
    BY <1>14, <2>1, <2>2, <2>3, <2>4 DEF Lines
<1>17. ASSUME NEW s \in Subscribers PROVE Leave(s)'
  <2>1. Leave(s) /\ (Leaves(s)' <=> Leaves(s))
    BY <1>7, <1>9 DEF Leaves
  <2>2. ASSUME NEW i \in 1 .. k, Box'[i].cmd = "unsubscribe" /\ Box'[i].from = s
        PROVE  Leaves(s) /\ \A j \in i .. k : ~(Box'[j].cmd = "subscribe" /\ Box'[j].from = s)
    <3>1. Leaves(s) /\ \A j \in i + 1 .. k + 1 : ~(Box[j].cmd = "subscribe" /\ Box[j].from = s)
      BY <1>4, <1>5, <2>1, <2>2 DEF Leave
    <3>2. QED
      BY <1>4, <1>5, <3>1
  <2>3. ASSUME NEW p \in Publishers, Heard(s, p) # {} /\ ~Known(s, PubTopic[p])'
        PROVE  Leaves(s) /\ \A j \in 1 .. k : ~(Box'[j].cmd = "subscribe" /\ Box'[j].from = s)
    <3>1. CASE ~Known(s, PubTopic[p])
      BY <1>4, <1>5, <2>1, <2>3, <3>1 DEF Leave
    <3>2. CASE m.cmd = "unsubscribe" /\ s = m.from
      BY <1>4, <1>5, <2>1, <3>2 DEF Leave
    <3>3. QED
      BY <1>10, <2>3, <3>1, <3>2
  <2>4. QED
    BY <1>2, <1>3, <1>4, <2>1, <2>2, <2>3 DEF Leave
<1>18. ASSUME NEW s \in Subscribers, NEW p \in Publishers PROVE Follows(s, p)'
  <2>1. /\ Follows(s, p) /\ Heard(s, p)' = Heard(s, p) /\ LastSent(p)' = LastSent(p)
        /\ pc'[p] = pc[p] /\ \A h \in Heard(s, p) : h \in Nat
    BY <1>3, <1>7, <1>9, StreamTyped DEF Heard
  <2>2. Serves(p)' => load'.num \in InBox(p) /\ load'.num \in Nat
    <3>1. Serves(p)' => load'.num = Box[1].num /\ 1 \in Sends(p)
      BY <1>4, <1>11, <1>12
    <3>2. QED
      BY <3>1, Numbers DEF InBox, NumbersNat
  <2>3. \A h \in Heard(s, p) : \A n \in InBox(p) : h < n
    BY <1>14, <2>1 DEF Follows
  <2>4. Heard(s, p) # {} /\ Known(s, PubTopic[p])' => Known(s, PubTopic[p])
    <3>1. Heard(s, p) # {} /\ ~Known(s, PubTopic[p]) => ~(m.cmd = "subscribe" /\ s = m.from)
      BY <1>4, <1>5, <1>7 DEF Leave
    <3>2. QED
      BY <1>10, <3>1
  <2>5. \A h \in Heard(s, p) : Serves(p)' => h <= load'.num
    BY <2>1, <2>2, <2>3
  <2>6. QED
    BY <1>2, <1>14, <2>1, <2>3, <2>4, <2>5 DEF Follows
<1>19. QED
  BY <1>15, <1>16, <1>17, <1>18

-----------------------------------------------------------------------------
\* One process moves, or none does.
LEMMA OneMoves ==
  ASSUME TInv, NEW x \in Clients, NEW place, Go(x, place) \/ pc' = pc,
         UNCHANGED <<Box, subTopics, topics, fan, load, lines>>,
         \A s \in Subscribers : Stream(s)' = Stream(s),
         presses'[broker] = presses[broker],
         x \in Publishers => \/ place \in {pc[x], "exited"}
                             \/ pc[x] \notin {"send", "exited"} /\ place # "send",
         x \in Subscribers => pc[x] \notin {"unsubscribe", "exited"} \/ place \in {pc[x], "exited"}
  PROVE  Calm /\ SameLoad
<1>1. /\ pc \in [{broker} \cup Clients -> Places] /\ lines \in [Publishers -> Nat]
      /\ x # broker /\ Publishers \subseteq Clients /\ Subscribers \subseteq Clients
  BY BrokerAssumption DEF TInv, TypeOK, Clients
<1>2. /\ pc'[broker] = pc[broker]
      /\ \A y \in Clients : pc'[y] = pc[y] \/ (y = x /\ pc'[y] = place)
  BY <1>1 DEF Go
<1>3. ASSUME NEW p \in Publishers
      PROVE  /\ pc[p] = "exited" => pc'[p] = "exited"
             /\ \/ LastSent(p)' = LastSent(p)
                \/ pc'[p] = "exited" /\ LastSent(p)' \in Int /\ LastSent(p) <= LastSent(p)'
  <2>1. lines[p] \in Nat /\ lines' = lines
    BY <1>1
  <2>2. \/ pc'[p] = pc[p]
        \/ pc'[p] = "exited"
        \/ pc[p] \notin {"send", "exited"} /\ pc'[p] # "send"
    BY <1>1, <1>2
  <2>3. QED
    BY <2>1, <2>2 DEF LastSent
<1>4. \A s \in Subscribers : Leaves(s) => Leaves(s)'
  BY <1>1, <1>2 DEF Leaves
<1>5. QED
  BY <1>2, <1>3, <1>4 DEF Calm, SameLoad

\* The broker moves on, or stops serving.
LEMMA BrokerMoves ==
  ASSUME TInv, Go(broker, "test") \/ Go(broker, "recv") \/ Go(broker, "kill"),
         UNCHANGED <<Box, subTopics, fan, load, lines, got, mail>>,
         pc'[broker] \in Serving => topics' = topics /\ pc[broker] \in {"start", "test", "recv"},
         presses'[broker] = 0 => presses[broker] = 0
  PROVE  Calm /\ (pc'[broker] \in Serving => SameLoad)
<1>1. pc \in [{broker} \cup Clients -> Places]
  BY DEF TInv, TypeOK
<1>2. /\ \A y \in Publishers \cup Subscribers : pc'[y] = pc[y]
      /\ pc'[broker] \in {"test", "recv", "kill"}
  BY <1>1, BrokerAssumption DEF Go, Clients
<1>3. \A s \in Subscribers : Stream(s)' = Stream(s)
  BY DEF Stream
<1>4. \A p \in Publishers : LastSent(p)' = LastSent(p)
  BY <1>2 DEF LastSent
<1>5. \A s \in Subscribers : Leaves(s) => Leaves(s)'
  BY <1>2 DEF Leaves
<1>6. pc'[broker] \in Serving => pc[broker] \in Serving
  BY DEF Serving
<1>7. QED
  BY <1>2, <1>3, <1>4, <1>5, <1>6 DEF Calm, SameLoad

LEMMA Stays ==
  ASSUME TInv, pc' = pc, UNCHANGED <<got, mail, topics, subTopics, fan, load, lines>>,
         presses'[broker] = 0 => presses[broker] = 0
  PROVE  Calm /\ SameLoad
BY DEF Calm, SameLoad, Box, Stream, LastSent, Leaves

\* What an interrupted process does next.
LEMMA InterruptedMove ==
  ASSUME NEW x \in Clients
  PROVE  /\ x \in Publishers => \/ Interrupted(x) \in {pc[x], "exited"}
                                \/ pc[x] \notin {"send", "exited"} /\ Interrupted(x) # "send"
         /\ pc[x] \notin {"unsubscribe", "exited"} \/ Interrupted(x) \in {pc[x], "exited"}
<1>1. AfterLoop(x) \in {"exited", "unsubscribe"} /\ x # broker
  BY BrokerAssumption DEF AfterLoop, Clients
<1>2. QED
  BY <1>1, InterruptedPath

LEMMA StreamsInit == Init => Streams
<1> SUFFICES ASSUME Init PROVE Streams
  OBVIOUS
<1>1. /\ Box = <<>> /\ Len(<<>>) = 0 /\ topics = <<>>
      /\ pc[broker] = "start" /\ \A p \in Publishers : lines[p] = 0
  BY DEF Init, Box, Receivers
<1>2. \A s \in Subscribers : Stream(s) = <<>>
  <2>1. \A s \in Subscribers : got[s] = <<>> /\ mail[s] = <<>>
    BY DEF Init, Receivers
  <2>2. <<>> \o <<>> = <<>>
    OBVIOUS
  <2>3. QED
    BY <2>1, <2>2 DEF Stream
<1>3. \A i : i \notin 1 .. 0
  OBVIOUS
<1>4. \A p : Sends(p) = {} /\ InBox(p) = {} /\ ~Serves(p)
  BY <1>1, <1>3 DEF Sends, InBox, Serves
<1>5. \A p : UnderWay(p) = {} /\ \A s : Awaits(s, p) = {}
  BY <1>4 DEF UnderWay, Awaits
<1>6. \A s \in Subscribers : \A p : Heard(s, p) = {}
  BY <1>1, <1>2, <1>3 DEF Heard
<1>7. OrderedOnce /\ Gapless
  <2>1. DOMAIN <<>> = {}
    OBVIOUS
  <2>2. QED
    BY <1>2, <2>1 DEF OrderedOnce, Gapless
<1>8. Lists
  BY <1>1, <1>3 DEF Lists, Known
<1>9. \A p \in Publishers : Lines(p)
  BY <1>4, <1>5 DEF Lines
<1>10. \A s \in Subscribers : Leave(s)
  BY <1>1, <1>3, <1>6 DEF Leave
<1>11. \A s \in Subscribers, p \in Publishers : Follows(s, p)
  BY <1>6 DEF Follows
<1>12. QED
  BY <1>7, <1>8, <1>9, <1>10, <1>11 DEF Streams

LEMMA StreamsStep ==
  ASSUME SInv, TInv, Streams, [Next]_vars
  PROVE  Streams'
<1>0. /\ DOMAIN mail = Receivers /\ kills \in Seq(Clients) /\ fan \in Seq(Subscribers)
      /\ pc \in [{broker} \cup Clients -> Places] /\ presses \in [{broker} \cup Clients -> Nat]
      /\ Publishers \subseteq Clients /\ Subscribers \subseteq Clients /\ broker \notin Clients
      /\ Publishers \cap Subscribers = {}
  BY BrokerAssumption DEF TInv, TypeOK, Clients
<1>1. ASSUME Calm, pc'[broker] \in Serving => SameLoad PROVE Streams'
  BY <1>1, CalmKeeps
\* The broker.
<1>2. CASE BStart
  <2>1. /\ Go(broker, "test") /\ pc[broker] = "start"
        /\ UNCHANGED <<Box, subTopics, fan, load, lines, got, mail, topics, presses>>
    BY <1>2 DEF BStart, setting, brokerVars, userVars, Box
  <2>2. QED
    BY <1>1, <2>1, BrokerMoves
<1>3. CASE AnotherBroker
  <2>1. pc' = pc /\ UNCHANGED <<got, mail, topics, subTopics, fan, load, lines, presses>>
    BY <1>3 DEF AnotherBroker, setting, system, brokerVars
  <2>2. QED
    BY <1>1, <2>1, Stays
<1>4. CASE BTest
  <2>1. /\ pc[broker] = "test"
        /\ (Go(broker, "recv") /\ topics' = topics) \/ Go(broker, "kill")
        /\ UNCHANGED <<Box, subTopics, fan, load, lines, got, mail, presses>>
    BY <1>4 DEF BTest, setting, system, userVars, Box
  <2>2. Go(broker, "kill") => pc'[broker] \notin Serving
    BY <1>0 DEF Go, Serving
  <2>3. QED
    BY <1>1, <2>1, <2>2, BrokerMoves
<1>5. CASE BReceive
  BY <1>5, Received
<1>6. CASE BFanOut
  <2>1. pc[broker] = "fanout" /\ UNCHANGED <<got, topics, subTopics, lines, presses>>
    BY <1>6 DEF BFanOut, setting, userVars
  <2>2. CASE fan # <<>> /\ Put(Head(fan), load) /\ fan' = Tail(fan) /\ UNCHANGED <<pc, load>>
    BY <2>1, <2>2, Served
  <2>3. CASE fan = <<>> /\ load' = NoLoad /\ Go(broker, "test") /\ UNCHANGED <<system, fan>>
    BY <2>1, <2>3, FanEnds DEF system
  <2>4. QED
    BY <1>6, <2>2, <2>3 DEF BFanOut
<1>7. CASE BKill
  <2>1. /\ pc[broker] = "kill" /\ kills # <<>>
        /\ pc' = pc \/ Go(Head(kills), Interrupted(Head(kills)))
        /\ UNCHANGED <<Box, subTopics, topics, fan, load, lines, got, mail, presses>>
    BY <1>7 DEF BKill, setting, system, userVars, Box
  <2>2. PICK x \in Clients : x = Head(kills)
    BY <1>0, <2>1, TailTyped
  <2>3. pc'[broker] = "kill"
    <3>1. pc' = pc \/ Go(x, Interrupted(x))
      BY <2>1, <2>2
    <3>2. x # broker
      BY <1>0, <2>2
    <3>3. QED
      BY <1>0, <2>1, <3>1, <3>2 DEF Go
  <2>4. Calm /\ pc'[broker] \notin Serving
    BY <2>1, <2>3 DEF Calm, Serving, Stream
  <2>5. QED
    BY <1>1, <2>4
<1>8. CASE BNextTopic
  <2>1. pc'[broker] \notin Serving /\ UNCHANGED <<Box, subTopics, got, mail, presses>>
    BY <1>8 DEF BNextTopic, setting, system, userVars, Box, Serving
  <2>2. Calm
    BY <2>1 DEF Calm, Stream
  <2>3. QED
    BY <1>1, <2>1, <2>2
<1>9. CASE BRemoveQueue
  <2>1. /\ pc'[broker] = "exited" /\ got' = got /\ subTopics' = subTopics /\ presses' = presses
        /\ \A s \in Subscribers : mail'[s] = <<>>
    BY <1>0, <1>9, Receiving DEF BRemoveQueue, Go, setting, userVars
  <2>2. pc'[broker] \notin Serving
    BY <2>1 DEF Serving
  <2>3. \A s \in Subscribers : (OrderedAt(s) => OrderedAt(s)') /\ (GaplessAt(s) => GaplessAt(s)')
    BY <2>1, StreamCut
  <2>4. /\ OrderedOnce' <=> \A s \in Subscribers : OrderedAt(s)'
        /\ Gapless' <=> (presses'[broker] = 0 => \A s \in Subscribers : GaplessAt(s)')
    BY DEF OrderedOnce, Gapless, OrderedAt, GaplessAt
  <2>5. QED
    BY <2>1, <2>2, <2>3, <2>4, StreamWise DEF Streams
\* The publishers.
<1>10. ASSUME NEW p \in Publishers, PStart(p) \/ PTest(p) PROVE Streams'
  <2>1. PICK place : place \in {"test", "exited", "fgets"} /\ Go(p, place)
    BY <1>10 DEF PStart, PTest
  <2>2. /\ pc[p] \in {"start", "test"}
        /\ UNCHANGED <<Box, subTopics, topics, fan, load, lines, got, mail, presses>>
    BY <1>10 DEF PStart, PTest, setting, system, brokerVars, userVars, Box
  <2>3. \A s \in Subscribers : Stream(s)' = Stream(s)
    BY <2>2 DEF Stream
  <2>4. QED
    BY <1>0, <1>1, <2>1, <2>2, <2>3, OneMoves
<1>11. ASSUME NEW p \in Publishers, PInput(p) PROVE Streams'
  <2>1. /\ pc[p] = "fgets"
        /\ UNCHANGED <<Box, subTopics, topics, fan, load, got, mail, presses>>
    BY <1>11 DEF PInput, setting, system, brokerVars, userVars, Box
  <2>2. \A s \in Subscribers : Stream(s)' = Stream(s)
    BY <2>1 DEF Stream
  <2>3. CASE lines' = lines /\ (Go(p, "test") \/ Go(p, "exited"))
    BY <1>0, <1>1, <2>1, <2>2, <2>3, OneMoves
  <2>4. CASE lines' = [lines EXCEPT ![p] = @ + 1] /\ Go(p, "send")
    <3>1. lines \in [Publishers -> Nat]
      BY DEF TInv, TypeOK
    <3>2. /\ pc'[broker] = pc[broker] /\ pc'[p] = "send" /\ lines'[p] = lines[p] + 1
          /\ \A y \in Clients : y # p => pc'[y] = pc[y]
          /\ \A q \in Publishers : q # p => lines'[q] = lines[q]
      BY <1>0, <2>4, <3>1 DEF Go
    <3>3. \A q \in Publishers : LastSent(q)' = LastSent(q)
      BY <1>0, <2>1, <3>1, <3>2 DEF LastSent
    <3>4. \A q \in Publishers : pc[q] = "exited" => pc'[q] = "exited"
      BY <1>0, <2>1, <3>2
    <3>5. \A s \in Subscribers : Leaves(s) => Leaves(s)'
      BY <1>0, <2>1, <3>2 DEF Leaves
    <3>6. Calm /\ SameLoad
      BY <2>1, <2>2, <3>2, <3>3, <3>4, <3>5 DEF Calm, SameLoad
    <3>7. QED
      BY <1>1, <3>6
  <2>5. QED
    BY <1>11, <2>3, <2>4 DEF PInput
<1>12. ASSUME NEW p \in Publishers, PSend(p) PROVE Streams'
  <2>1. CASE UNCHANGED system
    <3>1. Go(p, "test") \/ Go(p, "exited")
      BY <1>12 DEF PSend
    <3>2. /\ UNCHANGED <<Box, subTopics, topics, fan, load, lines, got, mail, presses, qnum>>
          /\ pc[p] = "send"
      BY <1>12, <2>1 DEF PSend, setting, system, brokerVars, userVars, Box
    <3>3. ~Go(p, "test") \/ Go(p, "exited")
      <4>1. qnum \in Int
        BY <1>0 DEF TInv, TypeOK
      <4>2. ~\E m : Put(broker, m)
        BY <3>2, <4>1 DEF Put
      <4>3. QED
        BY <1>12, <4>2 DEF PSend
    <3>4. \A s \in Subscribers : Stream(s)' = Stream(s)
      BY <3>2 DEF Stream
    <3>5. QED
      BY <1>0, <1>1, <3>1, <3>2, <3>3, <3>4, OneMoves
  <2>2. QED
    BY <1>12, <2>1, LineSent
\* The subscribers.
<1>13. ASSUME NEW s \in Subscribers, SStart(s) \/ STest(s) PROVE Streams'
  <2>1. PICK place : Go(s, place)
    BY <1>13 DEF SStart, STest
  <2>2. /\ pc[s] \in {"start", "test"}
        /\ UNCHANGED <<Box, subTopics, topics, fan, load, lines, got, mail, presses>>
    BY <1>13 DEF SStart, STest, setting, system, brokerVars, userVars, Box
  <2>3. \A r \in Subscribers : Stream(r)' = Stream(r)
    BY <2>2 DEF Stream
  <2>4. QED
    BY <1>0, <1>1, <2>1, <2>2, <2>3, OneMoves
<1>14. ASSUME NEW s \in Subscribers, SSubscribe(s) \/ SUnsubscribe(s) PROVE Streams'
  <2>1. CASE UNCHANGED system
    <3>1. PICK cmd, after : Request(s, cmd, after)
      BY <1>14 DEF SSubscribe, SUnsubscribe
    <3>2. UNCHANGED <<Box, subTopics, topics, fan, load, lines, got, mail, presses, qnum>>
      BY <2>1, <3>1 DEF Request, setting, system, brokerVars, userVars, Box
    <3>3. Go(s, "exited")
      <4>1. qnum \in Int
        BY <1>0 DEF TInv, TypeOK
      <4>2. ~\E m : Put(broker, m)
        BY <3>2, <4>1 DEF Put
      <4>3. QED
        BY <3>1, <4>2 DEF Request
    <3>4. \A r \in Subscribers : Stream(r)' = Stream(r)
      BY <3>2 DEF Stream
    <3>5. QED
      BY <1>0, <1>1, <3>2, <3>3, <3>4, OneMoves
  <2>2. QED
    BY <1>14, <2>1, Requested
<1>15. ASSUME NEW s \in Subscribers, SReceive(s) PROVE Streams'
  <2>1. /\ pc[s] = "recv" /\ UNCHANGED <<subTopics, topics, fan, load, lines, presses>>
        /\ \E place : Go(s, place)
    BY <1>15 DEF SReceive, setting, brokerVars, userVars
  <2>2. Box' = Box /\ \A r \in Subscribers : Stream(r)' = Stream(r)
    <3>1. CASE UNCHANGED <<system, got>>
      BY <3>1 DEF system, Box, Stream
    <3>2. CASE Get(s) /\ got' = [got EXCEPT ![s] = Append(@, Head(mail[s]))]
      <4>1. Box' = Box
        BY <1>0, <3>2, Receiving DEF Get, Box
      <4>2. QED
        BY <3>2, <4>1, StreamRead
    <3>3. QED
      BY <1>15, <3>1, <3>2 DEF SReceive
  <2>3. QED
    BY <1>0, <1>1, <2>1, <2>2, OneMoves
\* The user.
<1>16. ASSUME NEW x \in {broker} \cup Clients, PressCtrlC(x) PROVE Streams'
  <2>1. /\ UNCHANGED <<subTopics, mail, load, lines, got, Box>> /\ Signal(x)
        /\ presses' = [presses EXCEPT ![x] = @ + 1]
    BY <1>16 DEF PressCtrlC, setting, system, Box
  <2>2. /\ x = broker => presses'[broker] # 0
        /\ x # broker => presses'[broker] = presses[broker]
    BY <1>0, <2>1
  <2>3. \A s \in Subscribers : Stream(s)' = Stream(s)
    BY <2>1 DEF Stream
  <2>4. CASE UNCHANGED <<pc, fan, topics>>
    BY <1>1, <2>1, <2>2, <2>4, Stays
  <2>5. CASE x # broker /\ Go(x, Interrupted(x)) /\ UNCHANGED <<fan, topics>>
    BY <1>0, <1>1, <2>1, <2>2, <2>3, <2>5, InterruptedMove, OneMoves
  <2>6. CASE x = broker /\ Interrupted(x) # pc[x] /\ Go(x, Interrupted(x)) /\ UNCHANGED fan
    <3>1. PICK place \in {"kill", "exited"} : place = Interrupted(broker)
      BY <2>6, InterruptedPath
    <3>2. pc'[broker] \notin Serving
      BY <1>0, <2>6, <3>1 DEF Go, Serving
    <3>3. Calm
      BY <2>1, <2>2, <2>3, <2>6, <3>2 DEF Calm
    <3>4. QED
      BY <1>1, <3>2, <3>3
  <2>7. CASE /\ x = broker /\ pc[x] = "fanout" /\ fan # <<>> /\ fan' = Tail(fan)
             /\ UNCHANGED <<pc, topics>>
    BY <2>1, <2>2, <2>7, PassedOver
  <2>8. QED
    BY <2>1, <2>4, <2>5, <2>6, <2>7 DEF Signal
<1>17. CASE UNCHANGED vars
  <2>1. pc' = pc /\ UNCHANGED <<got, mail, topics, subTopics, fan, load, lines, presses>>
    BY <1>17 DEF vars, setting, system, brokerVars, userVars
  <2>2. QED
    BY <1>1, <2>1, Stays
<1>18. QED
  BY <1>2, <1>3, <1>4, <1>5, <1>6, <1>7, <1>8, <1>9, <1>10, <1>11, <1>12, <1>13, <1>14, <1>15,
     <1>16, <1>17 DEF Next, BrokerStep, PublisherStep, SubscriberStep

\* A subscriber gets the payloads of its topics in the order they were published, each at
\* most once, and none is missing in between unless the broker was interrupted.
THEOREM StreamsKept == Spec => []StreamsIntact
<1>1. Init => SInv /\ TInv /\ Streams
  BY SInvInit, TInvInit, StreamsInit
<1>2. SInv /\ TInv /\ Streams /\ [Next]_vars => SInv' /\ TInv' /\ Streams'
  BY TInvStep, StreamsStep
<1>3. Streams => StreamsIntact
  BY DEF Streams, StreamsIntact
<1>4. QED
  BY <1>1, <1>2, <1>3, PTL DEF Spec
=============================================================================
