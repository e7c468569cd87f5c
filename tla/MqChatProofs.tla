---------------------------- MODULE MqChatProofs ----------------------------
(***************************************************************************)
(* Theorems about MqChat, for any set of processes, any capacity of the     *)
(* queues, any number of lines, Ctrl-C and kills: one creator at a time     *)
(* manages the names of the queues, every variable keeps its type, and the  *)
(* texts of a sender are printed in order and without a gap.                *)
(***************************************************************************)
EXTENDS MqChat, TLAPS, SequenceTheorems

\* The places between the choice of a role and the end of the chat function.
Chatting == {"test", "fgets", "send", "bye", "close", "join"}

\* The part of TypeOK that the names depend on.
NamesType ==
  /\ name \in [Queues -> Procs \cup {None}]
  /\ desc \in [Procs -> [Queues -> Procs \cup {None}]]
  /\ role \in [Procs -> {"none", "creator", "client"}]
  /\ mpc \in [Procs -> MainPlaces]

\* A name that a starting process has just made is still its own: only a creator takes
\* names away, and there is none that could.
Fresh(p) ==
  /\ mpc[p] = "open1" => desc[p][1] = None
  /\ mpc[p] \in {"open1", "open2"} => desc[p][2] = None
  /\ mpc[p] = "open2" /\ desc[p][1] = p => name[1] = p
  /\ mpc[p] \in {"open1", "open2", "reopen1", "reopen2"} => role[p] = "none"

\* A running creator owns both names, up to the step that takes each away.
Owner(p) ==
  /\ mpc[p] \in {"unlink1", "unlink2"} => role[p] = "creator"
  /\ role[p] = "creator" /\ mpc[p] \in Chatting \cup {"unlink1"} => name[1] = p /\ name[2] = p
  /\ mpc[p] = "unlink2" => name[1] # p /\ name[2] = p
  /\ role[p] = "creator" /\ mpc[p] = "exited" => name[1] # p /\ name[2] # p

Owning == \A p \in Procs : Fresh(p) /\ Owner(p)
NInv == NamesType /\ Owning


-----------------------------------------------------------------------------
\* What most steps do: they leave the names and the roles alone and move one main thread
\* inside the chat function, out of it, or to its death.
Moves(p) ==
  /\ name' = name /\ desc' = desc /\ role' = role
  /\ \/ mpc' = mpc
     \/ Running(p) /\ Go(p, "dead")
     \/ mpc[p] \in Chatting /\ \E x \in Chatting \cup {AfterChat(p)} : Go(p, x)

LEMMA InterruptedMoves ==
  ASSUME NamesType, NEW p \in Procs, name' = name, desc' = desc, role' = role, Go(p, Interrupted(p))
  PROVE  Moves(p)
<1>1. CASE mpc[p] = "fgets" \/ mpc[p] = "send" \/ mpc[p] = "bye"
  <2>1. Interrupted(p) \in Chatting \cup {AfterChat(p)}
    BY <1>1 DEF Interrupted, Chatting
  <2>2. QED
    BY <1>1, <2>1 DEF Moves, Chatting
<1>2. CASE ~(mpc[p] = "fgets" \/ mpc[p] = "send" \/ mpc[p] = "bye")
  <2>1. Interrupted(p) = mpc[p]
    BY <1>2 DEF Interrupted
  <2>2. mpc' = mpc
    BY <2>1 DEF Go, NamesType
  <2>3. QED
    BY <2>2 DEF Moves
<1>3. QED
  BY <1>1, <1>2

LEMMA TakeMoves ==
  ASSUME NamesType, NEW p \in Procs, Take(p), name' = name, desc' = desc, role' = role
  PROVE  Moves(p)
<1>1. CASE mpc' = mpc
  BY <1>1 DEF Moves
<1>2. CASE Go(p, mpc[p])
  <2>1. mpc' = mpc
    BY <1>2 DEF Go, NamesType
  <2>2. QED
    BY <2>1 DEF Moves
<1>3. CASE Go(p, Interrupted(p))
  BY <1>3, InterruptedMoves
<1>4. QED
  BY <1>1, <1>2, <1>3 DEF Take

LEMMA QuietMoves ==
  ASSUME NamesType, NEW p \in Procs,
         \/ MTest(p) \/ MInput(p) \/ MSend(p) \/ MBye(p) \/ MClose(p) \/ MJoin(p)
         \/ ReceiverStep(p) \/ PressCtrlC(p) \/ Die(p)
  PROVE  Moves(p)
<1> USE DEF queues, Go, Moves, Chatting
<1>1. CASE MTest(p)
  BY <1>1 DEF MTest
<1>2. CASE MInput(p)
  BY <1>2 DEF MInput
<1>3. CASE MSend(p)
  BY <1>3 DEF MSend
<1>4. CASE MBye(p)
  BY <1>4 DEF MBye
<1>5. CASE MClose(p)
  BY <1>5 DEF MClose
<1>6. CASE MJoin(p)
  BY <1>6 DEF MJoin
<1>7. CASE ReceiverStep(p)
  <2>1. name' = name /\ desc' = desc /\ role' = role /\ (mpc' = mpc \/ Take(p))
    BY <1>7 DEF ReceiverStep, RTest, RReceive, RWait
  <2>2. QED
    BY <2>1, TakeMoves DEF Moves
<1>8. CASE PressCtrlC(p)
  <2>1. name' = name /\ desc' = desc /\ role' = role /\ (mpc' = mpc \/ Go(p, Interrupted(p)))
    BY <1>8 DEF PressCtrlC
  <2>2. QED
    BY <2>1, InterruptedMoves DEF Moves
<1>9. CASE Die(p)
  BY <1>9 DEF Die
<1>10. QED
  BY <1>1, <1>2, <1>3, <1>4, <1>5, <1>6, <1>7, <1>8, <1>9

\* What a step of q does to the names that p relies on: one step per kind of step.
LEMMA MovesKeep ==
  ASSUME NInv, NEW q \in Procs, Moves(q)
  PROVE  NInv'
<1>1. NamesType'
  BY DEF NInv, NamesType, Moves, Go, AfterChat, Chatting, MainPlaces
<1>2. ASSUME NEW p \in Procs PROVE Fresh(p)' /\ Owner(p)'
  <2>1. Fresh(p) /\ Owner(p)
    BY DEF NInv, Owning
  <2>2. CASE mpc' = mpc
    BY <2>1, <2>2 DEF Moves, Fresh, Owner
  <2>3. CASE Running(q) /\ Go(q, "dead")
    BY <2>1, <2>3 DEF NInv, NamesType, Moves, Fresh, Owner, Go, Chatting
  <2>4. CASE mpc[q] \in Chatting /\ \E x \in Chatting \cup {AfterChat(q)} : Go(q, x)
    BY <2>1, <2>4 DEF NInv, NamesType, Moves, Fresh, Owner, Go, Chatting, AfterChat
  <2>5. QED
    BY <2>2, <2>3, <2>4 DEF Moves
<1>3. QED
  BY <1>1, <1>2 DEF NInv, Owning

\* The open of the first queue takes a name only when there is none.
LEMMA Open1Keeps ==
  ASSUME NInv, NEW q \in Procs, Open1(q)
  PROVE  NInv'
<1> USE ChatAssumption DEF Open1, OpenExclusive, Go, Queues
<1>1. NamesType'
  BY DEF NInv, NamesType, MainPlaces
<1>2. ASSUME NEW p \in Procs PROVE Fresh(p)' /\ Owner(p)'
  <2>1. Fresh(p) /\ Owner(p) /\ Fresh(q)
    BY DEF NInv, Owning
  <2>2. Fresh(p)'
    BY <2>1 DEF NInv, NamesType, Fresh
  <2>3. Owner(p)'
    BY <2>1 DEF NInv, NamesType, Owner, Chatting
  <2>4. QED
    BY <2>2, <2>3
<1>3. QED
  BY <1>1, <1>2 DEF NInv, Owning

\* Who makes both queues still owns the first: it becomes the creator.
LEMMA Open2Keeps ==
  ASSUME NInv, NEW q \in Procs, Open2(q)
  PROVE  NInv'
<1> USE ChatAssumption DEF Open2, OpenExclusive, Go, Queues
<1>1. NamesType'
  BY DEF NInv, NamesType, MainPlaces
<1>2. ASSUME NEW p \in Procs PROVE Fresh(p)' /\ Owner(p)'
  <2>1. Fresh(p) /\ Owner(p) /\ Fresh(q)
    BY DEF NInv, Owning
  <2>2. Fresh(p)'
    BY <2>1 DEF NInv, NamesType, Fresh
  <2>3. Owner(p)'
    <3>1. CASE role' = [role EXCEPT ![q] = "creator"] /\ p = q
      <4>1. desc'[q][1] = q /\ desc'[q][2] = q
        BY <3>1, <2>1 DEF NInv, NamesType, Fresh
      <4>2. name'[1] = q /\ name'[2] = q
        BY <4>1, <2>1 DEF NInv, NamesType, Fresh
      <4>3. QED
        BY <3>1, <4>2 DEF NInv, NamesType, Owner, Chatting
    <3>2. CASE p # q
      BY <2>1, <3>2 DEF NInv, NamesType, Owner, Chatting
    <3>3. CASE role' = role /\ p = q
      BY <2>1, <3>3 DEF NInv, NamesType, Fresh, Owner, Chatting
    <3>4. QED
      BY <3>1, <3>2, <3>3
  <2>4. QED
    BY <2>2, <2>3
<1>3. QED
  BY <1>1, <1>2 DEF NInv, Owning

LEMMA ReopenKeeps ==
  ASSUME NInv, NEW q \in Procs, Reopen1(q) \/ Reopen2(q)
  PROVE  NInv'
<1> USE DEF Reopen1, Reopen2, Go, Queues, queues
<1>1. NamesType'
  BY DEF NInv, NamesType, MainPlaces
<1>2. ASSUME NEW p \in Procs PROVE Fresh(p)' /\ Owner(p)'
  <2>1. Fresh(p) /\ Owner(p) /\ Fresh(q)
    BY DEF NInv, Owning
  <2>2. Fresh(p)'
    BY <2>1 DEF NInv, NamesType, Fresh
  <2>3. Owner(p)'
    BY <2>1 DEF NInv, NamesType, Fresh, Owner, Chatting
  <2>4. QED
    BY <2>2, <2>3
<1>3. QED
  BY <1>1, <1>2 DEF NInv, Owning

\* A creator takes away its own names only.
LEMMA UnlinkKeeps ==
  ASSUME NInv, NEW q \in Procs, MUnlink1(q) \/ MUnlink2(q)
  PROVE  NInv'
<1> USE ChatAssumption DEF MUnlink1, MUnlink2, Go, Queues
<1>1. NamesType'
  BY DEF NInv, NamesType, MainPlaces
<1>2. ASSUME NEW p \in Procs PROVE Fresh(p)' /\ Owner(p)'
  <2>1. Fresh(p) /\ Owner(p) /\ Owner(q)
    BY DEF NInv, Owning
  <2>2. Fresh(p)'
    BY <2>1 DEF NInv, NamesType, Fresh, Owner, Chatting
  <2>3. Owner(p)'
    BY <2>1 DEF NInv, NamesType, Owner, Chatting
  <2>4. QED
    BY <2>2, <2>3
<1>3. QED
  BY <1>1, <1>2 DEF NInv, Owning

-----------------------------------------------------------------------------
\* The names, the roles and what a starting process made stay consistent.
THEOREM Ownership == Spec => []NInv
<1>1. Init => NInv
  BY DEF Init, NInv, NamesType, Owning, Fresh, Owner, Queues, Chatting, MainPlaces
<1>2. ASSUME NInv, [Next]_vars PROVE NInv'
  <2>1. CASE UNCHANGED vars
    BY <1>2, <2>1 DEF vars, queues, NInv, NamesType, Owning, Fresh, Owner
  <2>2. ASSUME NEW q \in Procs,
               \/ Open1(q) \/ Starting(q) \/ MInput(q) \/ MainStep(q) \/ ReceiverStep(q)
               \/ PressCtrlC(q) \/ Die(q)
        PROVE  NInv'
    <3>1. NamesType
      BY <1>2 DEF NInv
    <3>2. QED
      BY <1>2, <2>2, <3>1, QuietMoves, MovesKeep, Open1Keeps, Open2Keeps, ReopenKeeps, UnlinkKeeps
         DEF Starting, MainStep
  <2>3. QED
    BY <1>2, <2>1, <2>2 DEF Next
<1>3. QED
  BY <1>1, <1>2, PTL DEF Spec

\* Never two running creators, and no name left behind by a creator that was not killed,
\* although processes start while another one unlinks its names one after the other.
THEOREM NamesAreManaged == Spec => []NamesManaged
<1>1. NInv => NamesManaged
  <2> SUFFICES ASSUME NInv PROVE OneCreator /\ CleanExit
    BY DEF NamesManaged
  <2>1. OneCreator
    <3>1. ASSUME NEW p \in Procs, Running(p), role[p] = "creator" PROVE name[2] = p
      BY <3>1 DEF NInv, NamesType, Owning, Fresh, Owner, Running, Chatting, MainPlaces
    <3>2. QED
      BY <3>1 DEF OneCreator
  <2>2. CleanExit
    BY DEF NInv, Owning, Owner, CleanExit, Queues
  <2>3. QED
    BY <2>1, <2>2
<1>2. QED
  BY Ownership, <1>1, PTL

-----------------------------------------------------------------------------
(* Types, and what a process is before it has a role.                      *)

Unstarted == {"open1", "open2", "reopen1", "reopen2"}

RoleInv(p) ==
  /\ role[p] = "none" => rpc[p] = "none" /\ lines[p] = 0 /\ mpc[p] \in Unstarted \cup {"exited", "dead"}
  /\ role[p] # "none" => desc[p] \in [Queues -> Procs] /\ mpc[p] \notin Unstarted
  /\ mpc[p] = "reopen2" => desc[p][1] \in Procs
  /\ mpc[p] = "send" => lines[p] >= 1

TInv == TypeOK /\ \A p \in Procs : RoleInv(p)

\* What a message changes in a queue.
LEMMA InsertBehind ==
  ASSUME NEW S, NEW s \in Seq(S), NEW k \in 0 .. Len(s), NEW m \in S
  PROVE  /\ InsertAt(s, k + 1, m) \in Seq(S) /\ Len(InsertAt(s, k + 1, m)) = Len(s) + 1
         /\ \A i \in 1 .. Len(s) + 1 : InsertAt(s, k + 1, m)[i] =
              IF i <= k THEN s[i] ELSE IF i = k + 1 THEN m ELSE s[i - 1]
<1> DEFINE before == SubSeq(s, 1, k)
           after == SubSeq(s, k + 1, Len(s))
<1>1. Len(s) \in Nat /\ \A i \in 1 .. Len(s) : s[i] \in S
  BY ElementOfSeq, LenProperties
<1>2. before \in Seq(S) /\ Len(before) = k /\ \A i \in 1 .. k : before[i] = s[i]
  <2>1. \A i \in 1 .. k : s[i] \in S
    BY <1>1
  <2>2. /\ before \in Seq(S) /\ Len(before) = IF 1 <= k THEN k - 1 + 1 ELSE 0
        /\ \A i \in 1 .. k - 1 + 1 : before[i] = s[1 + i - 1]
    BY <1>1, <2>1, SubSeqProperties
  <2>3. QED
    BY <1>1, <2>2
<1>3. /\ after \in Seq(S) /\ Len(after) = Len(s) - k
      /\ \A i \in 1 .. Len(s) - k : after[i] = s[k + i]
  <2>1. \A i \in k + 1 .. Len(s) : s[i] \in S
    BY <1>1
  <2>2. /\ after \in Seq(S)
        /\ Len(after) = IF k + 1 <= Len(s) THEN Len(s) - (k + 1) + 1 ELSE 0
        /\ \A i \in 1 .. Len(s) - (k + 1) + 1 : after[i] = s[k + 1 + i - 1]
    BY <1>1, <2>1, SubSeqProperties
  <2>3. QED
    BY <1>1, <2>2
<1> DEFINE one == <<m>>
           front == before \o one
           whole == front \o after
<1>4. InsertAt(s, k + 1, m) = whole
  <2>1. (k + 1) - 1 = k
    OBVIOUS
  <2>2. QED
    BY <2>1 DEF InsertAt
<1>5. one \in Seq(S) /\ Len(one) = 1 /\ one[1] = m
  OBVIOUS
<1> HIDE DEF before, after, one
<1>6. /\ front \in Seq(S) /\ Len(front) = k + 1
      /\ \A i \in 1 .. k + 1 : front[i] = IF i <= k THEN before[i] ELSE one[i - k]
  <2>1. before \in Seq(S) /\ one \in Seq(S) /\ Len(before) = k /\ Len(one) = 1
    BY <1>2, <1>5
  <2>2. /\ front \in Seq(S) /\ Len(front) = Len(before) + Len(one)
        /\ \A i \in 1 .. Len(before) + Len(one) :
             front[i] = IF i <= Len(before) THEN before[i] ELSE one[i - Len(before)]
    BY <2>1, ConcatProperties
  <2> HIDE DEF front
  <2>3. QED
    BY <2>1, <2>2
<1> HIDE DEF front
<1>7. /\ whole \in Seq(S) /\ Len(whole) = Len(s) + 1
      /\ \A i \in 1 .. Len(s) + 1 : whole[i] =
           IF i <= k + 1 THEN front[i] ELSE after[i - (k + 1)]
  <2>1. front \in Seq(S) /\ after \in Seq(S) /\ Len(front) = k + 1 /\ Len(after) = Len(s) - k
    BY <1>3, <1>6
  <2>2. /\ whole \in Seq(S) /\ Len(whole) = Len(front) + Len(after)
        /\ \A i \in 1 .. Len(front) + Len(after) :
             whole[i] = IF i <= Len(front) THEN front[i] ELSE after[i - Len(front)]
    BY <2>1, ConcatProperties
  <2>3. Len(front) + Len(after) = Len(s) + 1
    BY <1>1, <2>1
  <2> HIDE DEF whole
  <2>4. QED
    BY <2>1, <2>2, <2>3
<1> HIDE DEF whole
<1>8. ASSUME NEW i \in 1 .. Len(s) + 1
      PROVE  whole[i] = IF i <= k THEN s[i] ELSE IF i = k + 1 THEN m ELSE s[i - 1]
  <2>1. CASE i <= k
    BY <1>1, <1>2, <1>6, <1>7, <2>1
  <2>2. CASE i = k + 1
    <3>1. i - k = 1
      BY <2>2
    <3>2. QED
      BY <1>1, <1>5, <1>6, <1>7, <2>2, <3>1
  <2>3. CASE i > k + 1
    <3>1. i - (k + 1) \in 1 .. Len(s) - k /\ k + (i - (k + 1)) = i - 1
      BY <1>1, <2>3
    <3>2. QED
      BY <1>3, <1>7, <2>3, <3>1
  <2>4. QED
    BY <2>1, <2>2, <2>3
<1>9. QED
  BY <1>4, <1>7, <1>8

\* r is s with m at place n.
Inserted(r, s, n, m) ==
  /\ DOMAIN r = 1 .. Len(s) + 1
  /\ \A i \in 1 .. Len(s) + 1 : r[i] = IF i < n THEN s[i] ELSE IF i = n THEN m ELSE s[i - 1]

LEMMA InsertProperties ==
  ASSUME NEW S, NEW s \in Seq(S), NEW n \in 1 .. Len(s) + 1, NEW m \in S, NEW r, r = InsertAt(s, n, m)
  PROVE  r \in Seq(S) /\ Len(r) = Len(s) + 1 /\ Inserted(r, s, n, m)
<1>1. PICK k \in 0 .. Len(s) : n = k + 1
  <2>1. n - 1 \in 0 .. Len(s) /\ n = (n - 1) + 1
    BY LenProperties
  <2>2. QED
    BY <2>1
<1>2. r = InsertAt(s, k + 1, m)
  BY <1>1
<1>3. /\ InsertAt(s, k + 1, m) \in Seq(S) /\ Len(InsertAt(s, k + 1, m)) = Len(s) + 1
      /\ \A i \in 1 .. Len(s) + 1 : InsertAt(s, k + 1, m)[i] =
           IF i <= k THEN s[i] ELSE IF i = k + 1 THEN m ELSE s[i - 1]
  BY InsertBehind
<1>4. /\ r \in Seq(S) /\ Len(r) = Len(s) + 1
      /\ \A i \in 1 .. Len(s) + 1 : r[i] = IF i <= k THEN s[i] ELSE IF i = k + 1 THEN m ELSE s[i - 1]
  BY <1>2, <1>3
<1> HIDE <1>2, <1>3
<1>5. DOMAIN r = 1 .. Len(s) + 1
  BY <1>4, LenProperties
<1>6. Len(s) \in Nat
  BY LenProperties
<1>7. QED
  BY <1>1, <1>4, <1>5, <1>6 DEF Inserted

-----------------------------------------------------------------------------
(* Who sent what, and where it is.                                         *)

\* The last line that q has sent, and whether it may still send one.
LastSent(q) == IF mpc[q] = "send" THEN lines[q] - 1 ELSE lines[q]
Going(q) == role[q] # "none" /\ mpc[q] \in {"test", "fgets", "send"}

InBox(o) == {box[o][i] : i \in DOMAIN box[o]} \ {End}
Printed(p) == {got[p][i] : i \in DOMAIN got[p]}
Had(o, p) == IF p \in readers[o] THEN Printed(p) ELSE {}

\* q's texts lie in the queue that q sends to, in the order they were typed, and come out
\* at the processes that receive from it.
Sent(m, o) == role[m.from] # "none" /\ Outbox(m.from) = o /\ m.num <= LastSent(m.from)
Sorted(o) ==
  \A i, j \in DOMAIN box[o] :
    i < j /\ box[o][i].from = box[o][j].from /\ box[o][i].from \in Procs => box[o][i].num < box[o][j].num
Origin ==
  /\ \A o \in Objects : \A m \in InBox(o) : Sent(m, o)
  /\ \A p \in Procs : \A m \in Printed(p) : Sent(m, Inbox(p)) /\ p \in readers[Inbox(p)]
  /\ \A o \in Objects : \A p \in readers[o] : role[p] # "none" /\ Inbox(p) = o

\* As long as p alone receives from o, what p has printed and what still lies in the queue
\* is all that was sent to it: no text is missing before one that is there, and the last
\* is the last that was sent.
Whole(o, p) ==
  readers[o] \subseteq {p} =>
    /\ \A m \in InBox(o) \cup Had(o, p) :
         m.num > 1 => Text(m.from, m.num - 1) \in InBox(o) \cup Had(o, p)
    /\ \A q \in Procs : Going(q) /\ Outbox(q) = o /\ LastSent(q) >= 1 =>
         Text(q, LastSent(q)) \in InBox(o) \cup Had(o, p)
    /\ \A m \in Had(o, p), x \in InBox(o) : m.from = x.from => m.num < x.num

InOrder(p) ==
  role[p] # "none" /\ readers[Inbox(p)] \subseteq {p} =>
    \A i \in DOMAIN got[p] :
      /\ \A j \in 1 .. i - 1 : got[p][j].from = got[p][i].from => got[p][j].num < got[p][i].num
      /\ got[p][i].num > 1 => \E j \in 1 .. i - 1 : got[p][j] = Text(got[p][i].from, got[p][i].num - 1)

Streams ==
  /\ Origin
  /\ \A o \in Objects : Sorted(o) /\ \A p \in Procs : Whole(o, p)
  /\ \A p \in Procs : InOrder(p)

-----------------------------------------------------------------------------
(* Every step keeps the types.                                             *)

LEMMA ConstantTypes ==
  /\ MaxPresses \in Nat /\ MaxCrashes \in Nat /\ None \notin Procs
  /\ End \in Messages /\ End \notin Texts /\ Texts \subseteq Messages
  /\ \A p \in Procs, n \in Nat : n >= 1 => Text(p, n) \in Texts
BY ChatAssumption DEF End, Messages, Texts, Text

LEMMA TInvInit == Init => TInv
<1> SUFFICES ASSUME Init PROVE TInv
  OBVIOUS
<1>1. limit \in Nat /\ limit >= 1 /\ MaxPresses \in Nat /\ MaxCrashes \in Nat
  BY ChatAssumption DEF Init
<1>2. <<>> \in Seq(Messages) /\ <<>> \in Seq(Texts) /\ Len(<<>>) = 0
  OBVIOUS
<1>3. TypeOK
  BY <1>1, <1>2 DEF Init, TypeOK, MainPlaces
<1>4. \A p \in Procs : RoleInv(p)
  BY DEF Init, RoleInv, Unstarted
<1>5. QED
  BY <1>3, <1>4 DEF TInv

\* What p has opened when it has a role.
LEMMA Opened ==
  ASSUME TInv, NEW p \in Procs, role[p] # "none"
  PROVE  /\ Inbox(p) \in Objects /\ Outbox(p) \in Objects /\ Inbox(p) # Outbox(p)
         /\ limit \in Nat /\ mpc[p] \notin Unstarted
<1>1. desc[p] \in [Queues -> Procs] /\ In(p) \in Queues /\ Out(p) \in Queues /\ In(p) # Out(p)
  BY DEF TInv, RoleInv, In, Out, Queues
<1>2. limit \in Nat /\ mpc[p] \notin Unstarted
  BY ChatAssumption DEF TInv, TypeOK, RoleInv
<1>3. QED
  BY <1>1, <1>2 DEF Inbox, Outbox, Objects

LEMMA HasRole ==
  ASSUME TInv, NEW p \in Procs,
         mpc[p] \notin Unstarted \cup {"exited", "dead"} \/ rpc[p] # "none"
  PROVE  role[p] # "none"
BY DEF TInv, RoleInv

LEMMA PutTyped ==
  ASSUME TInv, NEW o \in Objects, NEW m \in Messages, Put(o, m)
  PROVE  box' \in [Objects -> Seq(Messages)] /\ \A x \in Objects : Len(box'[x]) <= limit
<1>1. PICK k \in 0 .. Len(box[o]) : box' = [box EXCEPT ![o] = InsertAt(box[o], k + 1, m)]
  BY DEF Put
<1>2. box[o] \in Seq(Messages) /\ Len(box[o]) \in Nat /\ limit \in Nat /\ Len(box[o]) < limit
  BY ChatAssumption, LenProperties DEF TInv, TypeOK, Put, Full
<1>3. /\ InsertAt(box[o], k + 1, m) \in Seq(Messages)
      /\ Len(InsertAt(box[o], k + 1, m)) = Len(box[o]) + 1
  <2>1. k + 1 \in 1 .. Len(box[o]) + 1
    BY <1>2
  <2>2. QED
    BY <1>2, <2>1, InsertProperties, LenProperties
<1>4. QED
  BY <1>1, <1>2, <1>3 DEF TInv, TypeOK

LEMMA TakeTyped ==
  ASSUME TInv, NEW p \in Procs, role[p] # "none", box[Inbox(p)] # <<>>, Take(p)
  PROVE  /\ box' \in [Objects -> Seq(Messages)] /\ \A x \in Objects : Len(box'[x]) <= limit
         /\ readers' \in [Objects -> SUBSET Procs] /\ got' \in [Procs -> Seq(Texts)]
         /\ keep' \in [Procs -> BOOLEAN]
<1> DEFINE o == Inbox(p)
<1>1. o \in Objects /\ limit \in Nat
  BY Opened
<1> HIDE DEF o
<1>2. box[o] \in Seq(Messages) /\ Len(box[o]) \in Nat /\ box[o] # <<>>
  BY <1>1, LenProperties DEF TInv, TypeOK, o
<1>3. /\ Head(box[o]) \in Messages
      /\ Tail(box[o]) \in Seq(Messages) /\ Len(Tail(box[o])) = Len(box[o]) - 1
  BY <1>2, HeadTailProperties
<1>4. box' = [box EXCEPT ![o] = Tail(box[o])] /\ readers' = [readers EXCEPT ![o] = readers[o] \cup {p}]
  BY DEF Take, o
<1>5. box' \in [Objects -> Seq(Messages)] /\ \A x \in Objects : Len(box'[x]) <= limit
  BY <1>1, <1>2, <1>3, <1>4 DEF TInv, TypeOK
<1>6. readers' \in [Objects -> SUBSET Procs]
  BY <1>1, <1>4 DEF TInv, TypeOK
<1>7. got' \in [Procs -> Seq(Texts)] /\ keep' \in [Procs -> BOOLEAN]
  <2>1. CASE Head(box[o]) # End /\ got' = [got EXCEPT ![p] = Append(got[p], Head(box[o]))] /\ keep' = keep
    <3>1. Head(box[o]) \in Texts /\ got[p] \in Seq(Texts)
      BY <1>3, <2>1 DEF Messages, TInv, TypeOK
    <3>2. Append(got[p], Head(box[o])) \in Seq(Texts)
      BY <3>1, AppendProperties
    <3>3. QED
      BY <2>1, <3>2 DEF TInv, TypeOK
  <2>2. CASE got' = got /\ keep' = [keep EXCEPT ![p] = FALSE]
    BY <2>2 DEF TInv, TypeOK
  <2>3. QED
    BY <2>1, <2>2 DEF Take, IsEnd, o
<1>8. QED
  BY <1>5, <1>6, <1>7

\* The part of the state that most steps leave alone, and the part they change.
LEMMA ConversationTyped ==
  ASSUME TInv, NEW p \in Procs,
         \/ MTest(p) \/ MInput(p) \/ MSend(p) \/ MBye(p) \/ MClose(p) \/ MJoin(p)
         \/ MUnlink1(p) \/ MUnlink2(p)
         \/ ReceiverStep(p) \/ PressCtrlC(p) \/ Die(p)
  PROVE  TypeOK'
<1> USE ConstantTypes
<1>a. Interrupted(p) \in MainPlaces /\ AfterChat(p) \in MainPlaces
  BY DEF Interrupted, AfterChat, MainPlaces, TInv, TypeOK
<1>b. /\ mpc \in [Procs -> MainPlaces] /\ rpc \in [Procs -> {"none", "test", "receive", "wait", "ended"}]
      /\ \A x \in MainPlaces : Go(p, x) => mpc' \in [Procs -> MainPlaces]
      /\ \A x \in {"none", "test", "receive", "wait", "ended"} :
           RGo(p, x) => rpc' \in [Procs -> {"none", "test", "receive", "wait", "ended"}]
  <2>1. mpc \in [Procs -> MainPlaces] /\ rpc \in [Procs -> {"none", "test", "receive", "wait", "ended"}]
    BY DEF TInv, TypeOK
  <2>2. ASSUME NEW x \in MainPlaces, Go(p, x) PROVE mpc' \in [Procs -> MainPlaces]
    BY <2>1, <2>2 DEF Go
  <2>3. ASSUME NEW x \in {"none", "test", "receive", "wait", "ended"}, RGo(p, x)
        PROVE  rpc' \in [Procs -> {"none", "test", "receive", "wait", "ended"}]
    BY <2>1, <2>3 DEF RGo
  <2>4. QED
    BY <2>1, <2>2, <2>3
<1>1. CASE MTest(p)
  BY <1>1, <1>b DEF MTest, TInv, TypeOK, MainPlaces, queues, user
<1>2. CASE MInput(p)
  <2>1. lines' \in [Procs -> Nat]
    <3>1. lines \in [Procs -> Nat]
      BY DEF TInv, TypeOK
    <3>2. CASE lines' = [lines EXCEPT ![p] = lines[p] + 1]
      BY <3>1, <3>2
    <3>3. CASE lines' = lines
      BY <3>1, <3>3
    <3>4. QED
      BY <1>2, <3>2, <3>3 DEF MInput
  <2>2. mpc' \in [Procs -> MainPlaces]
    BY <1>2, <1>b DEF MInput, MainPlaces
  <2>3. QED
    BY <1>2, <2>1, <2>2 DEF MInput, TInv, TypeOK, queues
<1>3. CASE MSend(p)
  <2>1. role[p] # "none" /\ Outbox(p) \in Objects
    BY <1>3, HasRole, Opened DEF MSend, Unstarted
  <2>2. mpc[p] = "send" /\ Put(Outbox(p), Text(p, lines[p]))
    BY <1>3 DEF MSend
  <2>3. Text(p, lines[p]) \in Messages
    BY <2>2 DEF TInv, TypeOK, RoleInv
  <2>4. QED
    BY <1>3, <1>b, <2>1, <2>2, <2>3, PutTyped DEF MSend, TInv, TypeOK, MainPlaces, user
<1>4. CASE MBye(p)
  <2>1. role[p] # "none" /\ Outbox(p) \in Objects
    BY <1>4, HasRole, Opened DEF MBye, Unstarted
  <2>2. QED
    BY <1>4, <1>b, <2>1, PutTyped DEF MBye, TInv, TypeOK, MainPlaces, user
<1>5. CASE MClose(p)
  BY <1>5, <1>b DEF MClose, TInv, TypeOK, MainPlaces, queues, user
<1>6. CASE MJoin(p)
  BY <1>6, <1>a, <1>b DEF MJoin, TInv, TypeOK, queues, user
<1>7. CASE MUnlink1(p) \/ MUnlink2(p)
  BY <1>7, <1>b DEF MUnlink1, MUnlink2, TInv, TypeOK, MainPlaces, user, Queues
<1>8. CASE ReceiverStep(p)
  <2>1. CASE Take(p) /\ rpc[p] \in {"receive", "wait"} /\ box[Inbox(p)] # <<>>
    <3>1. role[p] # "none"
      BY <2>1, HasRole
    <3>2. /\ rpc' \in [Procs -> {"none", "test", "receive", "wait", "ended"}]
          /\ mpc' \in [Procs -> MainPlaces]
      BY <1>a, <1>b, <2>1 DEF Take
    <3>3. UNCHANGED <<limit, name, desc, role, closed, user>>
      BY <1>8, <2>1 DEF ReceiverStep, RTest, RReceive, RWait, RGo
    <3>4. QED
      BY <2>1, <3>1, <3>2, <3>3, TakeTyped DEF TInv, TypeOK, user
  <2>2. CASE \E x \in {"receive", "wait", "ended"} : RGo(p, x) /\ UNCHANGED <<limit, queues, desc, role, mpc, keep, closed, user, got, readers>>
    BY <1>b, <2>2 DEF TInv, TypeOK, queues, user
  <2>3. QED
    BY <1>8, <2>1, <2>2 DEF ReceiverStep, RTest, RReceive, RWait, queues
<1>9. CASE PressCtrlC(p)
  BY <1>9, <1>a, <1>b DEF PressCtrlC, TInv, TypeOK, queues
<1>10. CASE Die(p)
  BY <1>10, <1>b DEF Die, TInv, TypeOK, MainPlaces, queues
<1>11. QED
  BY <1>1, <1>2, <1>3, <1>4, <1>5, <1>6, <1>7, <1>8, <1>9, <1>10

LEMMA StartTyped ==
  ASSUME TInv, NEW p \in Procs, Open1(p) \/ Starting(p)
  PROVE  TypeOK'
<1> USE ConstantTypes
<1>a. \A x \in MainPlaces : Go(p, x) => mpc' \in [Procs -> MainPlaces]
  BY DEF TInv, TypeOK, Go
<1>b. \A i \in Queues : OpenExclusive(p, i) =>
        /\ name' \in [Queues -> Procs \cup {None}]
        /\ desc' \in [Procs -> [Queues -> Procs \cup {None}]]
  <2>1. /\ name \in [Queues -> Procs \cup {None}]
        /\ desc \in [Procs -> [Queues -> Procs \cup {None}]]
    BY DEF TInv, TypeOK
  <2>2. ASSUME NEW i \in Queues
        PROVE  /\ [name EXCEPT ![i] = p] \in [Queues -> Procs \cup {None}]
               /\ [desc EXCEPT ![p][i] = p] \in [Procs -> [Queues -> Procs \cup {None}]]
    BY <2>1
  <2>3. QED
    BY <2>1, <2>2 DEF OpenExclusive
<1>c. \A x \in {"creator", "client"} : role' = [role EXCEPT ![p] = x] =>
        role' \in [Procs -> {"none", "creator", "client"}]
  BY DEF TInv, TypeOK
<1>d. RGo(p, "test") => rpc' \in [Procs -> {"none", "test", "receive", "wait", "ended"}]
  BY DEF TInv, TypeOK, RGo
<1>1. CASE Open1(p)
  <2>1. /\ name' \in [Queues -> Procs \cup {None}]
        /\ desc' \in [Procs -> [Queues -> Procs \cup {None}]]
    BY <1>1, <1>b DEF Open1, Queues
  <2>2. mpc' \in [Procs -> MainPlaces]
    BY <1>1, <1>a DEF Open1, MainPlaces
  <2>3. UNCHANGED <<limit, box, role, rpc, keep, closed, lines, presses, crashes, got, readers>>
    BY <1>1 DEF Open1, user
  <2>4. QED
    BY <2>1, <2>2, <2>3 DEF TInv, TypeOK
<1>2. CASE Open2(p)
  <2>1. /\ mpc' \in [Procs -> MainPlaces] /\ role' \in [Procs -> {"none", "creator", "client"}]
        /\ rpc' \in [Procs -> {"none", "test", "receive", "wait", "ended"}]
    BY <1>2, <1>a, <1>c, <1>d DEF Open2, MainPlaces, TInv, TypeOK
  <2>2. /\ name' \in [Queues -> Procs \cup {None}]
        /\ desc' \in [Procs -> [Queues -> Procs \cup {None}]]
    BY <1>2, <1>b DEF Open2, Queues
  <2>3. UNCHANGED <<limit, box, keep, closed, lines, presses, crashes, got, readers>>
    BY <1>2 DEF Open2, user
  <2>4. QED
    BY <2>1, <2>2, <2>3 DEF TInv, TypeOK
<1>3. CASE Reopen1(p)
  BY <1>3, <1>a DEF Reopen1, TInv, TypeOK, MainPlaces, queues, user, Queues
<1>4. CASE Reopen2(p)
  <2>1. /\ mpc' \in [Procs -> MainPlaces] /\ role' \in [Procs -> {"none", "creator", "client"}]
        /\ rpc' \in [Procs -> {"none", "test", "receive", "wait", "ended"}]
    BY <1>4, <1>a, <1>c, <1>d DEF Reopen2, MainPlaces, TInv, TypeOK
  <2>2. desc' \in [Procs -> [Queues -> Procs \cup {None}]]
    BY <1>4 DEF Reopen2, TInv, TypeOK, Queues
  <2>3. QED
    BY <1>4, <2>1, <2>2 DEF Reopen2, TInv, TypeOK, queues, user
<1>5. QED
  BY <1>1, <1>2, <1>3, <1>4 DEF Starting

LEMMA StartRole ==
  ASSUME TInv, NEW p \in Procs, Open1(p) \/ Starting(p), NEW q \in Procs
  PROVE  RoleInv(q)'
<1> USE ChatAssumption DEF Unstarted, Queues
<1>1. RoleInv(q) /\ RoleInv(p) /\ role[p] = "none"
  BY DEF TInv, RoleInv, Open1, Starting, Open2, Reopen1, Reopen2
<1>2. CASE q # p
  <2>1. /\ role'[q] = role[q] /\ rpc'[q] = rpc[q] /\ mpc'[q] = mpc[q] /\ desc'[q] = desc[q]
        /\ lines'[q] = lines[q]
    BY <1>2 DEF Open1, Starting, Open2, Reopen1, Reopen2, OpenExclusive, Go, RGo, TInv, TypeOK,
                queues, user
  <2>2. QED
    BY <1>1, <2>1 DEF RoleInv
<1>3. CASE q = p /\ Open1(p)
  BY <1>1, <1>3 DEF RoleInv, Open1, OpenExclusive, Go, TInv, TypeOK, user
<1>4. CASE q = p /\ Open2(p)
  <2>1. desc'[p] = [i \in Queues |-> p] => desc'[p] \in [Queues -> Procs]
    OBVIOUS
  <2>2. QED
    BY <1>1, <1>4, <2>1 DEF RoleInv, Open2, Go, RGo, TInv, TypeOK, user
<1>5. CASE q = p /\ Reopen1(p)
  BY <1>1, <1>5 DEF RoleInv, Reopen1, Go, TInv, TypeOK, queues, user
<1>6. CASE q = p /\ Reopen2(p)
  BY <1>1, <1>6 DEF RoleInv, Reopen2, Go, RGo, TInv, TypeOK, queues, user
<1>7. QED
  BY <1>2, <1>3, <1>4, <1>5, <1>6 DEF Starting

LEMMA UnlinkRole ==
  ASSUME TInv, NEW p \in Procs, MUnlink1(p) \/ MUnlink2(p), NEW q \in Procs
  PROVE  RoleInv(q)'
<1>1. RoleInv(q)
  BY DEF TInv
<1>2. QED
  BY <1>1 DEF RoleInv, MUnlink1, MUnlink2, Unstarted, Go, TInv, TypeOK, user

LEMMA ConversationRole ==
  ASSUME TInv, NEW p \in Procs,
         \/ MTest(p) \/ MInput(p) \/ MSend(p) \/ MBye(p) \/ MClose(p) \/ MJoin(p)
         \/ ReceiverStep(p) \/ PressCtrlC(p) \/ Die(p),
         NEW q \in Procs
  PROVE  RoleInv(q)'
<1>1. RoleInv(q) /\ NamesType
  BY DEF TInv, TypeOK, NamesType
<1>2. Moves(p)
  BY <1>1, QuietMoves
<1>3. rpc[q] = "none" => rpc'[q] = "none"
  BY DEF MTest, MInput, MSend, MBye, MClose, MJoin, ReceiverStep, RTest, RReceive, RWait, Take,
         PressCtrlC, Die, RGo, TInv, TypeOK
<1>4. role[q] = "none" => lines'[q] = lines[q]
  <2>1. lines' = lines \/ (mpc[p] = "fgets" /\ lines' = [lines EXCEPT ![p] = lines[p] + 1])
    BY DEF MTest, MInput, MSend, MBye, MClose, MJoin, ReceiverStep, RTest, RReceive, RWait,
           PressCtrlC, Die, user
  <2>2. mpc[p] = "fgets" => role[p] # "none"
    BY HasRole DEF Unstarted
  <2>3. QED
    BY <2>1, <2>2 DEF TInv, TypeOK
<1>5. /\ role'[q] = role[q] /\ desc'[q] = desc[q]
      /\ mpc'[q] # mpc[q] => mpc'[q] = "dead" \/ (mpc[q] \in Chatting /\ mpc'[q] \notin Unstarted)
  BY <1>2 DEF Moves, Go, AfterChat, Chatting, Unstarted, TInv, TypeOK
<1>6. mpc'[q] = "send" => lines'[q] >= 1
  <2>1. lines' = lines \/ (mpc[p] = "fgets" /\ lines' = [lines EXCEPT ![p] = lines[p] + 1])
    BY DEF MTest, MInput, MSend, MBye, MClose, MJoin, ReceiverStep, RTest, RReceive, RWait,
           PressCtrlC, Die, user
  <2>2. ASSUME mpc'[q] = "send", mpc[q] # "send" PROVE q = p /\ MInput(p) /\ lines' # lines
    <3>1. Interrupted(p) # "send" \/ Interrupted(p) = mpc[p]
      BY DEF Interrupted, AfterChat
    <3>2. QED
      BY <2>2, <3>1 DEF MTest, MInput, MSend, MBye, MClose, MJoin, ReceiverStep, RTest, RReceive,
         RWait, Take, PressCtrlC, Die, Go, AfterChat, TInv, TypeOK
  <2>3. QED
    BY <1>1, <2>1, <2>2 DEF RoleInv, TInv, TypeOK
<1>7. QED
  BY <1>1, <1>3, <1>4, <1>5, <1>6 DEF RoleInv, Unstarted, Chatting

LEMMA TInvStep == TInv /\ [Next]_vars => TInv'
<1> SUFFICES ASSUME TInv, [Next]_vars PROVE TInv'
  OBVIOUS
<1>1. CASE UNCHANGED vars
  BY <1>1 DEF vars, queues, user, TInv, TypeOK, RoleInv
<1>2. ASSUME NEW p \in Procs,
             \/ Open1(p) \/ Starting(p) \/ MInput(p) \/ MainStep(p) \/ ReceiverStep(p)
             \/ PressCtrlC(p) \/ Die(p)
      PROVE  TInv'
  BY <1>2, StartTyped, StartRole, UnlinkRole, ConversationTyped, ConversationRole DEF TInv, MainStep
<1>3. QED
  BY <1>1, <1>2 DEF Next

\* Every variable keeps its type: no queue exceeds its capacity, and no END is printed.
THEOREM TypeCorrect == Spec => []TypeOK
<1>1. TInv => TypeOK
  BY DEF TInv
<1>2. QED
  BY TInvInit, TInvStep, <1>1, PTL DEF Spec

-----------------------------------------------------------------------------
(* Every step keeps the streams of texts unbroken.                         *)

SInv == TInv /\ Streams

\* What a step may do to q: its queues stay its own and what it has sent stays sent; what
\* it may go on sending follows its last line.
Keeps(q) ==
  role[q] # "none" =>
    /\ role'[q] # "none" /\ Inbox(q)' = Inbox(q) /\ Outbox(q)' = Outbox(q)
    /\ LastSent(q)' >= LastSent(q)
Recent(q) == Going(q)' /\ LastSent(q)' >= 1 => Going(q) /\ LastSent(q)' = LastSent(q)

LEMMA LastSentType == ASSUME TInv, NEW q \in Procs PROVE LastSent(q) \in Int
BY DEF TInv, TypeOK, LastSent

\* A message in a queue is a text or the END.
LEMMA BoxTyped ==
  ASSUME TInv, NEW o \in Objects
  PROVE  /\ Len(box[o]) \in Nat /\ DOMAIN box[o] = 1 .. Len(box[o])
         /\ \A i \in 1 .. Len(box[o]) :
              /\ box[o][i] \in Messages
              /\ box[o][i] # End => box[o][i] \in Texts /\ box[o][i] \in InBox(o)
              /\ box[o][i].from \in Procs => box[o][i] # End
         /\ \A m \in InBox(o) : m \in Texts /\ \E i \in 1 .. Len(box[o]) : box[o][i] = m
<1>1. box[o] \in Seq(Messages)
  BY DEF TInv, TypeOK
<1>2. Len(box[o]) \in Nat /\ DOMAIN box[o] = 1 .. Len(box[o]) /\ \A i \in 1 .. Len(box[o]) : box[o][i] \in Messages
  BY <1>1, ElementOfSeq, LenProperties
<1>3. End.from \notin Procs
  BY ConstantTypes DEF End
<1>4. QED
  BY <1>2, <1>3 DEF InBox, Messages

LEMMA GotTyped ==
  ASSUME TInv, NEW p \in Procs
  PROVE  /\ Len(got[p]) \in Nat /\ DOMAIN got[p] = 1 .. Len(got[p])
         /\ \A i \in 1 .. Len(got[p]) : got[p][i] \in Texts /\ got[p][i] \in Printed(p)
         /\ \A m \in Printed(p) : m \in Texts /\ \E i \in 1 .. Len(got[p]) : got[p][i] = m
<1>1. got[p] \in Seq(Texts)
  BY DEF TInv, TypeOK
<1>2. Len(got[p]) \in Nat /\ DOMAIN got[p] = 1 .. Len(got[p]) /\ \A i \in 1 .. Len(got[p]) : got[p][i] \in Texts
  BY <1>1, ElementOfSeq, LenProperties
<1>3. QED
  BY <1>2 DEF Printed

LEMMA SentStays ==
  ASSUME TInv, TInv', \A q \in Procs : Keeps(q), NEW o \in Objects, NEW m \in Texts, Sent(m, o)
  PROVE  Sent(m, o)'
<1>1. m.from \in Procs /\ m.num \in Nat
  BY DEF Texts
<1>2. LastSent(m.from) \in Int /\ LastSent(m.from)' \in Int
  BY <1>1 DEF TInv, TypeOK, LastSent
<1>3. QED
  BY <1>1, <1>2 DEF Sent, Keeps

\* A step that changes neither the texts in the queues, nor their order, nor what was
\* printed.
LEMMA FrameStreams ==
  ASSUME SInv, TInv', \A q \in Procs : Keeps(q) /\ Recent(q),
         \A o \in Objects : InBox(o)' = InBox(o) /\ Sorted(o)',
         got' = got, readers' = readers
  PROVE  Streams'
<1>1. TInv /\ Origin
  BY DEF SInv, Streams
<1>2. \A p \in Procs : Printed(p)' = Printed(p) /\ \A o \in Objects : Had(o, p)' = Had(o, p)
  BY DEF Had, Printed
<1>3. Origin'
  <2>1. \A o \in Objects : \A m \in InBox(o)' : Sent(m, o)'
    BY <1>1, BoxTyped, SentStays DEF Origin
  <2>2. ASSUME NEW p \in Procs, NEW m \in Printed(p)'
        PROVE  Sent(m, Inbox(p))' /\ p \in readers'[Inbox(p)']
    <3>1. m \in Printed(p) /\ m \in Texts
      BY <1>1, <1>2, <2>2, GotTyped
    <3>2. Sent(m, Inbox(p)) /\ p \in readers[Inbox(p)]
      BY <1>1, <3>1 DEF Origin
    <3>3. role[p] # "none" /\ Inbox(p) \in Objects
      <4>1. Inbox(p) \in Objects
        BY <1>1, <3>2, <3>1, Opened DEF Sent, Texts
      <4>2. QED
        BY <1>1, <3>2, <4>1 DEF Origin
    <3>4. Inbox(p)' = Inbox(p)
      BY <3>3 DEF Keeps
    <3>5. \A o : o = Inbox(p) => Sent(m, o)'
      BY <1>1, <3>1, <3>2, <3>3, SentStays
    <3>6. QED
      BY <3>2, <3>4, <3>5 DEF Sent
  <2>3. \A o \in Objects : \A p \in readers'[o] : role'[p] # "none" /\ Inbox(p)' = o
    BY <1>1 DEF Origin, Keeps, TInv, TypeOK
  <2>4. QED
    BY <2>1, <2>2, <2>3 DEF Origin
<1>4. ASSUME NEW o \in Objects, NEW p \in Procs PROVE Whole(o, p)'
  <2>1. Whole(o, p)
    BY DEF SInv, Streams
  <2>2. \A q \in Procs : Going(q)' /\ LastSent(q)' >= 1 /\ Outbox(q)' = o =>
          Going(q) /\ LastSent(q)' = LastSent(q) /\ Outbox(q) = o
    BY DEF Recent, Keeps, Going
  <2>3. QED
    BY <1>2, <2>1, <2>2 DEF Whole, Text
<1>5. ASSUME NEW p \in Procs PROVE InOrder(p)'
  <2>1. CASE role[p] # "none"
    <3>1. InOrder(p) /\ Inbox(p)' = Inbox(p)
      BY <2>1 DEF SInv, Streams, Keeps
    <3>2. QED
      BY <2>1, <3>1 DEF InOrder, Text
  <2>2. CASE role[p] = "none"
    <3>1. \A i \in DOMAIN got[p] : FALSE
      <4>1. \A o \in Objects : p \notin readers[o]
        BY <1>1, <2>2 DEF Origin
      <4>2. \A m \in Printed(p) : Inbox(p) \in Objects /\ p \in readers[Inbox(p)]
        BY <1>1, GotTyped, Opened DEF Origin, Sent, Texts
      <4>3. QED
        BY <4>1, <4>2 DEF Printed
    <3>2. QED
      BY <3>1 DEF InOrder
  <2>3. QED
    BY <2>1, <2>2
<1>6. QED
  BY <1>3, <1>4, <1>5 DEF Streams

\* A text goes behind everything in the queue, an END behind the ENDs.
LEMMA PutText ==
  ASSUME SInv, NEW p \in Procs, mpc[p] = "send",
         NEW a, a = Outbox(p), NEW t, t = Text(p, lines[p]), Put(a, t)
  PROVE  \A o \in Objects :
           /\ Sorted(o)'
           /\ InBox(o)' = IF o = a THEN InBox(o) \cup {t} ELSE InBox(o)
<1>1. TInv /\ Origin /\ \A o \in Objects : Sorted(o)
  BY DEF SInv, Streams
<1>2. /\ role[p] # "none" /\ a \in Objects /\ limit \in Nat /\ lines[p] \in Nat /\ lines[p] >= 1
      /\ t \in Texts /\ t # End /\ t.from = p /\ t.num = lines[p]
  <2>1. role[p] # "none" /\ lines[p] \in Nat /\ lines[p] >= 1
    BY <1>1, HasRole DEF Unstarted, TInv, TypeOK, RoleInv
  <2>2. QED
    BY <1>1, <2>1, Opened, ConstantTypes DEF Text
<1>3. /\ Len(box[a]) \in Nat /\ box[a] \in Seq(Messages) /\ DOMAIN box[a] = 1 .. Len(box[a])
      /\ t \in Messages
  BY <1>1, <1>2, BoxTyped, ConstantTypes DEF TInv, TypeOK
<1>4. PICK k \in 0 .. Len(box[a]) :
        k = Len(box[a]) /\ box' = [box EXCEPT ![a] = InsertAt(box[a], k + 1, t)]
  <2>1. PICK k \in 0 .. Len(box[a]) :
          /\ \A i \in DOMAIN box[a] : i <= k <=> Priority(box[a][i]) >= Priority(t)
          /\ box' = [box EXCEPT ![a] = InsertAt(box[a], k + 1, t)]
    BY DEF Put
  <2>2. \A m : Priority(m) >= Priority(t)
    BY <1>2 DEF Priority, IsEnd
  <2>3. k = Len(box[a])
    BY <1>3, <2>1, <2>2
  <2>4. QED
    BY <2>1, <2>3
<1>5. /\ DOMAIN box[a] = 1 .. k /\ DOMAIN box'[a] = 1 .. k + 1
      /\ \A i \in 1 .. k : box'[a][i] = box[a][i]
      /\ box'[a][k + 1] = t
  <2>1. box'[a] = InsertAt(box[a], k + 1, t)
    BY <1>1, <1>2, <1>4 DEF TInv, TypeOK
  <2>2. k + 1 \in 1 .. Len(box[a]) + 1
    BY <1>3
  <2>3. Inserted(box'[a], box[a], k + 1, t)
    BY <1>3, <2>1, <2>2, InsertProperties
  <2>4. QED
    BY <1>3, <1>4, <2>3 DEF Inserted
<1>6. \A o \in Objects : o # a => box'[o] = box[o]
  BY <1>1, <1>4 DEF TInv, TypeOK
<1>7. Sorted(a)'
  <2>1. \A i \in 1 .. k : box[a][i].from = p => box[a][i].num < t.num
    <3> SUFFICES ASSUME NEW i \in 1 .. k, box[a][i].from = p
                 PROVE  box[a][i].num < t.num
      OBVIOUS
    <3>1. box[a][i] \in InBox(a) /\ box[a][i] \in Texts
      BY <1>1, <1>2, <1>4, BoxTyped
    <3>2. box[a][i].num <= LastSent(p) /\ box[a][i].num \in Nat
      BY <1>1, <1>2, <3>1 DEF Origin, Sent, Texts
    <3>3. QED
      BY <1>2, <3>2 DEF LastSent
  <2>2. Sorted(a)
    BY <1>1, <1>2
  <2>3. SUFFICES ASSUME NEW i \in 1 .. k + 1, NEW j \in 1 .. k + 1, i < j,
                        box'[a][i].from = box'[a][j].from, box'[a][i].from \in Procs
                 PROVE  box'[a][i].num < box'[a][j].num
    BY <1>5 DEF Sorted
  <2>4. i \in 1 .. k /\ box'[a][i] = box[a][i]
    BY <1>3, <1>5, <2>3
  <2>5. CASE j = k + 1
    BY <1>2, <1>5, <2>1, <2>3, <2>4, <2>5
  <2>6. CASE j # k + 1
    <3>1. j \in 1 .. k /\ box'[a][j] = box[a][j]
      BY <1>3, <1>5, <2>6
    <3>2. QED
      BY <1>5, <2>2, <2>3, <2>4, <3>1 DEF Sorted
  <2>7. QED
    BY <2>5, <2>6
<1>8. InBox(a)' = InBox(a) \cup {t}
  BY <1>2, <1>3, <1>5 DEF InBox
<1>9. QED
  BY <1>1, <1>6, <1>7, <1>8 DEF Sorted, InBox

LEMMA PutEnd ==
  ASSUME SInv, NEW a \in Objects, Put(a, End)
  PROVE  \A o \in Objects : Sorted(o)' /\ InBox(o)' = InBox(o)
<1>1. TInv /\ \A o \in Objects : Sorted(o)
  BY DEF SInv, Streams
<1>2. /\ Len(box[a]) \in Nat /\ box[a] \in Seq(Messages) /\ DOMAIN box[a] = 1 .. Len(box[a])
      /\ End \in Messages /\ End.from \notin Procs
  BY <1>1, BoxTyped, ConstantTypes DEF TInv, TypeOK, End
<1>3. PICK k \in 0 .. Len(box[a]) : box' = [box EXCEPT ![a] = InsertAt(box[a], k + 1, End)]
  BY DEF Put
<1>4. /\ DOMAIN box'[a] = 1 .. Len(box[a]) + 1
      /\ \A i \in 1 .. Len(box[a]) + 1 : box'[a][i] =
           IF i <= k THEN box[a][i] ELSE IF i = k + 1 THEN End ELSE box[a][i - 1]
  <2>1. box'[a] = InsertAt(box[a], k + 1, End)
    BY <1>1, <1>3 DEF TInv, TypeOK
  <2>2. k + 1 \in 1 .. Len(box[a]) + 1
    BY <1>2
  <2>3. Inserted(box'[a], box[a], k + 1, End)
    BY <1>2, <2>1, <2>2, InsertProperties
  <2>4. QED
    BY <1>2, <2>3 DEF Inserted
<1>5. \A o \in Objects : o # a => box'[o] = box[o]
  BY <1>1, <1>3 DEF TInv, TypeOK
<1>6. Sorted(a)'
  <2> DEFINE was(i) == IF i <= k THEN i ELSE i - 1
  <2>1. \A i \in 1 .. Len(box[a]) + 1 : box'[a][i].from \in Procs =>
          i # k + 1 /\ was(i) \in 1 .. Len(box[a]) /\ box'[a][i] = box[a][was(i)]
    BY <1>2, <1>4
  <2>2. \A i, j \in 1 .. Len(box[a]) + 1 : i < j /\ i # k + 1 /\ j # k + 1 => was(i) < was(j)
    BY <1>2
  <2>3. Sorted(a)
    BY <1>1
  <2> HIDE DEF was
  <2>4. SUFFICES ASSUME NEW i \in 1 .. Len(box[a]) + 1, NEW j \in 1 .. Len(box[a]) + 1, i < j,
                        box'[a][i].from = box'[a][j].from, box'[a][i].from \in Procs
                 PROVE  box'[a][i].num < box'[a][j].num
    BY <1>4 DEF Sorted
  <2>5. /\ was(i) \in DOMAIN box[a] /\ was(j) \in DOMAIN box[a] /\ was(i) < was(j)
        /\ box'[a][i] = box[a][was(i)] /\ box'[a][j] = box[a][was(j)]
    BY <1>2, <2>1, <2>2, <2>4
  <2>6. QED
    BY <2>3, <2>4, <2>5 DEF Sorted
<1>7. InBox(a)' = InBox(a)
  <2>1. ASSUME NEW i \in DOMAIN box'[a], box'[a][i] # End PROVE box'[a][i] \in InBox(a)
    <3>1. CASE i <= k
      <4>1. i \in DOMAIN box[a] /\ box'[a][i] = box[a][i]
        BY <1>2, <1>4, <2>1, <3>1
      <4>2. QED
        BY <2>1, <4>1 DEF InBox
    <3>2. CASE i > k
      <4>1. i - 1 \in DOMAIN box[a] /\ box'[a][i] = box[a][i - 1]
        BY <1>2, <1>4, <2>1, <3>2
      <4>2. QED
        BY <2>1, <4>1 DEF InBox
    <3>3. QED
      BY <1>4, <3>1, <3>2
  <2>2. ASSUME NEW i \in 1 .. Len(box[a]) PROVE \E j \in DOMAIN box'[a] : box'[a][j] = box[a][i]
    <3>1. CASE i <= k
      <4>1. i \in DOMAIN box'[a] /\ box'[a][i] = box[a][i]
        BY <1>2, <1>4, <3>1
      <4>2. QED
        BY <4>1
    <3>2. CASE i > k
      <4>1. i + 1 \in DOMAIN box'[a] /\ box'[a][i + 1] = box[a][i]
        BY <1>2, <1>4, <3>2
      <4>2. QED
        BY <4>1
    <3>3. QED
      BY <3>1, <3>2
  <2>3. QED
    BY <1>2, <2>1, <2>2 DEF InBox
<1>8. ASSUME NEW o \in Objects PROVE Sorted(o)' /\ InBox(o)' = InBox(o)
  <2>1. CASE o = a
    BY <1>6, <1>7, <2>1
  <2>2. CASE o # a
    <3>1. box'[o] = box[o]
      BY <1>5, <2>2
    <3>2. QED
      BY <1>1, <3>1 DEF Sorted, InBox
  <2>3. QED
    BY <2>1, <2>2
<1>9. QED
  BY <1>8

\* The first message leaves the queue; a text among it comes before the others of its sender.
LEMMA TakeFirst ==
  ASSUME SInv, NEW a \in Objects, box[a] # <<>>, box' = [box EXCEPT ![a] = Tail(box[a])],
         NEW m, m = Head(box[a])
  PROVE  /\ m \in Messages
         /\ \A o \in Objects : Sorted(o)'
         /\ \A o \in Objects : o # a => InBox(o)' = InBox(o)
         /\ InBox(a) = InBox(a)' \cup ({m} \ {End})
         /\ m # End => \A x \in InBox(a) : x.from = m.from => x = m \/ m.num < x.num
         /\ m # End => \A x \in InBox(a)' : x.from = m.from => m.num < x.num
<1>1. TInv /\ \A o \in Objects : Sorted(o)
  BY DEF SInv, Streams
<1>2. PICK n \in Nat : n = Len(box[a]) /\ n >= 1 /\ DOMAIN box[a] = 1 .. n /\ box[a][1] = m
  <2>1. box[a] \in Seq(Messages)
    BY <1>1 DEF TInv, TypeOK
  <2>2. QED
    BY <2>1, LenProperties, HeadTailProperties
<1>3. m \in Messages /\ (m # End => m \in Texts /\ m.from \in Procs)
  BY <1>1, <1>2, BoxTyped DEF Texts
<1>4. /\ DOMAIN box'[a] = 1 .. n - 1
      /\ \A i \in 1 .. n - 1 : box'[a][i] = box[a][i + 1]
  <2>1. box[a] \in Seq(Messages) /\ box'[a] = Tail(box[a])
    BY <1>1 DEF TInv, TypeOK
  <2>2. Tail(box[a]) \in Seq(Messages) /\ Len(Tail(box[a])) = n - 1
    BY <1>2, <2>1, HeadTailProperties
  <2>3. \A i \in 1 .. n - 1 : Tail(box[a])[i] = box[a][i + 1]
    BY <1>2, <2>1, HeadTailProperties
  <2>4. QED
    BY <2>1, <2>2, <2>3, LenProperties
<1>5. \A o \in Objects : o # a => box'[o] = box[o]
  BY <1>1 DEF TInv, TypeOK
<1>6. Sorted(a)'
  <2>1. SUFFICES ASSUME NEW i \in 1 .. n - 1, NEW j \in 1 .. n - 1, i < j,
                        box'[a][i].from = box'[a][j].from, box'[a][i].from \in Procs
                 PROVE  box'[a][i].num < box'[a][j].num
    BY <1>4 DEF Sorted
  <2>2. i + 1 \in 1 .. n /\ j + 1 \in 1 .. n /\ i + 1 < j + 1
    BY <1>2, <2>1
  <2>3. QED
    BY <1>1, <1>2, <1>4, <2>1, <2>2 DEF Sorted
<1>7. InBox(a)' = {box[a][i] : i \in 2 .. n} \ {End}
  <2>1. \A i \in 2 .. n : i - 1 \in 1 .. n - 1 /\ box'[a][i - 1] = box[a][i]
    BY <1>2, <1>4
  <2>2. \A i \in 1 .. n - 1 : i + 1 \in 2 .. n
    BY <1>2
  <2>3. {box'[a][i] : i \in 1 .. n - 1} = {box[a][i] : i \in 2 .. n}
    <3>1. ASSUME NEW i \in 1 .. n - 1 PROVE box'[a][i] \in {box[a][j] : j \in 2 .. n}
      BY <1>4, <2>2
    <3>2. ASSUME NEW i \in 2 .. n PROVE box[a][i] \in {box'[a][j] : j \in 1 .. n - 1}
      BY <2>1
    <3>3. QED
      BY <3>1, <3>2
  <2>4. QED
    BY <1>4, <2>3 DEF InBox
<1>8. InBox(a) = InBox(a)' \cup ({m} \ {End})
  <2>1. \A i : i \in 1 .. n <=> i = 1 \/ i \in 2 .. n
    BY <1>2
  <2>2. QED
    BY <1>2, <1>7, <2>1 DEF InBox
<1>9. ASSUME m # End, NEW i \in 2 .. n, box[a][i].from = m.from PROVE m.num < box[a][i].num
  <2>1. 1 \in 1 .. n /\ i \in 1 .. n /\ 1 < i
    BY <1>2
  <2>2. QED
    BY <1>1, <1>2, <1>3, <1>9, <2>1 DEF Sorted
<1>10. m # End => \A x \in InBox(a)' : x.from = m.from => m.num < x.num
  BY <1>7, <1>9
<1>11. m # End => \A x \in InBox(a) : x.from = m.from => x = m \/ m.num < x.num
  BY <1>8, <1>10
<1>12. \A o \in Objects : o # a => Sorted(o)' /\ InBox(o)' = InBox(o)
  BY <1>1, <1>5 DEF Sorted, InBox
<1>13. QED
  BY <1>3, <1>6, <1>8, <1>10, <1>11, <1>12

\* What a step that sends no text does to the main threads.
LEMMA QuietStays ==
  ASSUME TInv, NEW p \in Procs,
         \/ MTest(p) \/ MInput(p) \/ MBye(p) \/ MClose(p) \/ MJoin(p)
         \/ MUnlink1(p) \/ MUnlink2(p) \/ ReceiverStep(p) \/ PressCtrlC(p) \/ Die(p),
         NEW q \in Procs
  PROVE  Keeps(q) /\ Recent(q)
<1>1. role' = role /\ desc' = desc
  <2>1. NamesType
    BY DEF TInv, TypeOK, NamesType
  <2>2. CASE MUnlink1(p) \/ MUnlink2(p)
    BY <2>2 DEF MUnlink1, MUnlink2
  <2>3. CASE ~(MUnlink1(p) \/ MUnlink2(p))
    BY <2>1, <2>3, QuietMoves DEF Moves
  <2>4. QED
    BY <2>2, <2>3
<1>2. lines[q] \in Nat
  BY DEF TInv, TypeOK
<1>3. \/ mpc'[q] = mpc[q] /\ lines'[q] = lines[q]
      \/ mpc'[q] \notin {"test", "fgets", "send"} /\ lines'[q] = lines[q]
      \/ mpc[q] = "test" /\ mpc'[q] = "fgets" /\ lines'[q] = lines[q]
      \/ mpc[q] = "fgets" /\ mpc'[q] = "send" /\ lines'[q] = lines[q] + 1
  <2>1. Interrupted(p) = mpc[p] \/ Interrupted(p) \notin {"test", "fgets", "send"}
    BY DEF Interrupted, AfterChat
  <2>2. mpc \in [Procs -> MainPlaces] /\ lines \in [Procs -> Nat]
    BY DEF TInv, TypeOK
  <2>3. CASE MTest(p)
    BY <2>2, <2>3 DEF MTest, Go, user
  <2>4. CASE MInput(p)
    BY <2>2, <2>4 DEF MInput, Go
  <2>5. CASE \/ MBye(p) \/ MClose(p) \/ MJoin(p) \/ MUnlink1(p) \/ MUnlink2(p) \/ PressCtrlC(p) \/ Die(p)
    BY <2>1, <2>2, <2>5 DEF MBye, MClose, MJoin, MUnlink1, MUnlink2, PressCtrlC, Die, Go, AfterChat, user
  <2>6. CASE ReceiverStep(p)
    BY <2>1, <2>2, <2>6 DEF ReceiverStep, RTest, RReceive, RWait, Take, Go, user
  <2>7. QED
    BY <2>3, <2>4, <2>5, <2>6
<1>4. Keeps(q)
  BY <1>1, <1>2, <1>3 DEF Keeps, Inbox, Outbox, In, Out, LastSent
<1>5. Recent(q)
  BY <1>1, <1>2, <1>3 DEF Recent, Going, LastSent
<1>6. QED
  BY <1>4, <1>5

LEMMA StartStays ==
  ASSUME TInv, NEW p \in Procs, Open1(p) \/ Starting(p), NEW q \in Procs
  PROVE  Keeps(q) /\ Recent(q) /\ UNCHANGED <<box, got, readers>>
<1>1. role[p] = "none" /\ lines[p] = 0 /\ mpc[p] # "send"
  BY DEF TInv, RoleInv, Open1, Starting, Open2, Reopen1, Reopen2, Unstarted
<1>2. lines' = lines /\ mpc'[p] # "send" /\ UNCHANGED <<box, got, readers>>
  BY DEF Open1, Starting, Open2, Reopen1, Reopen2, Go, queues, user, TInv, TypeOK
<1>3. q # p => role'[q] = role[q] /\ desc'[q] = desc[q] /\ mpc'[q] = mpc[q]
  BY DEF Open1, OpenExclusive, Starting, Open2, Reopen1, Reopen2, Go, TInv, TypeOK
<1>4. lines[q] \in Nat
  BY DEF TInv, TypeOK
<1>5. QED
  BY <1>1, <1>2, <1>3, <1>4 DEF Keeps, Recent, Going, Inbox, Outbox, In, Out, LastSent

\* Nobody prints a text that it did not receive.
LEMMA PrintedRead ==
  ASSUME SInv, NEW p \in Procs
  PROVE  /\ \A m \in Printed(p) : role[p] # "none" /\ Inbox(p) \in Objects /\ p \in readers[Inbox(p)]
         /\ \A o \in Objects : p \in readers[o] => role[p] # "none" /\ Inbox(p) = o
<1>1. TInv /\ Origin
  BY DEF SInv, Streams
<1>2. \A m \in Printed(p) : Inbox(p) \in Objects /\ p \in readers[Inbox(p)]
  BY <1>1, GotTyped, Opened DEF Origin, Sent, Texts
<1>3. QED
  BY <1>1, <1>2 DEF Origin

\* A sent text joins the queue of its sender as the next of its texts.
LEMMA SendStreams ==
  ASSUME SInv, TInv', NEW p \in Procs, MSend(p)
  PROVE  Streams'
<1>1. TInv /\ Origin /\ mpc[p] = "send" /\ role[p] # "none" /\ lines[p] \in Nat /\ lines[p] >= 1
  BY HasRole DEF SInv, Streams, MSend, TInv, TypeOK, RoleInv, Unstarted
<1>2. PICK a \in Objects : a = Outbox(p)
  BY <1>1, Opened
<1>3. PICK t \in Texts : t = Text(p, lines[p]) /\ t.from = p /\ t.num = lines[p]
  BY <1>1, ConstantTypes DEF Text
<1>4. \A o \in Objects : Sorted(o)' /\ InBox(o)' = IF o = a THEN InBox(o) \cup {t} ELSE InBox(o)
  <2>1. Put(a, t)
    BY <1>2, <1>3 DEF MSend
  <2>2. QED
    BY <1>1, <1>2, <1>3, <2>1, PutText
<1>5. UNCHANGED <<got, readers, role, desc, lines>> /\ mpc' = [mpc EXCEPT ![p] = "test"]
  BY DEF MSend, Go, user
<1>6. ASSUME NEW q \in Procs
      PROVE  /\ role'[q] = role[q] /\ Inbox(q)' = Inbox(q) /\ Outbox(q)' = Outbox(q)
             /\ q # p => LastSent(q)' = LastSent(q) /\ (Going(q)' <=> Going(q))
             /\ q = p => LastSent(q)' = lines[p] /\ LastSent(q) = lines[p] - 1 /\ Going(q)
  BY <1>1, <1>5 DEF Inbox, Outbox, In, Out, LastSent, Going, TInv, TypeOK
<1>7. \A q \in Procs : Keeps(q)
  BY <1>1, <1>6, LastSentType DEF Keeps
<1>8. \A q \in Procs : Printed(q)' = Printed(q) /\ \A o \in Objects : Had(o, q)' = Had(o, q)
  BY <1>5 DEF Had, Printed
<1>9. Origin'
  <2>1. ASSUME NEW o \in Objects, NEW m \in InBox(o)' PROVE Sent(m, o)'
    <3>1. CASE m \in InBox(o)
      BY <1>1, <1>7, <3>1, BoxTyped, SentStays DEF Origin
    <3>2. CASE o = a /\ m = t
      BY <1>1, <1>2, <1>3, <1>6, <3>2 DEF Sent
    <3>3. QED
      BY <1>4, <3>1, <3>2
  <2>2. ASSUME NEW q \in Procs, NEW m \in Printed(q)'
        PROVE  Sent(m, Inbox(q))' /\ q \in readers'[Inbox(q)']
    <3>1. m \in Printed(q) /\ m \in Texts /\ Inbox(q) \in Objects
      BY <1>1, <1>8, <2>2, GotTyped, PrintedRead
    <3>2. Sent(m, Inbox(q)) /\ q \in readers[Inbox(q)]
      BY <1>1, <3>1 DEF Origin
    <3>3. \A o : o = Inbox(q) => Sent(m, o)'
      BY <1>1, <1>7, <3>1, <3>2, SentStays
    <3>4. QED
      BY <1>5, <1>6, <3>2, <3>3 DEF Sent
  <2>3. \A o \in Objects : \A q \in readers'[o] : role'[q] # "none" /\ Inbox(q)' = o
    BY <1>1, <1>5, <1>6 DEF Origin, TInv, TypeOK
  <2>4. QED
    BY <2>1, <2>2, <2>3 DEF Origin
<1>10. ASSUME NEW o \in Objects, NEW r \in Procs PROVE Whole(o, r)'
  <2>1. Whole(o, r)
    BY DEF SInv, Streams
  <2>2. CASE o # a
    <3>1. \A q \in Procs : Going(q)' /\ Outbox(q)' = o =>
            Going(q) /\ LastSent(q)' = LastSent(q) /\ Outbox(q) = o
      BY <1>2, <1>6, <2>2
    <3>2. QED
      BY <1>4, <1>5, <1>8, <2>1, <2>2, <3>1 DEF Whole, Text
  <2>3. CASE o = a
    <3> SUFFICES ASSUME readers[a] \subseteq {r}
                 PROVE  /\ \A m \in InBox(a) \cup {t} \cup Had(a, r) :
                             m.num > 1 => Text(m.from, m.num - 1) \in InBox(a) \cup {t} \cup Had(a, r)
                        /\ \A q \in Procs : Going(q)' /\ Outbox(q)' = a /\ LastSent(q)' >= 1 =>
                             Text(q, LastSent(q)') \in InBox(a) \cup {t} \cup Had(a, r)
                        /\ \A m \in Had(a, r), x \in InBox(a) \cup {t} : m.from = x.from => m.num < x.num
      BY <1>4, <1>5, <1>8, <2>3 DEF Whole, Text
    <3>1. ASSUME NEW m \in InBox(a) \cup {t} \cup Had(a, r), m.num > 1
          PROVE  Text(m.from, m.num - 1) \in InBox(a) \cup {t} \cup Had(a, r)
      <4>1. CASE m # t
        BY <2>1, <2>3, <3>1, <4>1 DEF Whole
      <4>2. CASE m = t
        <5>1. Going(p) /\ Outbox(p) = a /\ LastSent(p) >= 1 /\ LastSent(p) = m.num - 1 /\ m.from = p
          BY <1>1, <1>2, <1>3, <1>6, <3>1, <4>2
        <5>2. Text(p, LastSent(p)) \in InBox(a) \cup Had(a, r)
          BY <2>1, <2>3, <5>1 DEF Whole
        <5>3. QED
          BY <5>1, <5>2
      <4>3. QED
        BY <4>1, <4>2
    <3>2. ASSUME NEW q \in Procs, Going(q)', Outbox(q)' = a, LastSent(q)' >= 1
          PROVE  Text(q, LastSent(q)') \in InBox(a) \cup {t} \cup Had(a, r)
      <4>1. CASE q = p
        BY <1>3, <1>6, <4>1
      <4>2. CASE q # p
        <5>1. Going(q) /\ Outbox(q) = a /\ LastSent(q)' = LastSent(q) /\ LastSent(q) >= 1
          BY <1>6, <3>2, <4>2
        <5>2. Text(q, LastSent(q)) \in InBox(a) \cup Had(a, r)
          BY <2>1, <2>3, <5>1 DEF Whole
        <5>3. QED
          BY <5>1, <5>2
      <4>3. QED
        BY <4>1, <4>2
    <3>3. ASSUME NEW m \in Had(a, r), NEW x \in InBox(a) \cup {t}, m.from = x.from PROVE m.num < x.num
      <4>1. CASE x # t
        BY <2>1, <2>3, <3>3, <4>1 DEF Whole
      <4>2. CASE x = t
        <5>1. m \in Printed(r) /\ m \in Texts
          BY <1>1, <3>3, GotTyped DEF Had
        <5>2. m.num <= LastSent(p) /\ m.num \in Nat
          BY <1>1, <1>3, <3>3, <4>2, <5>1 DEF Origin, Sent, Texts
        <5>3. QED
          BY <1>1, <1>3, <1>6, <4>2, <5>2
      <4>3. QED
        BY <4>1, <4>2
    <3>4. QED
      BY <3>1, <3>2, <3>3
  <2>4. QED
    BY <2>2, <2>3
<1>11. \A q \in Procs : InOrder(q)'
  <2>1. \A q \in Procs : InOrder(q)
    BY DEF SInv, Streams
  <2>2. QED
    BY <1>5, <1>6, <2>1 DEF InOrder, Text
<1>12. QED
  BY <1>4, <1>9, <1>10, <1>11 DEF Streams

\* A text that is taken from the queue is printed after those before it; an END is not.
LEMMA TakeStreams ==
  ASSUME SInv, TInv', NEW p \in Procs, role[p] # "none", box[Inbox(p)] # <<>>, Take(p),
         role' = role, desc' = desc, \A q \in Procs : Keeps(q) /\ Recent(q)
  PROVE  Streams'
<1>1. TInv /\ Origin
  BY DEF SInv, Streams
<1>2. PICK a \in Objects : a = Inbox(p)
  BY <1>1, Opened
<1>3. PICK m : m = Head(box[a])
  OBVIOUS
<1> DEFINE New == {m} \ {End}
<1>4. /\ m \in Messages
      /\ \A o \in Objects : Sorted(o)' /\ (o # a => InBox(o)' = InBox(o))
      /\ InBox(a) = InBox(a)' \cup New
      /\ m # End => \A x \in InBox(a) : x.from = m.from => x = m \/ m.num < x.num
      /\ m # End => \A x \in InBox(a)' : x.from = m.from => m.num < x.num
  <2>1. box[a] # <<>> /\ box' = [box EXCEPT ![a] = Tail(box[a])]
    BY <1>2 DEF Take
  <2>2. QED
    BY <1>3, <2>1, TakeFirst
<1>5. readers' = [readers EXCEPT ![a] = readers[a] \cup {p}] /\ readers \in [Objects -> SUBSET Procs]
  BY <1>1, <1>2 DEF Take, TInv, TypeOK
<1>6. \/ m # End /\ got' = [got EXCEPT ![p] = Append(got[p], m)]
      \/ m = End /\ got' = got
  BY <1>2, <1>3 DEF Take, IsEnd
<1>7. \A q \in Procs : q # p => got'[q] = got[q]
  BY <1>1, <1>6 DEF TInv, TypeOK
<1>8. m # End => /\ m \in Texts /\ got[p] \in Seq(Texts) /\ Len(got[p]) \in Nat
                 /\ DOMAIN got'[p] = 1 .. Len(got[p]) + 1
                 /\ \A i \in 1 .. Len(got[p]) : got'[p][i] = got[p][i]
                 /\ got'[p][Len(got[p]) + 1] = m
  <2> SUFFICES ASSUME m # End
               PROVE  /\ m \in Texts /\ got[p] \in Seq(Texts) /\ Len(got[p]) \in Nat
                      /\ DOMAIN got'[p] = 1 .. Len(got[p]) + 1
                      /\ \A i \in 1 .. Len(got[p]) : got'[p][i] = got[p][i]
                      /\ got'[p][Len(got[p]) + 1] = m
    OBVIOUS
  <2>1. m \in Texts /\ got \in [Procs -> Seq(Texts)]
    BY <1>1, <1>4 DEF TInv, TypeOK, Messages
  <2>2. got[p] \in Seq(Texts) /\ Len(got[p]) \in Nat /\ got'[p] = Append(got[p], m)
    BY <1>6, <2>1, LenProperties
  <2>3. QED
    BY <2>1, <2>2, AppendProperties
<1>9. Printed(p)' = Printed(p) \cup New
  <2>1. CASE m = End
    BY <1>6, <2>1 DEF Printed
  <2>2. CASE m # End
    <3>1. DOMAIN got[p] = 1 .. Len(got[p])
      BY <1>1, GotTyped
    <3>2. PICK n \in Nat : n = Len(got[p])
      BY <1>8, <2>2
    <3>3. \A i : i \in 1 .. n + 1 <=> i \in 1 .. n \/ i = n + 1
      BY <3>2
    <3>4. QED
      BY <1>8, <2>2, <3>1, <3>2, <3>3 DEF Printed
  <2>3. QED
    BY <2>1, <2>2
<1>10. Had(a, p)' = Had(a, p) \cup New
  <2>1. p \notin readers[a] => Printed(p) = {}
    BY <1>2, PrintedRead
  <2>2. Had(a, p) = Printed(p)
    BY <2>1 DEF Had
  <2>3. Had(a, p)' = Printed(p)'
    BY <1>5 DEF Had
  <2>4. QED
    BY <1>9, <2>2, <2>3
<1>11. \A o \in Objects, q \in Procs : o # a => Had(o, q)' = Had(o, q) /\ readers'[o] = readers[o]
  <2>1. \A o \in Objects : o # a => p \notin readers[o]
    BY <1>2, PrintedRead
  <2>2. \A q \in Procs : q # p => Printed(q)' = Printed(q)
    BY <1>7 DEF Printed
  <2>3. QED
    BY <1>5, <2>1, <2>2 DEF Had
<1> HIDE DEF New
<1>12. Origin'
  <2>1. ASSUME NEW o \in Objects, NEW x \in InBox(o)' PROVE Sent(x, o)'
    <3>1. x \in InBox(o) /\ x \in Texts
      BY <1>1, <1>4, <2>1, BoxTyped
    <3>2. QED
      BY <1>1, <3>1, SentStays DEF Origin
  <2>2. ASSUME NEW q \in Procs, NEW x \in Printed(q)'
        PROVE  Sent(x, Inbox(q))' /\ q \in readers'[Inbox(q)']
    <3>1. CASE x \in Printed(q)
      <4>1. x \in Texts /\ Inbox(q) \in Objects /\ role[q] # "none"
        BY <1>1, <3>1, GotTyped, PrintedRead
      <4>2. Sent(x, Inbox(q)) /\ q \in readers[Inbox(q)] /\ Inbox(q)' = Inbox(q)
        BY <1>1, <3>1, <4>1 DEF Origin, Keeps
      <4>3. \A o : o = Inbox(q) => Sent(x, o)'
        BY <1>1, <4>1, <4>2, SentStays
      <4>4. q \in readers'[Inbox(q)]
        BY <1>2, <1>5, <4>1, <4>2
      <4>5. QED
        BY <4>2, <4>3, <4>4 DEF Sent
    <3>2. CASE q = p /\ x = m /\ m # End
      <4>1. x \in InBox(a) /\ x \in Texts /\ Inbox(q)' = a
        BY <1>2, <1>4, <1>8, <3>2 DEF New, Keeps
      <4>2. Sent(x, a)'
        BY <1>1, <4>1, SentStays DEF Origin
      <4>3. p \in readers'[a]
        BY <1>5
      <4>4. QED
        BY <3>2, <4>1, <4>2, <4>3 DEF Sent
    <3>3. x \in Printed(q) \/ (q = p /\ x = m /\ m # End)
      <4>1. CASE q = p
        BY <1>9, <2>2, <4>1 DEF New
      <4>2. CASE q # p
        BY <1>7, <2>2, <4>2 DEF Printed
      <4>3. QED
        BY <4>1, <4>2
    <3>4. QED
      BY <3>1, <3>2, <3>3
  <2>3. ASSUME NEW o \in Objects, NEW q \in readers'[o] PROVE role'[q] # "none" /\ Inbox(q)' = o
    <3>1. q \in Procs /\ (q \in readers[o] \/ (o = a /\ q = p))
      BY <1>5
    <3>2. role[q] # "none" /\ Inbox(q) = o
      BY <1>1, <1>2, <3>1 DEF Origin
    <3>3. QED
      BY <3>1, <3>2 DEF Keeps
  <2>4. QED
    BY <2>1, <2>2, <2>3 DEF Origin
<1>13. ASSUME NEW o \in Objects, NEW r \in Procs PROVE Whole(o, r)'
  <2>1. Whole(o, r)
    BY DEF SInv, Streams
  <2>2. \A q \in Procs : Going(q)' /\ LastSent(q)' >= 1 /\ Outbox(q)' = o =>
          Going(q) /\ LastSent(q)' = LastSent(q) /\ Outbox(q) = o
    BY DEF Recent, Keeps, Going
  <2>3. CASE o # a
    BY <1>4, <1>11, <2>1, <2>2, <2>3 DEF Whole, Text
  <2>4. CASE o = a /\ r # p
    BY <1>5, <2>4 DEF Whole
  <2>5. CASE o = a /\ r = p
    <3> DEFINE all == InBox(a) \cup Had(a, p)
    <3>1. InBox(a)' \cup Had(a, p)' = all
      BY <1>4, <1>10
    <3>2. CASE readers'[a] \subseteq {p}
      <4>1. /\ \A x \in all : x.num > 1 => Text(x.from, x.num - 1) \in all
            /\ \A q \in Procs : Going(q) /\ Outbox(q) = a /\ LastSent(q) >= 1 => Text(q, LastSent(q)) \in all
            /\ \A y \in Had(a, p), x \in InBox(a) : y.from = x.from => y.num < x.num
        BY <1>5, <2>1, <2>5, <3>2 DEF Whole
      <4>2. \A y \in Had(a, p)', x \in InBox(a)' : y.from = x.from => y.num < x.num
        BY <1>4, <1>10, <4>1 DEF New
      <4> HIDE DEF all
      <4>3. QED
        BY <2>2, <2>5, <3>1, <4>1, <4>2 DEF Whole, Text
    <3>3. QED
      BY <2>5, <3>2 DEF Whole
  <2>6. QED
    BY <2>3, <2>4, <2>5
<1>14. ASSUME NEW q \in Procs PROVE InOrder(q)'
  <2>1. InOrder(q)
    BY DEF SInv, Streams
  <2>2. role'[q] = role[q] /\ Inbox(q)' = Inbox(q)
    BY DEF Inbox, In
  <2>3. CASE role[q] = "none" \/ ~(readers'[Inbox(q)] \subseteq {q})
    BY <2>2, <2>3 DEF InOrder
  <2>4. CASE role[q] # "none" /\ readers'[Inbox(q)] \subseteq {q} /\ got'[q] = got[q]
    <3>1. Inbox(q) \in Objects /\ readers[Inbox(q)] \subseteq {q}
      BY <1>1, <1>2, <1>5, <2>4, Opened
    <3>2. QED
      BY <2>1, <2>2, <2>4, <3>1 DEF InOrder, Text
  <2>5. CASE q = p /\ m # End /\ readers'[a] \subseteq {p}
    <3>1. readers[a] \subseteq {p} /\ Whole(a, p)
      BY <1>5, <2>5 DEF SInv, Streams
    <3>2. PICK n \in Nat : /\ n = Len(got[p]) /\ DOMAIN got[p] = 1 .. n /\ DOMAIN got'[p] = 1 .. n + 1
                           /\ \A i \in 1 .. n : got'[p][i] = got[p][i]
                           /\ got'[p][n + 1] = m
      BY <1>1, <1>8, <2>5, GotTyped
    <3>3. m \in InBox(a) /\ m \in Texts
      BY <1>4, <1>8, <2>5 DEF New
    <3>4. \A j \in 1 .. n : got[p][j] \in Had(a, p)
      <4>1. \A j \in 1 .. n : got[p][j] \in Printed(p)
        BY <3>2 DEF Printed
      <4>2. QED
        BY <1>2, <4>1, PrintedRead DEF Had
    <3>5. \A j \in 1 .. n : got[p][j].from = m.from => got[p][j].num < m.num
      BY <3>1, <3>3, <3>4 DEF Whole
    <3>6. m.num > 1 => \E j \in 1 .. n : got[p][j] = Text(m.from, m.num - 1)
      <4> SUFFICES ASSUME m.num > 1 PROVE \E j \in 1 .. n : got[p][j] = Text(m.from, m.num - 1)
        OBVIOUS
      <4>1. Text(m.from, m.num - 1) \in InBox(a) \cup Had(a, p)
        BY <3>1, <3>3 DEF Whole
      <4>2. Text(m.from, m.num - 1) \notin InBox(a)
        <5>1. m.num \in Nat
          BY <3>3 DEF Texts
        <5>2. QED
          BY <1>4, <2>5, <5>1 DEF Text
      <4>3. Text(m.from, m.num - 1) \in Printed(p)
        BY <4>1, <4>2 DEF Had
      <4>4. QED
        BY <3>2, <4>3 DEF Printed
    <3>7. ASSUME NEW i \in 1 .. n + 1
          PROVE  /\ \A j \in 1 .. i - 1 : got'[p][j].from = got'[p][i].from => got'[p][j].num < got'[p][i].num
                 /\ got'[p][i].num > 1 => \E j \in 1 .. i - 1 : got'[p][j] = Text(got'[p][i].from, got'[p][i].num - 1)
      <4>1. CASE i = n + 1
        <5>1. \A j \in 1 .. i - 1 : j \in 1 .. n
          BY <4>1
        <5>2. \A j \in 1 .. n : j \in 1 .. i - 1
          BY <4>1
        <5>3. got'[p][i] = m
          BY <3>2, <4>1
        <5>4. QED
          BY <3>2, <3>5, <3>6, <5>1, <5>2, <5>3
      <4>2. CASE i # n + 1
        <5>1. i \in 1 .. n /\ \A j \in 1 .. i - 1 : j \in 1 .. n
          BY <4>2
        <5>2. /\ \A j \in 1 .. i - 1 : got[p][j].from = got[p][i].from => got[p][j].num < got[p][i].num
              /\ got[p][i].num > 1 => \E j \in 1 .. i - 1 : got[p][j] = Text(got[p][i].from, got[p][i].num - 1)
          BY <1>2, <2>1, <2>5, <3>1, <3>2, <5>1 DEF InOrder
        <5>3. QED
          BY <3>2, <5>1, <5>2
      <4>3. QED
        BY <4>1, <4>2
    <3>8. QED
      BY <2>5, <3>2, <3>7 DEF InOrder, Text
  <2>6. QED
    BY <1>2, <1>6, <1>7, <2>3, <2>4, <2>5
<1>15. QED
  BY <1>4, <1>12, <1>13, <1>14 DEF Streams

LEMMA StreamsInit == Init => Streams
<1> SUFFICES ASSUME Init PROVE Streams
  OBVIOUS
<1>1. \A o \in Objects : DOMAIN box[o] = {} /\ InBox(o) = {} /\ readers[o] = {}
  BY DEF Init, InBox
<1>2. \A p \in Procs : DOMAIN got[p] = {} /\ Printed(p) = {} /\ role[p] = "none"
  BY DEF Init, Printed
<1>3. \A o \in Objects, p \in Procs : Had(o, p) = {}
  BY <1>1 DEF Had
<1>4. Origin
  BY <1>1, <1>2 DEF Origin
<1>5. \A o \in Objects : Sorted(o) /\ \A p \in Procs : Whole(o, p)
  BY <1>1, <1>2, <1>3 DEF Sorted, Whole, Going
<1>6. \A p \in Procs : InOrder(p)
  BY <1>2 DEF InOrder
<1>7. QED
  BY <1>4, <1>5, <1>6 DEF Streams

LEMMA StreamsStep == SInv /\ [Next]_vars => Streams'
<1> SUFFICES ASSUME SInv, [Next]_vars PROVE Streams'
  OBVIOUS
<1>1. TInv /\ TInv' /\ \A o \in Objects : Sorted(o)
  BY TInvStep DEF SInv, Streams
<1>2. ASSUME \A q \in Procs : Keeps(q) /\ Recent(q), UNCHANGED <<box, got, readers>> PROVE Streams'
  <2>1. \A o \in Objects : InBox(o)' = InBox(o) /\ Sorted(o)'
    BY <1>1, <1>2 DEF InBox, Sorted
  <2>2. QED
    BY <1>1, <1>2, <2>1, FrameStreams
<1>3. CASE UNCHANGED vars
  <2>1. ASSUME NEW q \in Procs PROVE Keeps(q) /\ Recent(q)
    BY <1>1, <1>3, LastSentType DEF vars, user, Keeps, Recent, Going, Inbox, Outbox, In, Out, LastSent
  <2>2. QED
    BY <1>2, <1>3, <2>1 DEF vars, queues
<1>4. ASSUME NEW p \in Procs,
             \/ Open1(p) \/ Starting(p) \/ MInput(p) \/ MainStep(p) \/ ReceiverStep(p)
             \/ PressCtrlC(p) \/ Die(p)
      PROVE  Streams'
  <2>1. CASE Open1(p) \/ Starting(p)
    BY <1>1, <1>2, <2>1, StartStays
  <2>2. CASE MTest(p) \/ MInput(p) \/ MClose(p) \/ MJoin(p) \/ MUnlink1(p) \/ MUnlink2(p)
             \/ PressCtrlC(p) \/ Die(p)
    <3>1. \A q \in Procs : Keeps(q) /\ Recent(q)
      BY <1>1, <2>2, QuietStays
    <3>2. UNCHANGED <<box, got, readers>>
      BY <2>2 DEF MTest, MInput, MClose, MJoin, MUnlink1, MUnlink2, PressCtrlC, Die, queues
    <3>3. QED
      BY <1>2, <3>1, <3>2
  <2>3. CASE MSend(p)
    BY <1>1, <2>3, SendStreams
  <2>4. CASE MBye(p)
    <3>1. \A q \in Procs : Keeps(q) /\ Recent(q)
      BY <1>1, <2>4, QuietStays
    <3>2. role[p] # "none"
      BY <1>1, <2>4, HasRole DEF MBye, Unstarted
    <3>3. PICK a \in Objects : a = Outbox(p)
      BY <1>1, <3>2, Opened
    <3>4. Put(a, End) /\ got' = got /\ readers' = readers
      BY <2>4, <3>3 DEF MBye
    <3>5. \A o \in Objects : Sorted(o)' /\ InBox(o)' = InBox(o)
      BY <3>4, PutEnd
    <3>6. QED
      BY <1>1, <3>1, <3>4, <3>5, FrameStreams
  <2>5. CASE ReceiverStep(p)
    <3>1. \A q \in Procs : Keeps(q) /\ Recent(q)
      BY <1>1, <2>5, QuietStays
    <3>2. CASE UNCHANGED <<box, got, readers>>
      BY <1>2, <3>1, <3>2
    <3>3. CASE Take(p) /\ box[Inbox(p)] # <<>> /\ rpc[p] # "none" /\ role' = role /\ desc' = desc
      BY <1>1, <3>1, <3>3, HasRole, TakeStreams
    <3>4. QED
      BY <2>5, <3>2, <3>3 DEF ReceiverStep, RTest, RReceive, RWait, queues
  <2>6. QED
    BY <1>4, <2>1, <2>2, <2>3, <2>4, <2>5 DEF MainStep
<1>5. QED
  BY <1>3, <1>4 DEF Next

\* What a process prints of another is what that one typed, from its first line on, in
\* order and without a gap, as long as no other process reads the same queue: whatever
\* the ENDs overtake, and whoever is interrupted or killed in between.
THEOREM TextsUnbroken == Spec => []Unbroken
<1>1. Init => SInv
  BY TInvInit, StreamsInit DEF SInv
<1>2. SInv /\ [Next]_vars => SInv'
  BY TInvStep, StreamsStep DEF SInv
<1>3. SInv => Unbroken
  BY DEF SInv, Streams, InOrder, Unbroken
<1>4. QED
  BY <1>1, <1>2, <1>3, PTL DEF Spec

=============================================================================
