------------------------------- MODULE MqChat -------------------------------
(***************************************************************************)
(* module3/03: a chat of two processes over two POSIX message queues.  The  *)
(* process that creates both queues is the CREATOR, it reads the first and  *)
(* writes the second; any other is a CLIENT and does the reverse.  Each has *)
(* a main thread that reads the keyboard and sends, and a thread that       *)
(* receives.  A process that leaves sends an END with a priority above that *)
(* of the text; the creator also unlinks the queues.                        *)
(*                                                                         *)
(* A queue is named by its number, 1 or 2, and lives on without its name    *)
(* as long as a process has it open: the object is <<number, its creator>>. *)
(***************************************************************************)
EXTENDS Integers, Sequences, SequencesExt, FiniteSets

CONSTANTS
  Procs,        \* the processes the user may start
  None,         \* no object: the name does not exist
  Limits,       \* what mq_maxmsg may be: the system's setting, 10 by default
  MaxLines,     \* bound on the lines typed, into all processes together
  MaxPresses,   \* bound on the user's Ctrl-C
  MaxCrashes    \* bound on the number of processes that are killed

ASSUME ChatAssumption ==
  /\ Limits \subseteq Nat \ {0} /\ MaxLines \in Nat /\ MaxPresses \in Nat /\ MaxCrashes \in Nat
  /\ None \notin Procs

Queues == 1 .. 2
Objects == Queues \X Procs

VARIABLES
  limit,     \* mq_maxmsg
  name,      \* name[i]: whose queue the name i denotes
  box,       \* the messages in a queue, in the order they will be received
  desc,      \* desc[p][i]: queue_d1, queue_d2 of p: whose object i it is
  role,      \* CREATOR or CLIENT, once decided
  mpc,       \* where the main thread is
  rpc,       \* where the receiving thread is
  keep,      \* keep_running
  closed,    \* p has called mq_close
  lines,     \* how many lines p's main thread has read
  presses, crashes,
  got,       \* history: the texts p printed
  readers    \* history: the processes that took a message from an object

queues == <<name, box>>
user == <<lines, presses, crashes>>
vars == <<limit, queues, desc, role, mpc, rpc, keep, closed, user, got, readers>>

End == [from |-> None, num |-> 0]
Text(p, n) == [from |-> p, num |-> n]

Init ==
  /\ limit \in Limits
  /\ name = [i \in Queues |-> None]
  /\ box = [o \in Objects |-> <<>>]
  /\ desc = [p \in Procs |-> [i \in Queues |-> None]]
  /\ role = [p \in Procs |-> "none"]
  /\ mpc = [p \in Procs |-> "open1"] /\ rpc = [p \in Procs |-> "none"]
  /\ keep = [p \in Procs |-> TRUE] /\ closed = [p \in Procs |-> FALSE]
  /\ lines = [p \in Procs |-> 0] /\ presses = 0 /\ crashes = 0
  /\ got = [p \in Procs |-> <<>>]
  /\ readers = [o \in Objects |-> {}]

\* The return from main, or a kill, ends both threads.
Running(p) == mpc[p] \notin {"open1", "exited", "dead"}

Go(p, place) == mpc' = [mpc EXCEPT ![p] = place]
RGo(p, place) == rpc' = [rpc EXCEPT ![p] = place]

\* The numbers of the queue p receives from and of the one it sends to.
In(p) == IF role[p] = "creator" THEN 1 ELSE 2
Out(p) == IF role[p] = "creator" THEN 2 ELSE 1
Inbox(p) == <<In(p), desc[p][In(p)]>>
Outbox(p) == <<Out(p), desc[p][Out(p)]>>

-----------------------------------------------------------------------------
(* Starting: the two exclusive opens, then the choice of a role.           *)

\* (Seeded fault: without O_EXCL, and a second open makes a queue of its own.)
OpenAnyway(p, i) ==
  /\ name' = [name EXCEPT ![i] = p]
  /\ desc' = [desc EXCEPT ![p][i] = p]

OpenExclusive(p, i) ==
  \/ /\ name[i] = None
     /\ name' = [name EXCEPT ![i] = p]
     /\ desc' = [desc EXCEPT ![p][i] = p]
  \/ /\ name[i] # None
     /\ UNCHANGED <<name, desc>>

Open1(p) ==
  /\ mpc[p] = "open1"
  /\ OpenExclusive(p, 1)
  /\ Go(p, "open2")
  /\ UNCHANGED <<limit, box, role, rpc, keep, closed, user, got, readers>>

Open2(p) ==
  /\ mpc[p] = "open2"
  /\ OpenExclusive(p, 2)
  /\ \/ /\ desc'[p] = [i \in Queues |-> p]
        /\ role' = [role EXCEPT ![p] = "creator"]
        /\ Go(p, "test") /\ RGo(p, "test")
     \/ /\ desc'[p] # [i \in Queues |-> p]
        /\ Go(p, "reopen1")
        /\ UNCHANGED <<role, rpc>>
  /\ UNCHANGED <<limit, box, keep, closed, user, got, readers>>

\* A client opens what the names denote now; a missing name is fatal.
Reopen1(p) ==
  /\ mpc[p] = "reopen1"
  /\ desc' = [desc EXCEPT ![p][1] = name[1]]
  /\ Go(p, IF name[1] = None THEN "exited" ELSE "reopen2")
  /\ UNCHANGED <<limit, queues, role, rpc, keep, closed, user, got, readers>>

Reopen2(p) ==
  /\ mpc[p] = "reopen2"
  /\ desc' = [desc EXCEPT ![p][2] = name[2]]
  /\ \/ /\ name[2] = None
        /\ Go(p, "exited")
        /\ UNCHANGED <<role, rpc>>
     \/ /\ name[2] # None
        /\ role' = [role EXCEPT ![p] = "client"]
        /\ Go(p, "test") /\ RGo(p, "test")
  /\ UNCHANGED <<limit, queues, keep, closed, user, got, readers>>

-----------------------------------------------------------------------------
(* The main thread.                                                        *)

Full(o) == Len(box[o]) >= limit

\* A message is received before those of a lower priority, and behind all others: behind
\* the first k of the queue.
IsEnd(m) == m = End
Priority(m) == IF IsEnd(m) THEN 1 ELSE 0
Put(o, m) ==
  /\ ~Full(o)
  /\ \E k \in 0 .. Len(box[o]) :
       /\ \A i \in DOMAIN box[o] : i <= k <=> Priority(box[o][i]) >= Priority(m)
       /\ box' = [box EXCEPT ![o] = InsertAt(@, k + 1, m)]

MTest(p) ==
  /\ mpc[p] = "test"
  /\ Go(p, IF keep[p] THEN "fgets" ELSE "bye")
  /\ UNCHANGED <<limit, queues, desc, role, rpc, keep, closed, user, got, readers>>

Typed == MapThenSumSet(LAMBDA p : lines[p], Procs)

\* A line, or the end of the input.
MInput(p) ==
  /\ mpc[p] = "fgets"
  /\ \/ /\ Typed < MaxLines
        /\ lines' = [lines EXCEPT ![p] = @ + 1]
        /\ Go(p, "send")
     \/ /\ Go(p, "bye")
        /\ UNCHANGED lines
  /\ UNCHANGED <<limit, queues, desc, role, rpc, keep, closed, presses, crashes, got, readers>>

MSend(p) ==
  /\ mpc[p] = "send"
  /\ Put(Outbox(p), Text(p, lines[p]))
  /\ Go(p, "test")
  /\ UNCHANGED <<limit, name, desc, role, rpc, keep, closed, user, got, readers>>

MBye(p) ==
  /\ mpc[p] = "bye"
  /\ Put(Outbox(p), End)
  /\ Go(p, "close")
  /\ UNCHANGED <<limit, name, desc, role, rpc, keep, closed, user, got, readers>>

MClose(p) ==
  /\ mpc[p] = "close"
  /\ closed' = [closed EXCEPT ![p] = TRUE]
  /\ Go(p, "join")
  /\ UNCHANGED <<limit, queues, desc, role, rpc, keep, user, got, readers>>

\* What follows the chat function: the creator unlinks both names.
AfterChat(p) == IF role[p] = "creator" THEN "unlink1" ELSE "exited"

MJoin(p) ==
  /\ mpc[p] = "join" /\ rpc[p] = "ended"
  /\ Go(p, AfterChat(p))
  /\ UNCHANGED <<limit, queues, desc, role, rpc, keep, closed, user, got, readers>>

MUnlink1(p) ==
  /\ mpc[p] = "unlink1"
  /\ name' = [name EXCEPT ![1] = None]
  /\ Go(p, "unlink2")
  /\ UNCHANGED <<limit, box, desc, role, rpc, keep, closed, user, got, readers>>

MUnlink2(p) ==
  /\ mpc[p] = "unlink2"
  /\ name' = [name EXCEPT ![2] = None]
  /\ Go(p, "exited")
  /\ UNCHANGED <<limit, box, desc, role, rpc, keep, closed, user, got, readers>>

-----------------------------------------------------------------------------
(* The receiving thread.                                                   *)

RTest(p) ==
  /\ rpc[p] = "test"
  /\ RGo(p, IF keep[p] THEN "receive" ELSE "ended")
  /\ UNCHANGED <<limit, queues, desc, role, mpc, keep, closed, user, got, readers>>

\* A signal: the flag, and at most one call of one of the two threads that it
\* interrupts.  POSIX leaves open which thread a signal for the process meets;
\* a call that has not begun when the signal comes is not interrupted.
Interrupted(p) ==
  CASE mpc[p] = "fgets" -> "bye"
    [] mpc[p] = "send" /\ Full(Outbox(p)) -> AfterChat(p)
    [] mpc[p] = "bye" /\ Full(Outbox(p)) -> "close"
    [] OTHER -> mpc[p]

\* The receiver takes the first message.  After an END it sends its own process
\* a SIGINT and ends.  (Seeded fault: the END is taken for a text.)
TakeNoEnd(p) ==
  LET m == Head(box[Inbox(p)])
  IN  /\ box' = [box EXCEPT ![Inbox(p)] = Tail(@)]
      /\ readers' = [readers EXCEPT ![Inbox(p)] = @ \cup {p}]
      /\ got' = [got EXCEPT ![p] = Append(@, m)]
      /\ RGo(p, "test")
      /\ UNCHANGED <<keep, mpc>>

\* (Seeded fault: the message stays in the queue.)
TakeKeeps(p) ==
  LET m == Head(box[Inbox(p)])
  IN  /\ readers' = [readers EXCEPT ![Inbox(p)] = @ \cup {p}]
      /\ got' = [got EXCEPT ![p] = IF IsEnd(m) \/ Len(@) > 2 THEN @ ELSE Append(@, m)]
      /\ RGo(p, "test")
      /\ UNCHANGED <<box, keep, mpc>>

Take(p) ==
  LET m == Head(box[Inbox(p)])
  IN  /\ box' = [box EXCEPT ![Inbox(p)] = Tail(@)]
      /\ readers' = [readers EXCEPT ![Inbox(p)] = @ \cup {p}]
      /\ \/ /\ ~IsEnd(m)
            /\ got' = [got EXCEPT ![p] = Append(@, m)]
            /\ RGo(p, "test")
            /\ UNCHANGED <<keep, mpc>>
         \/ /\ IsEnd(m)
            /\ keep' = [keep EXCEPT ![p] = FALSE]
            /\ Go(p, mpc[p]) \/ Go(p, Interrupted(p))
            /\ RGo(p, "ended")
            /\ UNCHANGED got

\* The call of mq_receive: on a closed descriptor it fails and ends the thread;
\* on an empty queue it waits, also when the descriptor is closed meanwhile.
RReceive(p) ==
  /\ rpc[p] = "receive"
  /\ \/ /\ closed[p]
        /\ RGo(p, "ended")
        /\ UNCHANGED <<box, readers, got, keep, mpc>>
     \/ /\ ~closed[p] /\ box[Inbox(p)] = <<>>
        /\ RGo(p, "wait")
        /\ UNCHANGED <<box, readers, got, keep, mpc>>
     \/ /\ ~closed[p] /\ box[Inbox(p)] # <<>>
        /\ Take(p)
  /\ UNCHANGED <<limit, name, desc, role, closed, user>>

RWait(p) ==
  /\ rpc[p] = "wait" /\ box[Inbox(p)] # <<>>
  /\ Take(p)
  /\ UNCHANGED <<limit, name, desc, role, closed, user>>

-----------------------------------------------------------------------------
(* The user and the world.                                                 *)

PressCtrlC(p) ==
  /\ Running(p) /\ presses < MaxPresses
  /\ presses' = presses + 1
  /\ keep' = [keep EXCEPT ![p] = FALSE]
  /\ \/ UNCHANGED <<mpc, rpc>>
     \/ Go(p, Interrupted(p)) /\ UNCHANGED rpc
     \/ rpc[p] = "wait" /\ RGo(p, "test") /\ UNCHANGED mpc
  /\ UNCHANGED <<limit, queues, desc, role, closed, lines, crashes, got, readers>>

Die(p) ==
  /\ Running(p) /\ crashes < MaxCrashes
  /\ crashes' = crashes + 1
  /\ Go(p, "dead")
  /\ UNCHANGED <<limit, queues, desc, role, rpc, keep, closed, lines, presses, got, readers>>

-----------------------------------------------------------------------------
Starting(p) == Open2(p) \/ Reopen1(p) \/ Reopen2(p)
MainStep(p) ==
  MTest(p) \/ MSend(p) \/ MBye(p) \/ MClose(p) \/ MJoin(p) \/ MUnlink1(p) \/ MUnlink2(p)
ReceiverStep(p) == Running(p) /\ (RTest(p) \/ RReceive(p) \/ RWait(p))

Next == \E p \in Procs :
  \/ Open1(p) \/ Starting(p) \/ MInput(p) \/ MainStep(p) \/ ReceiverStep(p)
  \/ PressCtrlC(p) \/ Die(p)

Spec == Init /\ [][Next]_vars

\* Both threads are scheduled.  Starting a process, typing and Ctrl-C are up to
\* the user.
Fairness == \A p \in Procs : /\ WF_vars(Starting(p)) /\ WF_vars(MainStep(p))
                             /\ WF_vars(ReceiverStep(p))

FairSpec == Spec /\ Fairness
-----------------------------------------------------------------------------
(* Properties.                                                             *)

MainPlaces == {"open1", "open2", "reopen1", "reopen2", "test", "fgets", "send", "bye", "close",
               "join", "unlink1", "unlink2", "exited", "dead"}
Texts == [from : Procs, num : Nat \ {0}]
Messages == Texts \cup {End}

\* Every variable keeps its type, and no queue exceeds its capacity.
TypeOK ==
  /\ limit \in Limits
  /\ name \in [Queues -> Procs \cup {None}]
  /\ box \in [Objects -> Seq(Messages)] /\ \A o \in Objects : Len(box[o]) <= limit
  /\ desc \in [Procs -> [Queues -> Procs \cup {None}]]
  /\ role \in [Procs -> {"none", "creator", "client"}]
  /\ mpc \in [Procs -> MainPlaces]
  /\ rpc \in [Procs -> {"none", "test", "receive", "wait", "ended"}]
  /\ keep \in [Procs -> BOOLEAN] /\ closed \in [Procs -> BOOLEAN]
  /\ lines \in [Procs -> Nat]
  /\ presses \in 0 .. MaxPresses /\ crashes \in 0 .. MaxCrashes
  /\ got \in [Procs -> Seq(Texts)]
  /\ readers \in [Objects -> SUBSET Procs]

\* What p prints of q is what q typed, from its first line on, in order and without
\* a gap, although an END overtakes text: p prints nothing after it.  Two
\* processes that read the same queue share its messages out between them.
Unbroken ==
  \A p \in Procs : role[p] # "none" /\ readers[Inbox(p)] \subseteq {p} =>
    \A i \in DOMAIN got[p] : LET m == got[p][i] IN
      /\ \A j \in 1 .. i - 1 : got[p][j].from = m.from => got[p][j].num < m.num
      /\ m.num > 1 => \E j \in 1 .. i - 1 : got[p][j] = Text(m.from, m.num - 1)

\* Never two running creators, whatever processes start, end and are killed.
OneCreator ==
  \A p, q \in Procs :
    Running(p) /\ role[p] = "creator" /\ Running(q) /\ role[q] = "creator" => p = q

\* A creator that was not killed leaves no name behind.
CleanExit ==
  \A p \in Procs : mpc[p] = "exited" /\ role[p] = "creator" =>
    \A i \in Queues : name[i] # p

\* One creator at a time, and no name is left behind by one that was not killed
\* (main.c:153-181: the exclusive opens and the two mq_unlink).
NamesManaged == OneCreator /\ CleanExit

Over(p) == mpc[p] \in {"exited", "dead"}
Partners(p, q) ==
  /\ {role[p], role[q]} = {"creator", "client"}
  /\ desc[p] = desc[q]

\* A queue has room for whatever can be written to it.
Roomy == limit >= MaxLines + Cardinality(Procs)

\* With queues that are never full: when one of two partners has ended, the other
\* ends too, or waits for its user in fgets.  It waits there when the SIGINT it
\* sends itself meets the main thread between the test of keep_running and
\* fgets, or meets the receiving thread (main.c:57-63, 78-82).
PartnerLeaves ==
  Roomy => \A p, q \in Procs :
    Partners(p, q) /\ mpc[p] = "exited" ~> Over(q) \/ mpc[q] = "fgets"

Served(o) == \E r \in Procs :
  Running(r) /\ role[r] # "none" /\ Inbox(r) = o /\ rpc[r] # "ended"

\* A sender that blocks on a full queue gets its room, or else nobody receives from
\* that queue any more.
BlockedByUnread ==
  \A p \in Procs :
    (mpc[p] \in {"send", "bye"} /\ Full(Outbox(p)))
    ~> (mpc[p] \notin {"send", "bye"} \/ ~Full(Outbox(p)) \/ ~Served(Outbox(p)))

=============================================================================
