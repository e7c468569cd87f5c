------------------------------ MODULE UdpChat ------------------------------
(***************************************************************************)
(* module3/06: a chat by UDP broadcast.  Every process sends a datagram     *)
(* when it comes, one for each line and one when it goes, and receives all  *)
(* datagrams on the port, its own included, in a second thread.  It knows   *)
(* its own by the nickname in them.                                        *)
(*                                                                         *)
(* The network may lose, repeat and reorder datagrams; a failed sendto is   *)
(* the loss of every copy.  A datagram is known by its sender and number.   *)
(* The text is left out, and so is the address, which is only printed.      *)
(***************************************************************************)
EXTENDS Integers, Sequences, SequencesExt, FiniteSets

CONSTANTS
  Users,
  Plans,        \* who is on which host with which nickname, and what open is
  LongNicks,    \* nicknames of 31 characters, which fill the array
  MaxLines,     \* bound on the lines one user types
  MaxTroubles   \* bound on the datagrams lost, repeated or reordered and on how often
                \* Ctrl-C is pressed, together

VARIABLES
  plan,         \* of each user: host, nickname, and the types of datagrams (open) in
                \* which a long nickname has no end
  pc,           \* where main is
  keep,         \* keep_running
  bound,        \* users whose bind succeeded
  flight,       \* flight[u]: the datagrams in the network and in the socket for u
  slot,         \* received_msg in the receiving thread of u
  shown,        \* what u has been shown
  sent,         \* history: what u has sent
  joined,       \* history: joined[u][v] is how many v had sent when u was bound
  struck,       \* history: users for whom a datagram was lost or reordered
  extra,        \* history: extra[u] counts datagrams repeated for u, by network or signal
  troubles

vars == <<plan, pc, keep, bound, flight, slot, shown, sent, joined, struck, extra, troubles>>

NoMsg == [from |-> "0", num |-> 0, type |-> 0]
host == plan.host
nick == plan.nick
open == plan.open

Init ==
  /\ plan \in Plans
  /\ pc = [u \in Users |-> "bind"]
  /\ keep = [u \in Users |-> TRUE]
  /\ bound = {}
  /\ flight = [u \in Users |-> <<>>] /\ slot = [u \in Users |-> NoMsg]
  /\ shown = [u \in Users |-> <<>>] /\ sent = [u \in Users |-> <<>>]
  /\ joined = [u \in Users |-> [v \in Users |-> 0]]
  /\ struck = {} /\ extra = [u \in Users |-> 0]
  /\ troubles = 0

Over(u) == pc[u] = "over"
Receiving(u) == pc[u] \in {"test", "fgets", "send", "bye"}

-----------------------------------------------------------------------------
(* main.                                                                   *)

\* One socket per host can have the port.  The error is only printed: the user goes on
\* with a socket that sends, and receives nothing.
Bind(u) ==
  /\ pc[u] = "bind"
  /\ \/ /\ \E v \in bound : ~Over(v) /\ host[v] = host[u]
        /\ UNCHANGED <<bound, joined>>
     \/ /\ ~\E v \in bound : ~Over(v) /\ host[v] = host[u]
        /\ bound' = bound \cup {u}
        /\ joined' = [joined EXCEPT ![u] = [v \in Users |-> Len(sent[v])]]
  /\ pc' = [pc EXCEPT ![u] = "hello"]
  /\ UNCHANGED <<plan, keep, flight, slot, shown, sent, struck, extra, troubles>>

\* A datagram of u goes to every bound socket.
Send(u, type) ==
  LET d == [from |-> u, num |-> Len(sent[u]) + 1, type |-> type]
  IN  /\ sent' = [sent EXCEPT ![u] = Append(@, d)]
      /\ flight' = [v \in Users |-> IF v \in bound /\ pc'[v] # "over" THEN Append(flight[v], d)
                                    ELSE <<>>]

\* initMsg, and the second thread.
Hello(u) ==
  /\ pc[u] = "hello"
  /\ pc' = [pc EXCEPT ![u] = "test"]
  /\ Send(u, 0)
  /\ UNCHANGED <<plan, keep, bound, slot, shown, joined, struck, extra, troubles>>

Test(u) ==
  /\ pc[u] = "test"
  /\ pc' = [pc EXCEPT ![u] = IF keep[u] THEN "fgets" ELSE "bye"]
  /\ UNCHANGED <<plan, keep, bound, flight, slot, shown, sent, joined, struck, extra,
                 troubles>>

\* The user types a line, or ends the input.
Typed(u) ==
  /\ pc[u] = "fgets"
  /\ \/ Len(sent[u]) <= MaxLines /\ pc' = [pc EXCEPT ![u] = "send"]
     \/ pc' = [pc EXCEPT ![u] = "bye"]
  /\ UNCHANGED <<plan, keep, bound, flight, slot, shown, sent, joined, struck, extra,
                 troubles>>

SendText(u) ==
  /\ pc[u] = "send"
  /\ pc' = [pc EXCEPT ![u] = "test"]
  /\ Send(u, 1)
  /\ UNCHANGED <<plan, keep, bound, slot, shown, joined, struck, extra, troubles>>

\* exitMsg; the receiving thread is cancelled, the socket closed.
\* (Seeded fault: SIGINT keeps its default action, and nothing is sent.)
LeaveSilently(u) ==
  /\ pc[u] = "bye"
  /\ pc' = [pc EXCEPT ![u] = "over"]
  /\ flight' = [flight EXCEPT ![u] = <<>>]
  /\ UNCHANGED <<plan, keep, bound, slot, shown, sent, joined, struck, extra, troubles>>

Bye(u) ==
  /\ pc[u] = "bye"
  /\ pc' = [pc EXCEPT ![u] = "over"]
  /\ Send(u, 2)
  /\ UNCHANGED <<plan, keep, bound, slot, shown, joined, struck, extra, troubles>>

-----------------------------------------------------------------------------
(* recvMsg.                                                                *)

\* The filter: a datagram with u's nickname counts as u's own.  textMsg and exitMsg are
\* not cleared and strncpy leaves their last byte as it is, so that a long nickname
\* may have no end and equal none.
Own(u, d) == nick[d.from] = nick[u] /\ d.type \notin open[d.from]

Shows(u, d) == shown' = [shown EXCEPT ![u] = IF Own(u, d) THEN @ ELSE Append(@, d)]

Receive(u) ==
  /\ Receiving(u) /\ u \in bound /\ flight[u] # <<>>
  /\ slot' = [slot EXCEPT ![u] = Head(flight[u])]
  /\ flight' = [flight EXCEPT ![u] = Tail(@)]
  /\ Shows(u, Head(flight[u]))
  /\ UNCHANGED <<plan, pc, keep, bound, sent, joined, struck, extra, troubles>>

-----------------------------------------------------------------------------
(* Signals and the network.                                                *)

Trouble == troubles < MaxTroubles /\ troubles' = troubles + 1

\* SIGINT meets the main thread: fgets fails; at any other place, and between the test of
\* keep_running and fgets, there is only the flag, and main still waits for a line.
PressMain(u) ==
  /\ ~Over(u) /\ Trouble
  /\ keep' = [keep EXCEPT ![u] = FALSE]
  /\ \/ pc[u] = "fgets" /\ pc' = [pc EXCEPT ![u] = "bye"]
     \/ UNCHANGED pc
  /\ UNCHANGED <<plan, bound, flight, slot, shown, sent, joined, struck, extra>>

\* Or it meets the receiving thread: recvfrom fails, and what received_msg still holds is
\* taken for a new message.  Before the first one that is anything.
PressReceiver(u) ==
  /\ Receiving(u) /\ Trouble
  /\ keep' = [keep EXCEPT ![u] = FALSE]
  /\ extra' = [extra EXCEPT ![u] = @ + 1]
  /\ \/ slot[u] # NoMsg /\ Shows(u, slot[u])
     \/ slot[u] = NoMsg /\ shown' \in {shown, [shown EXCEPT ![u] = Append(@, NoMsg)]}
  /\ UNCHANGED <<plan, pc, bound, flight, slot, sent, joined, struck>>

Faulty(u, flightOfU) ==
  /\ Trouble
  /\ flight' = [flight EXCEPT ![u] = flightOfU]
  /\ UNCHANGED <<plan, pc, keep, bound, slot, shown, sent, joined>>

Lose(u) ==
  /\ \E i \in DOMAIN flight[u] : Faulty(u, RemoveAt(flight[u], i))
  /\ struck' = struck \cup {u} /\ UNCHANGED extra
Repeat(u) ==
  /\ \E i \in DOMAIN flight[u] : Faulty(u, Append(flight[u], flight[u][i]))
  /\ extra' = [extra EXCEPT ![u] = @ + 1] /\ UNCHANGED struck
Reorder(u) ==
  /\ \E i \in 1 .. Len(flight[u]) - 1 :
       Faulty(u, [flight[u] EXCEPT ![i] = flight[u][i + 1], ![i + 1] = flight[u][i]])
  /\ struck' = struck \cup {u} /\ UNCHANGED extra

-----------------------------------------------------------------------------
Main(u) == Bind(u) \/ Hello(u) \/ Test(u) \/ SendText(u) \/ Bye(u)
Next ==
  \E u \in Users :
    \/ Main(u) \/ Typed(u) \/ Receive(u)
    \/ PressMain(u) \/ PressReceiver(u)
    \/ Lose(u) \/ Repeat(u) \/ Reorder(u)

Spec == Init /\ [][Next]_vars

-----------------------------------------------------------------------------
(* Properties.                                                             *)

Datagrams == [from : Users, num : 1 .. MaxLines + 2, type : 0 .. 2]

\* Every variable keeps its type; one bound user per host.
TypeOK ==
  /\ pc \in [Users -> {"bind", "hello", "test", "fgets", "send", "bye", "over"}]
  /\ keep \in [Users -> BOOLEAN]
  /\ \A u, v \in bound : u # v /\ host[u] = host[v] => Over(u) \/ Over(v)
  /\ \A u \in Users : /\ Range(flight[u]) \cup Range(sent[u]) \subseteq Datagrams
                      /\ Range(shown[u]) \subseteq Datagrams \cup {NoMsg}
                      /\ slot[u] \in Datagrams \cup {NoMsg}
  /\ struck \subseteq Users /\ troubles \in 0 .. MaxTroubles

\* What u has been shown, and what is still on its way to u.
Heard(u) == shown[u] \o flight[u]

\* As long as nothing was lost, repeated or reordered for u, what u has been shown of v
\* and what is still on its way to u are together all that v has sent since u's bind,
\* each line once and in order, from the greeting to the farewell, and a user who has
\* left has said so: also when v is interrupted between two calls.
Conversation ==
  \A u \in bound \ struck : \A v \in Users :
    extra[u] = 0 /\ ~Over(u) /\ nick[v] # nick[u] =>
      /\ \A i, j \in DOMAIN Heard(u) :
           i < j /\ Heard(u)[i].from = v /\ Heard(u)[j].from = v
           => Heard(u)[i].num < Heard(u)[j].num
      /\ {d \in Range(Heard(u)) : d.from = v}
           = {sent[v][k] : k \in joined[u][v] + 1 .. Len(sent[v])}
      /\ Over(v) <=> sent[v] # <<>> /\ Last(sent[v]).type = 2

\* Whatever the network does, u is shown a line at most as often as the network and
\* signals that hit recvfrom (chat.c:38) have repeated one, and lines under its own
\* nickname only if that fills the array and has lost its end (chat.c:127).
NoEcho ==
  \A u \in Users :
    /\ \A d \in Range(shown[u]) \ {NoMsg} :
         /\ nick[d.from] = nick[u] => nick[u] \in LongNicks /\ d.type # 0
         /\ Cardinality({i \in DOMAIN shown[u] : shown[u][i] = d}) <= 1 + extra[u]
    /\ NoMsg \in Range(shown[u]) => extra[u] > 0

=============================================================================
