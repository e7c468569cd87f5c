---------------------------- MODULE PriorityQueue ----------------------------
(***************************************************************************)
(* module2/4/4.2: a queue with priorities on a singly linked list, behind a *)
(* menu.  A smaller number is a more important item.  The program has one   *)
(* thread, so each of its functions is one action; a walk along the list is *)
(* the sequence of the items it meets.  The value of an item is whatever    *)
(* the user typed; here it is the name of the item allocated for it.        *)
(***************************************************************************)
EXTENDS Integers, Sequences, SequencesExt, FiniteSets

CONSTANTS
  Items,        \* the items malloc can return
  NULL,
  MaxPriority   \* 255 in the code

Priorities == 0 .. MaxPriority

VARIABLES
  queue,   \* the pointer in main: indeterminate until option 1, usable, or of no use any more
  begin, size,
  next, priority,   \* the fields of the items
  result,  \* what main's result holds: an item and its priority
  last,    \* history: the last call, what it was asked and what it returned
  came,    \* history: the items that have not left yet, in the order they came
  lost     \* history: the items of a queue that was initialised over

vars == <<queue, begin, size, next, priority, result, last, came, lost>>

Call(f, asked, ret) == [fun |-> f, asked |-> asked, ret |-> ret]
Garbage == [value |-> NULL, priority |-> 0]

Init ==
  /\ queue = "wild" /\ begin = NULL /\ size = 0
  /\ next = [i \in Items |-> NULL] /\ priority = [i \in Items |-> 0]
  /\ result = Garbage /\ last = Call("none", 0, 0)
  /\ came = <<>> /\ lost = {}

\* The items that `iter = iter->next' meets, from begin on.  A list that closes to a
\* circle would give more of them than there are items.
Chain ==
  LET at[k \in 0 .. Cardinality(Items)] ==
        IF k = 0 THEN begin ELSE IF at[k - 1] = NULL THEN NULL ELSE next[at[k - 1]]
      met == {k \in 0 .. Cardinality(Items) : at[k] # NULL}
  IN  [k \in 1 .. Cardinality(met) |-> at[k - 1]]

Allocated == Range(came) \cup lost

\* How many items had come when i came, itself included.
Arrival(i) == SelectInSeq(came, LAMBDA x : x = i)

\* Option 1, whether or not there is a queue already: its items stay allocated.
InitQueue ==
  /\ queue \in {"wild", "up"}
  /\ queue' = "up" /\ begin' = NULL /\ size' = 0
  /\ lost' = lost \cup Range(came) /\ came' = <<>>
  /\ last' = Call("init", 0, 0)
  /\ UNCHANGED <<next, priority, result>>

\* (Seeded fault: an equal item is overtaken.)
FirstBehindEqual(p) == SelectInSeq(Chain, LAMBDA i : p <= priority[i])
\* The place in the list of the first item less important than p; 0: none.
FirstBehind(p) == SelectInSeq(Chain, LAMBDA i : p < priority[i])

InsertRefused(p) ==
  /\ p \notin Priorities
  /\ last' = Call("insert", p, -1)
  /\ UNCHANGED <<queue, begin, size, next, priority, result, came, lost>>

InsertAccepted(p) ==
  /\ p \in Priorities
  /\ \E new \in Items \ Allocated :
       LET k == FirstBehind(p)
           before == IF k = 0 THEN Len(Chain) ELSE k - 1
           iter == IF k = 0 THEN NULL ELSE Chain[k]
       IN  /\ priority' = [priority EXCEPT ![new] = p]
           /\ \/ /\ before = 0
                 /\ begin' = new
                 /\ next' = [next EXCEPT ![new] = iter]
              \/ /\ before # 0
                 /\ next' = [next EXCEPT ![new] = iter, ![Chain[before]] = new]
                 /\ UNCHANGED begin
           /\ came' = Append(came, new)
  /\ size' = size + 1
  /\ last' = Call("insert", p, 1)
  /\ UNCHANGED <<queue, result, lost>>

InsertItem(p) == queue = "up" /\ (InsertRefused(p) \/ InsertAccepted(p))

\* The item at place k of the list is unlinked, reported and freed.
Unlink(k) ==
  LET item == Chain[k]
  IN  /\ \/ /\ k = 1
            /\ begin' = next[item]
            /\ next' = [next EXCEPT ![item] = NULL]
         \/ /\ k > 1
            /\ next' = [next EXCEPT ![Chain[k - 1]] = next[item], ![item] = NULL]
            /\ UNCHANGED begin
      /\ result' = [value |-> item, priority |-> priority[item]]
      /\ size' = size - 1
      /\ came' = RemoveAt(came, Arrival(item))

\* Pop the item at place k, or none if k = 0, and return.
Pop(f, asked, k) ==
  /\ queue = "up"
  /\ \/ /\ k # 0 /\ Unlink(k)
        /\ last' = Call(f, asked, 1)
     \/ /\ k = 0
        /\ last' = Call(f, asked, 0)
        /\ UNCHANGED <<begin, next, size, result, came>>
  /\ UNCHANGED <<queue, priority, lost>>

PopFirstItem == Pop("popFirst", 0, IF begin = NULL THEN 0 ELSE 1)

PopItemWithPriority(p) ==
  Pop("popWith", p, SelectInSeq(Chain, LAMBDA i : priority[i] = p))

PopItemWithPriorityNotLower(p) ==
  Pop("popNotLower", p, IF begin = NULL \/ priority[begin] > p THEN 0 ELSE 1)

\* Options 2 to 6 and 0 before option 1: the pointer is indeterminate.  If it happens
\* to be NULL every function returns 0 and nothing changes.
UseWild ==
  /\ queue = "wild"
  /\ queue' = "undefined"
  /\ UNCHANGED <<begin, size, next, priority, result, last, came, lost>>

\* clearQueue frees the items of the list but leaves begin; main then frees the
\* queue and returns.
Exit ==
  /\ queue = "up"
  /\ queue' = "freed"
  /\ size' = size - Len(Chain)
  /\ came' = SelectSeq(came, LAMBDA i : i \notin Range(Chain))
  /\ last' = Call("clear", 0, IF begin = NULL THEN 0 ELSE 1)
  /\ UNCHANGED <<begin, next, priority, result, lost>>

Next ==
  \/ InitQueue \/ PopFirstItem \/ UseWild \/ Exit
  \/ \E p \in -1 .. MaxPriority + 1 : InsertItem(p)
  \/ \E p \in Priorities : PopItemWithPriority(p) \/ PopItemWithPriorityNotLower(p)

Spec == Init /\ [][Next]_vars

-----------------------------------------------------------------------------
(* Properties.                                                             *)

Calls == {"none", "init", "insert", "popFirst", "popWith", "popNotLower", "clear"}

\* Every variable keeps its type; size is the number of items that came and have
\* not left, also when clearQueue has counted it down.
TypeOK ==
  /\ queue \in {"wild", "up", "undefined", "freed"}
  /\ begin \in Items \cup {NULL}
  /\ size = Len(came)
  /\ next \in [Items -> Items \cup {NULL}] /\ priority \in [Items -> Priorities]
  /\ result \in [value : Items \cup {NULL}, priority : Priorities]
  /\ last \in [fun : Calls, asked : -1 .. MaxPriority + 1, ret : {-1, 0, 1}]
  /\ came \in Seq(Items) /\ IsInjective(came) /\ lost \subseteq Items

\* i must leave before j: it is more important, or as important and came first.
Before(i, j) ==
  \/ priority[i] < priority[j]
  \/ priority[i] = priority[j] /\ Arrival(i) < Arrival(j)

Suits(i, call) ==
  CASE call.fun = "popFirst" -> TRUE
    [] call.fun = "popWith" -> priority[i] = call.asked
    [] call.fun = "popNotLower" -> priority[i] <= call.asked
    [] OTHER -> FALSE

\* A pop that returns 1 takes the first of all items that satisfy its condition and
\* reports that one; it returns 0 only if there is none, although two of the three
\* functions look at the first item of the list only.
PopTakesFirst ==
  LET suiting == {i \in Range(came) : Suits(i, last')}
  IN  last'.fun \in {"popFirst", "popWith", "popNotLower"} /\ (last' # last \/ came' # came) =>
        \/ /\ suiting = {}
           /\ last'.ret = 0 /\ came' = came
        \/ \E i \in suiting :
             /\ \A j \in suiting \ {i} : Before(i, j)
             /\ came' = RemoveAt(came, Arrival(i))
             /\ last'.ret = 1 /\ result' = [value |-> i, priority |-> priority[i]]
PopsFirstThatSuits == [][PopTakesFirst]_vars

=============================================================================
