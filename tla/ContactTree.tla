----------------------------- MODULE ContactTree -----------------------------
(***************************************************************************)
(* module2/4/4.3: a phonebook in a binary search tree, sorted by last name, *)
(* behind a menu.  After every OperationsToBalance counted changes the tree *)
(* is rebuilt from the array of its nodes.  Last names need not be unique.  *)
(* The program has one thread; an action is what it does between two inputs,*)
(* and editing a contact takes one per letter, as in ContactList.           *)
(*                                                                         *)
(* A tree is Nil or a node with its contact and two trees.  Last names are  *)
(* numbers; the other fields are one card.                                  *)
(***************************************************************************)
EXTENDS Integers, Sequences, FiniteSets

CONSTANTS
  OperationsToBalance,   \* 5 in the code
  Names,
  MaxAdds                \* bound on the contacts added

NoCard == 0
NoName == 0
Nil == <<>>
Node(c, l, r) == [contact |-> c, left |-> l, right |-> r]

Contacts == [name : Names, card : 1 .. MaxAdds]
\* The trees, by height: no contact is in a tree twice.
Trees ==
  LET upTo[h \in 0 .. MaxAdds] ==
        {Nil} \cup IF h = 0 THEN {}
                   ELSE [contact : Contacts, left : upTo[h - 1], right : upTo[h - 1]]
  IN  upTo[MaxAdds]

VARIABLES
  tree,
  opCount,
  call,     \* the menu, or the dialogue of handleEditContact
  added,    \* how many contacts have been added
  removed,  \* history: the cards of the contacts that were deleted
  clashed,  \* history: two contacts have had the same last name
  base,     \* history: how many nodes the tree had when it was last rebuilt
  wrote     \* history: the card of the contact the dialogue has found last

vars == <<tree, opCount, call, added, removed, clashed, base, wrote>>

Menu == [place |-> "menu", name |-> NoName, card |-> NoCard]

Init ==
  /\ tree = Nil /\ opCount = 0
  /\ call = Menu /\ added = 0
  /\ removed = {} /\ clashed = FALSE /\ base = 0 /\ wrote = NoCard

-----------------------------------------------------------------------------
(* The recursive functions of contacts.c.                                  *)

Insert[t \in Trees, c \in Contacts] ==
  CASE t = Nil -> Node(c, Nil, Nil)
    [] t # Nil /\ c.name < t.contact.name -> [t EXCEPT !.left = Insert[@, c]]
    [] OTHER -> [t EXCEPT !.right = Insert[@, c]]

\* The first node on the way down with that name, or Nil.
Find[t \in Trees, name \in Names] ==
  CASE t = Nil -> Nil
    [] t # Nil /\ t.contact.name = name -> t
    [] t # Nil /\ t.contact.name < name -> Find[t.right, name]
    [] OTHER -> Find[t.left, name]

\* The contact of the leftmost node, and the tree without that node.
Leftmost[t \in Trees] == IF t.left = Nil THEN t.contact ELSE Leftmost[t.left]
WithoutLeftmost[t \in Trees] ==
  IF t.left = Nil THEN t.right ELSE [t EXCEPT !.left = WithoutLeftmost[@]]

\* (Seeded fault: the successor's right subtree is lost with it.)
ChopLeftmost[t \in Trees] == IF t.left = Nil THEN Nil ELSE [t EXCEPT !.left = ChopLeftmost[@]]
RemoveRootChopping(t) ==
  CASE t.left = Nil -> t.right
    [] t.left # Nil /\ t.right = Nil -> t.left
    [] OTHER -> Node(Leftmost[t.right], t.left, ChopLeftmost[t.right])

\* A node with two children gets the contact of its successor, whose node is freed.
RemoveRoot(t) ==
  CASE t.left = Nil -> t.right
    [] t.left # Nil /\ t.right = Nil -> t.left
    [] OTHER -> Node(Leftmost[t.right], t.left, WithoutLeftmost[t.right])

DelNode[t \in Trees, name \in Names] ==
  CASE t = Nil -> Nil
    [] t # Nil /\ t.contact.name < name -> [t EXCEPT !.right = DelNode[@, name]]
    [] t # Nil /\ t.contact.name > name -> [t EXCEPT !.left = DelNode[@, name]]
    [] OTHER -> RemoveRoot(t)

\* fillNodeArray; its length is what calcNodesCount counts.
NodeArray[t \in Trees] ==
  IF t = Nil THEN <<>> ELSE NodeArray[t.left] \o <<t.contact>> \o NodeArray[t.right]

BuildTreeFromArray[s \in Seq(Contacts)] ==
  IF s = <<>> THEN Nil
  ELSE LET mid == (Len(s) - 1) \div 2 + 1
       IN  Node(s[mid], BuildTreeFromArray[SubSeq(s, 1, mid - 1)],
                        BuildTreeFromArray[SubSeq(s, mid + 1, Len(s))])
BalanceTree(t) == BuildTreeFromArray[NodeArray[t]]

Height[t \in Trees] ==
  IF t = Nil THEN 0
  ELSE 1 + (IF Height[t.left] > Height[t.right] THEN Height[t.left] ELSE Height[t.right])

-----------------------------------------------------------------------------
(* The operations.                                                         *)

\* A counted change: t is the tree before a rebuild that may be due.
\* (Seeded fault: one change too late.)
CountedLate(t) ==
  IF opCount >= OperationsToBalance
  THEN /\ tree' = BalanceTree(t) /\ opCount' = 0
       /\ base' = Len(NodeArray[t])
  ELSE /\ tree' = t /\ opCount' = opCount + 1
       /\ UNCHANGED base

Counted(t) ==
  IF opCount + 1 >= OperationsToBalance
  THEN /\ tree' = BalanceTree(t) /\ opCount' = 0
       /\ base' = Len(NodeArray[t])
  ELSE /\ tree' = t /\ opCount' = opCount + 1
       /\ UNCHANGED base

Same(t) == LET s == NodeArray[t] IN \E i, j \in DOMAIN s : i # j /\ s[i].name = s[j].name

HandleAddContact(name) ==
  /\ call = Menu /\ added < MaxAdds
  /\ Counted(Insert[tree, [name |-> name, card |-> added + 1]])
  /\ added' = added + 1
  /\ clashed' = (clashed \/ Same(tree'))
  /\ UNCHANGED <<call, removed, wrote>>

\* handleDelContact calls delNode, not delContact: the change is not counted.
HandleDelContact(name) ==
  /\ call = Menu /\ Find[tree, name] # Nil
  /\ tree' = DelNode[tree, name]
  /\ removed' = removed \cup {Find[tree, name].contact.card}
  /\ UNCHANGED <<opCount, call, added, clashed, base, wrote>>

\* delContact, which counts; no program of the repository calls it.
DelContact(name) ==
  /\ call = Menu /\ Find[tree, name] # Nil
  /\ Counted(DelNode[tree, name])
  /\ removed' = removed \cup {Find[tree, name].contact.card}
  /\ UNCHANGED <<call, added, clashed, wrote>>

CardAt(name) == IF Find[tree, name] = Nil THEN NoCard ELSE Find[tree, name].contact.card

BeginEdit(name) ==
  /\ call = Menu
  /\ wrote' = CardAt(name)
  /\ call' = [place |-> "edit", name |-> name, card |-> CardAt(name)]
  /\ UNCHANGED <<tree, opCount, added, removed, clashed, base>>

\* Letter l: the contact found is deleted, uncounted, and added with its new name.  The
\* next letters are for the contact with the new name.
Editing == call.place = "edit"
EditLastName(name) ==
  /\ Editing
  /\ IF Find[tree, call.name] = Nil
     THEN UNCHANGED <<tree, opCount, base>>
     ELSE Counted(Insert[DelNode[tree, call.name], [name |-> name, card |-> CardAt(call.name)]])
  /\ wrote' = CardAt(call.name)
  /\ call' = [call EXCEPT !.name = name]
  /\ clashed' = (clashed \/ Same(tree'))
  /\ UNCHANGED <<added, removed>>

\* The other letters.
EditOther ==
  /\ Editing
  /\ wrote' = CardAt(call.name)
  /\ UNCHANGED <<tree, opCount, call, added, removed, clashed, base>>

EndEdit ==
  /\ Editing
  /\ call' = Menu /\ wrote' = NoCard
  /\ UNCHANGED <<tree, opCount, added, removed, clashed, base>>

Exit ==
  /\ call = Menu
  /\ call' = [Menu EXCEPT !.place = "exited"]
  /\ UNCHANGED <<tree, opCount, added, removed, clashed, base, wrote>>

Next ==
  \/ \E name \in Names :
       \/ HandleAddContact(name) \/ HandleDelContact(name) \/ DelContact(name)
       \/ BeginEdit(name) \/ EditLastName(name)
  \/ EditOther \/ EndEdit \/ Exit

Spec == Init /\ [][Next]_vars

-----------------------------------------------------------------------------
(* Properties.                                                             *)

\* Every variable keeps its type, and a rebuild is never overdue.
TypeOK ==
  /\ tree \in Trees
  /\ opCount \in 0 .. OperationsToBalance - 1
  /\ call \in [place : {"menu", "edit", "exited"}, name : Names \cup {NoName}, card : 0 .. MaxAdds]
  /\ added \in 0 .. MaxAdds /\ removed \subseteq 1 .. MaxAdds
  /\ clashed \in BOOLEAN /\ base \in 0 .. MaxAdds /\ wrote \in 0 .. MaxAdds

\* Every contact that was added and not deleted is in the tree once, also after its
\* node was freed in place of another, and its name leads the search to a node.  After a
\* rebuild equal names can be on both sides of a node, where insert puts none.
FoundUntilRemoved ==
  LET s == NodeArray[tree]
  IN  /\ {s[i].card : i \in DOMAIN s} = 1 .. added \ removed
      /\ Len(s) = Cardinality(1 .. added \ removed)
      /\ \A i \in DOMAIN s : Find[tree, s[i].name] # Nil

MinimalHeight(n) == CHOOSE h \in 0 .. n : 2 ^ h > n /\ (h = 0 \/ 2 ^ (h - 1) <= n)

\* The rebuilds keep the tree from degenerating into a list (README.md:163 of 4.3): it is
\* never higher than a minimal tree of the nodes there were at the last rebuild, plus the
\* changes counted since; changes that are not counted do not make it higher.
NotDegenerate == Height[tree] <= MinimalHeight(base) + opCount

\* All letters of one dialogue change the contact it began with, although each looks it
\* up again and the tree may be rebuilt in between, unless names have been equal.
EditSticks == Editing /\ call.card # NoCard /\ ~clashed => wrote = call.card

=============================================================================
