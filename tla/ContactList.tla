----------------------------- MODULE ContactList -----------------------------
(***************************************************************************)
(* module2/6/6.1: a phonebook on a doubly linked list, sorted by last name  *)
(* and keyed by id, behind a menu.  The program has one thread; an action   *)
(* is what it does between two inputs.  Editing takes several: the user     *)
(* enters an id and then, letter by letter, which field becomes what, and   *)
(* editContact looks the contact up again for each letter.                  *)
(*                                                                         *)
(* Last names are numbers, in their order.  The other fields have no effect *)
(* on the list; they are one card, by which a contact is recognised.        *)
(***************************************************************************)
EXTENDS Integers, Sequences, SequencesExt, FiniteSets

CONSTANTS
  Nodes,    \* the nodes malloc can return
  NULL,
  Ids,
  Names,
  MaxAdds   \* bound on the contacts added

NoCard == 0
NoContact == [id |-> 0, name |-> 0, card |-> NoCard]

VARIABLES
  list,     \* the root, the links of each node, the contact of each, and the nodes
            \* that are allocated and forgotten
  call,     \* the menu, or the dialogue of handleEditContact
  added,    \* how many contacts have been added
  removed,  \* history: the cards of the contacts that delContact freed
  clashed,  \* history: two contacts have had the same id
  starved,  \* history: malloc has returned NULL
  wrote     \* history: the card of the contact the dialogue has found last

vars == <<list, call, added, removed, clashed, starved, wrote>>

Menu == [place |-> "menu", id |-> 0, card |-> NoCard]

Init ==
  /\ list = [root |-> NULL, next |-> [n \in Nodes |-> NULL], prev |-> [n \in Nodes |-> NULL],
             contact |-> [n \in Nodes |-> NoContact], leaked |-> {}]
  /\ call = Menu /\ added = 0
  /\ removed = {} /\ clashed = FALSE /\ starved = FALSE /\ wrote = NoCard

\* The nodes that `tmp = tmp->next' meets from the root on.  A circle would give more of
\* them than there are nodes.
Chain(l) ==
  LET at[k \in 0 .. Cardinality(Nodes)] ==
        IF k = 0 THEN l.root ELSE IF at[k - 1] = NULL THEN NULL ELSE l.next[at[k - 1]]
      met == {k \in 0 .. Cardinality(Nodes) : at[k] # NULL}
  IN  [k \in 1 .. Cardinality(met) |-> at[k - 1]]

\* The first node with that id, or NULL.
Find(l, id) ==
  LET k == SelectInSeq(Chain(l), LAMBDA n : l.contact[n].id = id)
  IN  IF k = 0 THEN NULL ELSE Chain(l)[k]

\* n's neighbours are tied to each other, or the root to the second of them.
\* (Seeded fault: the link back is left.)
UnlinkForward(l, n) ==
  [l EXCEPT
     !.root = IF l.prev[n] = NULL THEN l.next[n] ELSE @,
     !.next = [m \in Nodes |-> IF m = n THEN NULL ELSE IF m = l.prev[n] THEN l.next[n] ELSE @[m]],
     !.prev[n] = NULL]
Unlink(l, n) ==
  [l EXCEPT
     !.root = IF l.prev[n] = NULL THEN l.next[n] ELSE @,
     !.next = [m \in Nodes |-> IF m = n THEN NULL ELSE IF m = l.prev[n] THEN l.next[n] ELSE @[m]],
     !.prev = [m \in Nodes |-> IF m = n THEN NULL ELSE IF m = l.next[n] THEN l.prev[n] ELSE @[m]]]

\* A new node for contact c goes before the first one with a greater last name.
FirstGreater(l, c) == SelectInSeq(Chain(l), LAMBDA n : c.name < l.contact[n].name)
AddContact(l, c, new) ==
  LET k == FirstGreater(l, c)
      after == IF k = 0 THEN NULL ELSE Chain(l)[k]
      before == IF k = 1 \/ l.root = NULL THEN NULL
                ELSE IF k = 0 THEN Last(Chain(l)) ELSE Chain(l)[k - 1]
  IN  [l EXCEPT
         !.root = IF before = NULL THEN new ELSE @,
         !.next = [n \in Nodes |-> IF n = new THEN after ELSE IF n = before THEN new ELSE @[n]],
         !.prev = [n \in Nodes |-> IF n = new THEN before ELSE IF n = after THEN new ELSE @[n]],
         !.contact[new] = c]

\* The return values of addContact.
IdTaken(l, id) == Find(l, id) # NULL
Unused(l) == {n \in Nodes \ l.leaked : l.contact[n] = NoContact}

Twins(l) == \E m, n \in Range(Chain(l)) : m # n /\ l.contact[m].id = l.contact[n].id

\* addContact is called for c on list l: success, -3, or -2.
Adding(l, c) ==
  /\ \/ /\ IdTaken(l, c.id)
        /\ list' = l
        /\ UNCHANGED starved
     \/ /\ ~IdTaken(l, c.id)
        /\ \E new \in Unused(l) : list' = AddContact(l, c, new)
        /\ UNCHANGED starved
     \/ /\ ~IdTaken(l, c.id) /\ Unused(l) = {}
        /\ list' = l
        /\ starved' = TRUE
  /\ clashed' = (clashed \/ Twins(list'))

HandleAddContact(id, name) ==
  /\ call = Menu /\ added < MaxAdds
  /\ Adding(list, [id |-> id, name |-> name, card |-> added + 1])
  /\ added' = IF list' = list THEN added ELSE added + 1
  /\ UNCHANGED <<call, removed, wrote>>

HandleDelContact(id) ==
  /\ call = Menu /\ IdTaken(list, id)
  /\ LET n == Find(list, id)
     IN  /\ list' = [Unlink(list, n) EXCEPT !.contact[n] = NoContact]
         /\ removed' = removed \cup {list.contact[n].card}
  /\ UNCHANGED <<call, added, clashed, starved, wrote>>

\* handleEditContact: the id is entered; nothing is looked up yet.
BeginEdit(id) ==
  /\ call = Menu
  /\ wrote' = IF IdTaken(list, id) THEN list.contact[Find(list, id)].card ELSE NoCard
  /\ call' = [place |-> "edit", id |-> id, card |-> wrote']
  /\ UNCHANGED <<list, added, removed, clashed, starved>>

\* One letter of the format: editContact, which returns -1 or -2 if it finds no
\* contact with that id.
Editing == call.place = "edit"
Found == Find(list, call.id)
Touched == wrote' = IF Found = NULL THEN NoCard ELSE list.contact[Found].card

\* Letter i.  The new id is not looked for in the list, and the next letters of the
\* dialogue are for the contact with the new id.
EditId(id) ==
  /\ Editing
  /\ list' = IF Found = NULL THEN list ELSE [list EXCEPT !.contact[Found].id = id]
  /\ clashed' = (clashed \/ Twins(list'))
  /\ call' = [call EXCEPT !.id = id]
  /\ Touched
  /\ UNCHANGED <<added, removed, starved>>

\* Letter l: the node is taken out, and its contact is added again in a new node.
\* The old node is not freed.  The result of addNode is ignored.
EditLastName(name) ==
  /\ Editing
  /\ \/ /\ Found = NULL
        /\ UNCHANGED <<list, starved, clashed>>
     \/ /\ Found # NULL
        /\ LET without == [Unlink(list, Found) EXCEPT !.contact[Found] = NoContact,
                                                      !.leaked = @ \cup {Found}]
           IN  Adding(without, [list.contact[Found] EXCEPT !.name = name])
  /\ Touched
  /\ UNCHANGED <<call, added, removed>>

\* The letters f, j, p, C, c and s.
EditOther ==
  /\ Editing /\ Touched
  /\ UNCHANGED <<list, call, added, removed, clashed, starved>>

EndEdit ==
  /\ Editing
  /\ call' = Menu /\ wrote' = NoCard
  /\ UNCHANGED <<list, added, removed, clashed, starved>>

\* main frees the first node and returns.
Exit ==
  /\ call = Menu
  /\ call' = [Menu EXCEPT !.place = "exited"]
  /\ UNCHANGED <<list, added, removed, clashed, starved, wrote>>

Next ==
  \/ \E id \in Ids :
       \/ \E name \in Names : HandleAddContact(id, name)
       \/ HandleDelContact(id) \/ BeginEdit(id) \/ EditId(id)
  \/ \E name \in Names : EditLastName(name)
  \/ EditOther \/ EndEdit \/ Exit

Spec == Init /\ [][Next]_vars

-----------------------------------------------------------------------------
(* Properties.                                                             *)

Links == [Nodes -> Nodes \cup {NULL}]
Cards == 0 .. MaxAdds

\* Every variable keeps its type, and a node is on the list only while its memory is
\* allocated.
TypeOK ==
  /\ list.root \in Nodes \cup {NULL} /\ list.next \in Links /\ list.prev \in Links
  /\ list.leaked \subseteq Nodes
  /\ list.contact \in [Nodes -> [id : Ids, name : Names, card : 1 .. MaxAdds] \cup {NoContact}]
  /\ \A n \in Range(Chain(list)) : list.contact[n] # NoContact
  /\ call \in [place : {"menu", "edit", "exited", "crashed"}, id : Ids \cup {0}, card : Cards]
  /\ added \in Cards /\ removed \subseteq Cards /\ wrote \in Cards
  /\ clashed \in BOOLEAN /\ starved \in BOOLEAN

\* The list is no circle, its links back mirror its links forward, and it is sorted by
\* last name, whatever is added, deleted and renamed.
InOrder ==
  LET chain == Chain(list)
  IN  /\ IsInjective(chain)
      /\ \A k \in DOMAIN chain : list.prev[chain[k]] = IF k = 1 THEN NULL ELSE chain[k - 1]
      /\ \A k \in 1 .. Len(chain) - 1 :
           list.contact[chain[k]].name <= list.contact[chain[k + 1]].name

OnList(card) == {n \in Range(Chain(list)) : list.contact[n].card = card}

\* A contact is on the list once, from its addition until it is deleted.  Renaming it
\* loses it in two cases only: memory has run out, or ids have been made equal by
\* letter i, so that addNode takes the id for an occupied one (contacts.c:307).
Kept ==
  \A card \in 1 .. added :
    /\ Cardinality(OnList(card)) <= 1
    /\ card \in removed => OnList(card) = {}
    /\ OnList(card) = {} => card \in removed \/ clashed \/ starved

\* All letters of one dialogue change the contact it began with, although each one
\* looks it up again, unless ids have been made equal or the contact was lost
\* (menu.c:148-149).  A dialogue that began with an unknown id is not covered: letter
\* i leads it to whatever contact has the new id.
EditSticks ==
  Editing /\ call.card # NoCard /\ ~clashed /\ ~starved => wrote = call.card

=============================================================================
