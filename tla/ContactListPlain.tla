--------------------------- MODULE ContactListPlain ---------------------------
(***************************************************************************)
(* module2/4/4.1: the list phonebook before addContact looked for the id.   *)
(* It keeps the same list as 6.1 and has the same menu, but lets several    *)
(* contacts have one id, does not test what malloc returns, and takes a     *)
(* node out of the list by walking to the one before it.                   *)
(***************************************************************************)
EXTENDS ContactList

Crash == call' = [Menu EXCEPT !.place = "crashed"]

\* A node for c goes to its place, or NULL is dereferenced.
PlainAdding(l, c) ==
  \/ /\ \E new \in Unused(l) : list' = AddContact(l, c, new)
     /\ UNCHANGED <<call, starved>>
  \/ /\ Unused(l) = {}
     /\ list' = l
     /\ Crash /\ starved' = TRUE

PlainAddContact(id, name) ==
  /\ call = Menu /\ added < MaxAdds
  /\ PlainAdding(list, [id |-> id, name |-> name, card |-> added + 1])
  /\ added' = IF list' = list THEN added ELSE added + 1
  /\ clashed' = (clashed \/ Twins(list'))
  /\ UNCHANGED <<removed, wrote>>

\* The place of node n on the list.
PlaceOf(l, n) == SelectInSeq(Chain(l), LAMBDA m : m = n)

\* Node n, found from the root on, is cut out: the link forward is set in the node
\* met before it, the link back is n's.  If n is the first node the next one
\* becomes the root.
CutOut(l, n) ==
  LET k == PlaceOf(l, n)
      rest == l.next[n]
  IN  [l EXCEPT
         !.root = IF k = 1 THEN rest ELSE @,
         !.next = [m \in Nodes |-> IF m = n THEN NULL
                                   ELSE IF k > 1 /\ m = Chain(l)[k - 1] THEN rest ELSE @[m]],
         !.prev = [m \in Nodes |-> IF m = n THEN NULL
                                   ELSE IF m # rest THEN @[m]
                                   ELSE IF k = 1 THEN NULL ELSE l.prev[n]]]

PlainDelContact(id) ==
  /\ call = Menu /\ Find(list, id) # NULL
  /\ LET n == Find(list, id)
     IN  /\ list' = [CutOut(list, n) EXCEPT !.contact[n] = NoContact]
         /\ removed' = removed \cup {list.contact[n].card}
  /\ UNCHANGED <<call, added, clashed, starved, wrote>>

\* Letter l: the contact is added again in a new node, the old one is lost.
PlainEditLastName(name) ==
  /\ Editing
  /\ \/ /\ Found = NULL
        /\ UNCHANGED <<list, starved, call>>
     \/ /\ Found # NULL
        /\ LET without == [Unlink(list, Found) EXCEPT !.contact[Found] = NoContact,
                                                      !.leaked = @ \cup {Found}]
           IN  PlainAdding(without, [list.contact[Found] EXCEPT !.name = name])
  /\ Touched
  /\ UNCHANGED <<added, removed, clashed>>

PlainBeginEdit(id) == BeginEdit(id)
PlainEditId(id) == EditId(id)
PlainEditOther == EditOther
PlainEndEdit == EndEdit
PlainExit == Exit

PlainNext ==
  \/ \E id \in Ids :
       \/ \E name \in Names : PlainAddContact(id, name)
       \/ PlainDelContact(id) \/ PlainBeginEdit(id) \/ PlainEditId(id)
  \/ \E name \in Names : PlainEditLastName(name)
  \/ PlainEditOther \/ PlainEndEdit \/ PlainExit

PlainSpec == Init /\ [][PlainNext]_vars

\* Without the test of the id nothing but the crash for lack of memory loses a
\* contact: it is on the list, once, from its addition until it is deleted, also while
\* other contacts have its id.
PlainKept ==
  \A card \in 1 .. added :
    /\ Cardinality(OnList(card)) <= 1
    /\ card \in removed => OnList(card) = {}
    /\ OnList(card) = {} => card \in removed \/ call.place = "crashed"

=============================================================================
