---------------------------- MODULE ContactArray ----------------------------
(***************************************************************************)
(* module2/2/2.1: a phonebook in an array that grows and shrinks, sorted    *)
(* after every change and keyed by id, behind a menu.  The program has one  *)
(* thread; an action is what it does between two inputs.  handleEditContact *)
(* asks for an id, looks up its place once, and then changes the contact at *)
(* that place letter by letter.                                             *)
(*                                                                         *)
(* The pair of last and first name, by which the array is sorted, is one    *)
(* number.  The other fields are one card, by which a contact is recognised.*)
(***************************************************************************)
EXTENDS Integers, Sequences, SequencesExt, FiniteSets

CONSTANTS
  InitSize,   \* the capacity option 1 asks for: 5 in the code
  Ids,
  Names,
  MaxAdds,    \* bound on the contacts added
  MaxInits    \* bound on the uses of option 1

NoCard == 0
NoPlace == 0

VARIABLES
  inits,     \* how often the phonebook has been initialised; 0: contact is NULL
  book,      \* the contacts, contact[0] first; size is its length
  capacity,
  call,      \* the menu, or the dialogue of handleEditContact or handleAutoFill
  added,     \* how many contacts have been added
  removed,   \* history: the cards of the contacts that were deleted or initialised over
  atFirst,   \* history: an edit has taken the id of the contact in contact[0]
  wrote      \* history: the card of the contact the dialogue has found or changed last

vars == <<inits, book, capacity, call, added, removed, atFirst, wrote>>

Menu == [place |-> "menu", idx |-> NoPlace, card |-> NoCard]

Init ==
  /\ inits = 0 /\ book = <<>> /\ capacity = 0
  /\ call = Menu /\ added = 0
  /\ removed = {} /\ atFirst = FALSE /\ wrote = NoCard

\* The place of the first contact with that id, counted from 1; 0: there is none.
GetIndex(id) == SelectInSeq(book, LAMBDA c : c.id = id)

\* What qsort may return: equal names in any order.
SortedOf(b) ==
  {s \in [DOMAIN b -> Range(b)] :
     Range(s) = Range(b) /\ \A i \in 1 .. Len(b) - 1 : s[i].name <= s[i + 1].name}

CardsOf(b) == {b[i].card : i \in DOMAIN b}

InitPhoneBook ==
  /\ call = Menu /\ inits < MaxInits
  /\ inits' = inits + 1
  /\ book' = <<>> /\ capacity' = InitSize
  /\ removed' = removed \cup CardsOf(book)
  /\ UNCHANGED <<call, added, atFirst, wrote>>

\* addContact succeeds.
Add(id, name) ==
  /\ inits > 0 /\ added < MaxAdds /\ GetIndex(id) = 0
  /\ capacity' = IF Len(book) >= capacity THEN capacity * 2 ELSE capacity
  /\ book' \in SortedOf(Append(book, [id |-> id, name |-> name, card |-> added + 1]))
  /\ added' = added + 1
  /\ UNCHANGED <<inits, removed, atFirst, wrote>>

HandleAddContact(id, name) == call = Menu /\ Add(id, name) /\ UNCHANGED call

\* handleAutoFill: a free id for each contact, as many as the user asked for.
AutoFill(id, name) ==
  /\ call.place \in {"menu", "fill"}
  /\ Add(id, name)
  /\ call' \in {Menu, [Menu EXCEPT !.place = "fill"]}

\* The last contact takes the place of the deleted one.
Delete(k) == SubSeq([book EXCEPT ![k] = Last(book)], 1, Len(book) - 1)

\* shrinkPhoneBook halves the capacity, but not below the initial one.
\* (Seeded fault: it forgets the initial one.)
ShrunkBelow(n) == IF n <= capacity \div 4 THEN capacity \div 2 ELSE capacity
Shrunk(n) ==
  IF n <= capacity \div 4 /\ capacity \div 2 >= InitSize THEN capacity \div 2 ELSE capacity

HandleDelContact(id) ==
  /\ call = Menu /\ GetIndex(id) # 0
  /\ LET k == GetIndex(id)
     IN  /\ book' \in SortedOf(Delete(k))
         /\ capacity' = Shrunk(Len(book) - 1)
         /\ removed' = removed \cup {book[k].card}
  /\ UNCHANGED <<inits, call, added, atFirst, wrote>>

\* handleEditContact finds the place; an unknown id ends the dialogue.  Before option 1
\* getIndex returns -1, not -2, and the code reads contact[-1] of a NULL pointer.
BeginEdit(id) ==
  /\ call = Menu
  /\ \/ /\ inits > 0 /\ GetIndex(id) # 0
        /\ wrote' = book[GetIndex(id)].card
        /\ call' = [place |-> "edit", idx |-> GetIndex(id), card |-> wrote']
     \/ /\ inits = 0
        /\ call' = [Menu EXCEPT !.place = "crashed"]
        /\ UNCHANGED wrote
  /\ UNCHANGED <<inits, book, capacity, added, removed, atFirst>>

\* One letter: editContact with the place found at the beginning, then sortBook.
Editing == call.place = "edit"
EditContact(new) ==
  /\ wrote' = book[call.idx].card
  /\ book' \in SortedOf([book EXCEPT ![call.idx] = new])
  /\ UNCHANGED <<inits, capacity, call, added, removed>>

\* Letter i: the new id is refused if a contact has it, unless that is the first one
\* (checkIdx > 0).
EditId(id) ==
  /\ Editing /\ GetIndex(id) <= 1
  /\ EditContact([book[call.idx] EXCEPT !.id = id])
  /\ atFirst' = (atFirst \/ (GetIndex(id) = 1 /\ call.idx # 1))

\* Letters f and l.
EditName(name) ==
  /\ Editing
  /\ EditContact([book[call.idx] EXCEPT !.name = name])
  /\ UNCHANGED atFirst

\* The letters j, p, C, c and s.
EditOther ==
  /\ Editing
  /\ EditContact(book[call.idx])
  /\ UNCHANGED atFirst

EndEdit ==
  /\ Editing
  /\ call' = Menu /\ wrote' = NoCard
  /\ UNCHANGED <<inits, book, capacity, added, removed, atFirst>>

Exit ==
  /\ call = Menu
  /\ call' = [Menu EXCEPT !.place = "exited"]
  /\ UNCHANGED <<inits, book, capacity, added, removed, atFirst, wrote>>

Next ==
  \/ InitPhoneBook \/ EditOther \/ EndEdit \/ Exit
  \/ \E id \in Ids : HandleDelContact(id) \/ BeginEdit(id) \/ EditId(id)
  \/ \E id \in Ids, name \in Names : HandleAddContact(id, name) \/ AutoFill(id, name)
  \/ \E name \in Names : EditName(name)

Spec == Init /\ [][Next]_vars

-----------------------------------------------------------------------------
(* Properties.                                                             *)

\* Every variable keeps its type, and a dialogue's place is always within the book.
TypeOK ==
  /\ inits \in 0 .. MaxInits /\ added \in 0 .. MaxAdds
  /\ book \in Seq([id : Ids, name : Names, card : 1 .. MaxAdds])
  /\ call \in [place : {"menu", "edit", "fill", "crashed", "exited"},
               idx : 0 .. MaxAdds, card : 0 .. MaxAdds]
  /\ Editing => call.idx \in DOMAIN book
  /\ removed \subseteq 1 .. MaxAdds /\ atFirst \in BOOLEAN /\ wrote \in 0 .. MaxAdds

\* Growing and shrinking leave room for every contact, in particular for the one
\* addContact is about to write, and never go below the initial capacity.
RoomForAll == inits > 0 => Len(book) <= capacity /\ capacity >= InitSize

\* The book is sorted, and holds each contact from its addition to its deletion.
SortedAndComplete ==
  /\ \A i \in 1 .. Len(book) - 1 : book[i].name <= book[i + 1].name
  /\ CardsOf(book) = 1 .. added \ removed
  /\ Cardinality(CardsOf(book)) = Len(book)

\* Ids are unique as long as no edit has taken the id of the contact in contact[0],
\* the one place that the test `checkIdx > 0' lets pass (menu.c:171).
TwinsComeFromFirst ==
  ~atFirst => \A i, j \in DOMAIN book : book[i].id = book[j].id => i = j

\* "Выбран контакт" (the contact is selected), "Выбранные поля контакта успешно
\* обновлены" (the chosen fields of the contact are updated; menu.c:136, 238): all
\* letters of one dialogue change the contact it began with.  The code keeps its
\* place, while sortBook moves the contact.  (With distinct names, so that this does not
\* depend on what qsort does with equal ones.)
EditSticks ==
  Editing /\ (\A i, j \in DOMAIN book : book[i].name = book[j].name => i = j)
  => wrote = call.card

=============================================================================
