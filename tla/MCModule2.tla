----------------------------- MODULE MCModule2 -----------------------------
(***************************************************************************)
(* The menu programs of module2 for TLC: a behaviour is a run of one of     *)
(* them, the others stay as they are.                                      *)
(***************************************************************************)
EXTENDS Integers, FiniteSets, TLC

CONSTANTS
  Items, MaxPriority,              \* PriorityQueue
  Nodes,                           \* ContactList and ContactListPlain
  NULL,
  InitSize, MaxInits,              \* ContactArray
  OperationsToBalance, TreeNames, MaxTreeAdds,   \* ContactTree
  Ids, Names, MaxAdds,             \* the lists and ContactArray
  BuiltIn, OP_COUNT, Libs, Broken, Foreign, Others,   \* Calculator
  Who, Rights, MaxChars,           \* Permissions
  OctetBits, N                     \* Subnet

ASSUME Module2Assumption ==
  /\ NULL \notin Items \cup Nodes /\ IsFiniteSet(Items) /\ IsFiniteSet(Nodes) /\ MaxPriority \in Nat
  /\ InitSize \in Nat \ {0} /\ OperationsToBalance \in Nat \ {0}
  /\ MaxInits \in Nat /\ MaxAdds \in Nat /\ MaxTreeAdds \in Nat
  /\ BuiltIn \in Nat /\ OP_COUNT \in Nat /\ Broken \cup Foreign \cup Others \subseteq Libs
  /\ Who \subseteq {"u", "g", "o"} /\ Rights \subseteq {"r", "w", "x"} /\ MaxChars \in Nat
  /\ OctetBits \in Nat \ {0} /\ N \in Nat
  /\ Ids \subseteq Nat \ {0} /\ Names \cup TreeNames \subseteq Nat \ {0}

VARIABLES
  program,
  queue, begin, size, next, priority, result, last, came, lost,
  list, listCall, listAdded, listRemoved, clashed, starved, listWrote,
  inits, book, capacity, arrayCall, arrayAdded, arrayRemoved, atFirst, arrayWrote,
  tree, opCount, treeCall, treeAdded, treeRemoved, sameName, base, treeWrote,
  calc, calcPlace, unread, func, handles, operation, jammed, typed, called,
  bitsPlace, bits, wanted, plain,
  gateway, network, ip, answer, i, count

Queue == INSTANCE PriorityQueue
List == INSTANCE ContactListPlain WITH
  call <- listCall, added <- listAdded, removed <- listRemoved, wrote <- listWrote
Array == INSTANCE ContactArray WITH
  call <- arrayCall, added <- arrayAdded, removed <- arrayRemoved, wrote <- arrayWrote
Tree == INSTANCE ContactTree WITH
  Names <- TreeNames, MaxAdds <- MaxTreeAdds, call <- treeCall, added <- treeAdded, removed <- treeRemoved,
  clashed <- sameName, wrote <- treeWrote

Calc == INSTANCE Calculator WITH place <- calcPlace
Bits == INSTANCE Permissions WITH place <- bitsPlace

\* Addresses: all that are proper, and some with an octet that is too large; all masks
\* that are prefixes, and two that are none.
Octet == 0 .. 2 ^ OctetBits - 1
Gateways == [1 .. 4 -> Octet] \cup {<<0, 2 ^ OctetBits, 0, 1>>, <<1, 0, 0, 2 ^ OctetBits + 1>>}
Masks ==
  {m \in [1 .. 4 -> Octet] : \A k \in 1 .. 3 : m[k] # 2 ^ OctetBits - 1 => m[k + 1] = 0}
    \cup {<<0, 1, 0, 1>>, <<0, 2 ^ OctetBits, 0, 0>>}
Net == INSTANCE Subnet

queueVars == <<queue, begin, size, next, priority, result, last, came, lost>>
listVars == <<list, listCall, listAdded, listRemoved, clashed, starved, listWrote>>
arrayVars == <<inits, book, capacity, arrayCall, arrayAdded, arrayRemoved, atFirst, arrayWrote>>
treeVars == <<tree, opCount, treeCall, treeAdded, treeRemoved, sameName, base, treeWrote>>
calcVars == <<calc, calcPlace, unread, func, handles, operation, jammed, typed, called>>
bitsVars == <<bitsPlace, bits, wanted, plain>>
netVars == <<gateway, network, ip, answer, i, count>>
toolVars == <<calcVars, bitsVars, netVars>>
bookVars == <<listVars, arrayVars, treeVars>>
vars == <<program, queueVars, bookVars, toolVars>>

\* The programs that do not run wait in one of their initial states.
Init ==
  /\ program \in {"queue", "list", "plain", "array", "tree", "calc", "bits", "net"}
  /\ Queue!Init /\ List!Init /\ Array!Init /\ Tree!Init /\ Calc!Init /\ Bits!Init /\ Net!Init
  /\ program # "calc" => calc = "table" /\ operation = 0
  /\ program # "net" => gateway = <<0, 0, 0, 0>>

-----------------------------------------------------------------------------
(* The actions of each program, while the others stay.                     *)

InQueue == program = "queue" /\ UNCHANGED <<program, bookVars, toolVars>>
InList == program = "list" /\ UNCHANGED <<program, queueVars, arrayVars, treeVars, toolVars>>
InPlain == program = "plain" /\ UNCHANGED <<program, queueVars, arrayVars, treeVars, toolVars>>
InArray == program = "array" /\ UNCHANGED <<program, queueVars, listVars, treeVars, toolVars>>
InTree == program = "tree" /\ UNCHANGED <<program, queueVars, listVars, arrayVars, toolVars>>
InCalc == program = "calc" /\ UNCHANGED <<program, queueVars, bookVars, bitsVars, netVars>>
InBits == program = "bits" /\ UNCHANGED <<program, queueVars, bookVars, calcVars, netVars>>
InNet == program = "net" /\ UNCHANGED <<program, queueVars, bookVars, calcVars, bitsVars>>

QInit == InQueue /\ Queue!InitQueue
QInsert == InQueue /\ \E p \in -1 .. MaxPriority + 1 : Queue!InsertItem(p)
QPopFirst == InQueue /\ Queue!PopFirstItem
QPopWith == InQueue /\ \E p \in 0 .. MaxPriority : Queue!PopItemWithPriority(p)
QPopNotLower == InQueue /\ \E p \in 0 .. MaxPriority : Queue!PopItemWithPriorityNotLower(p)
QUseWild == InQueue /\ Queue!UseWild
QExit == InQueue /\ Queue!Exit

LAdd == InList /\ \E id \in Ids, name \in Names : List!HandleAddContact(id, name)
LDel == InList /\ \E id \in Ids : List!HandleDelContact(id)
LBeginEdit == InList /\ \E id \in Ids : List!BeginEdit(id)
LEditId == InList /\ \E id \in Ids : List!EditId(id)
LEditLastName == InList /\ \E name \in Names : List!EditLastName(name)
LEditOther == InList /\ List!EditOther
LEndEdit == InList /\ List!EndEdit
LExit == InList /\ List!Exit

PAdd == InPlain /\ \E id \in Ids, name \in Names : List!PlainAddContact(id, name)
PDel == InPlain /\ \E id \in Ids : List!PlainDelContact(id)
PBeginEdit == InPlain /\ \E id \in Ids : List!PlainBeginEdit(id)
PEditId == InPlain /\ \E id \in Ids : List!PlainEditId(id)
PEditLastName == InPlain /\ \E name \in Names : List!PlainEditLastName(name)
PEditOther == InPlain /\ List!PlainEditOther
PEndEdit == InPlain /\ List!PlainEndEdit
PExit == InPlain /\ List!PlainExit

AInit == InArray /\ Array!InitPhoneBook
AAdd == InArray /\ \E id \in Ids, name \in Names : Array!HandleAddContact(id, name)
AAutoFill == InArray /\ \E id \in Ids, name \in Names : Array!AutoFill(id, name)
ADel == InArray /\ \E id \in Ids : Array!HandleDelContact(id)
ABeginEdit == InArray /\ \E id \in Ids : Array!BeginEdit(id)
AEditId == InArray /\ \E id \in Ids : Array!EditId(id)
AEditName == InArray /\ \E name \in Names : Array!EditName(name)
AEditOther == InArray /\ Array!EditOther
AEndEdit == InArray /\ Array!EndEdit
AExit == InArray /\ Array!Exit

TAdd == InTree /\ \E name \in TreeNames : Tree!HandleAddContact(name)
THandleDel == InTree /\ \E name \in TreeNames : Tree!HandleDelContact(name)
TDel == InTree /\ \E name \in TreeNames : Tree!DelContact(name)
TBeginEdit == InTree /\ \E name \in TreeNames : Tree!BeginEdit(name)
TEditLastName == InTree /\ \E name \in TreeNames : Tree!EditLastName(name)
TEditOther == InTree /\ Tree!EditOther
TEndEdit == InTree /\ Tree!EndEdit
TExit == InTree /\ Tree!Exit

CLoad == InCalc /\ \E lib \in Libs : Calc!Load(lib)
CLoaded == InCalc /\ Calc!Loaded
CReadNumber == InCalc /\ \E number \in Calc!Numbers : Calc!ReadNumber(number)
CReadNothing == InCalc /\ Calc!ReadNothing
CReadArgs == InCalc /\ Calc!ReadArgs
CCall == InCalc /\ Calc!Call

BEnter == InBits /\ \E b \in SUBSET Bits!AllBits : Bits!Enter(b)
BEnterWrong ==
  InBits /\ \E b \in SUBSET Bits!AllBits, wrong \in Bits!AllBits : Bits!EnterWrong(b, wrong)
BBeginChange == InBits /\ Bits!BeginChange
BClause == InBits /\ \E clause \in Bits!Clauses : Bits!Clause(clause)
BEndChange == InBits /\ Bits!EndChange
BExit == InBits /\ Bits!Exit

NStart == InNet /\ \E n \in Net!NetMasks \cup Net!Prefixes : Net!Start(n)
NTest == InNet /\ \E number \in SUBSET Net!Word : Net!Test(number)

Next ==
  \/ QInit \/ QInsert \/ QPopFirst \/ QPopWith \/ QPopNotLower \/ QUseWild \/ QExit
  \/ LAdd \/ LDel \/ LBeginEdit \/ LEditId \/ LEditLastName \/ LEditOther \/ LEndEdit \/ LExit
  \/ PAdd \/ PDel \/ PBeginEdit \/ PEditId \/ PEditLastName \/ PEditOther \/ PEndEdit \/ PExit
  \/ AInit \/ AAdd \/ AAutoFill \/ ADel
  \/ ABeginEdit \/ AEditId \/ AEditName \/ AEditOther \/ AEndEdit \/ AExit
  \/ TAdd \/ THandleDel \/ TDel \/ TBeginEdit \/ TEditLastName \/ TEditOther \/ TEndEdit \/ TExit
  \/ CLoad \/ CLoaded \/ CReadNumber \/ CReadNothing \/ CReadArgs \/ CCall
  \/ BEnter \/ BEnterWrong \/ BBeginChange \/ BClause \/ BEndChange \/ BExit
  \/ NStart \/ NTest

Spec == Init /\ [][Next]_vars

\* Nodes are addresses: which one malloc returns makes no difference.
Symmetry == Permutations(Nodes)

-----------------------------------------------------------------------------
(* The properties, stated in the modules of the programs.                  *)

\* Types of all variables; the queue's size is the number of its items, a listed
\* node is allocated, an array dialogue's place is in the book, a rebuild is not overdue.
TypeOK ==
  /\ program = "queue" => Queue!TypeOK
  /\ program \in {"list", "plain"} => List!TypeOK
  /\ program = "array" => Array!TypeOK
  /\ program = "tree" => Tree!TypeOK
  /\ program = "calc" => Calc!TypeOK
  /\ program = "bits" => Bits!TypeOK
  /\ program = "net" => Net!TypeOK

\* A pop takes the first item that suits it, or there is none.
QueuePopsFirstThatSuits == Queue!PopsFirstThatSuits

\* The doubly linked phonebook, in both its forms, is sorted, its links agree, and no
\* contact is lost without delContact, but for equal ids and lack of memory in the one,
\* and in the other the crash that lack of memory means; an editing dialogue changes one
\* contact.
ListIntact ==
  /\ program \in {"list", "plain"} => List!InOrder /\ List!EditSticks
  /\ program = "list" => List!Kept
  /\ program = "plain" => List!PlainKept

\* The array has room for all contacts, is sorted and loses none of them, and ids in it
\* are equal only after an edit took the first contact's id.
ArrayIntact ==
  program = "array" => Array!RoomForAll /\ Array!SortedAndComplete /\ Array!TwinsComeFromFirst

\* The tree holds every contact, the search by its name finds one, the rebuilds bound the
\* tree's height, and an editing dialogue changes one contact.
TreeIntact == program = "tree" => Tree!FoundUntilRemoved /\ Tree!NotDegenerate /\ Tree!EditSticks

\* Each line of the calculator's menu has its library, and no other is open.
MenuHolds == program = "calc" => Calc!MenuHolds

\* The bits are those that chmod(1) makes; an address is in the gateway's network
\* exactly if arithmetic on numbers says so.
BitsAgree ==
  /\ program = "bits" => Bits!AsChmod
  /\ program = "net" => Net!SameNetwork

=============================================================================
