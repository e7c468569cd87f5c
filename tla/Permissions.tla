----------------------------- MODULE Permissions -----------------------------
(***************************************************************************)
(* module2/3/3.1: permission bits that are entered, taken from a file or    *)
(* changed by commands in the manner of chmod.  bits is the set of what is  *)
(* allowed to whom.  A command is a number or clauses between commas; a     *)
(* clause is a sequence of characters, and one action is one clause.        *)
(*                                                                         *)
(* Numbers are octal and stand for their last nine bits: higher ones are    *)
(* never shown.  An option that is not a number repeats the one before it   *)
(* with the rest of the line, as if that had been chosen.                  *)
(***************************************************************************)
EXTENDS Integers, Sequences, SequencesExt

CONSTANTS
  Who,        \* some of "u", "g", "o"
  Rights,     \* some of "r", "w", "x"
  MaxChars    \* bound on the characters of one clause

VARIABLES
  place,      \* menu, command, endless, exited
  bits,
  wanted,     \* history: what chmod(1) would have made of the bits ...
  plain       \* ... as long as every clause is one that the program understands

vars == <<place, bits, wanted, plain>>

Ops == {"+", "-", "="}
Other == "?"
Chars == Who \cup {"a"} \cup Ops \cup Rights \cup {Other}
Clauses == BoundedSeq(Chars, MaxChars) \ {<<>>}
AllBits == Who \X Rights

Init == place = "menu" /\ bits = {} /\ wanted = {} /\ plain = TRUE

-----------------------------------------------------------------------------
\* Options 1 and 2, and option 3 with a number: all bits are new.
SetTo(b) == bits' = b /\ wanted' = b /\ plain' = TRUE
Enter(b) ==
  /\ place = "menu"
  /\ SetTo(b)
  /\ UNCHANGED place

\* Option 1 with nine characters of which one is neither its letter nor '-': the bits
\* before it are set, the others are lost.  The places are those of "rwxrwxrwx".
PlaceOf(x) ==
  3 * SelectInSeq(<<"u", "g", "o">>, LAMBDA w : w = x[1])
    + SelectInSeq(<<"r", "w", "x">>, LAMBDA r : r = x[2])
EnterWrong(b, wrong) ==
  /\ place = "menu"
  /\ SetTo({x \in b : PlaceOf(x) < PlaceOf(wrong)})
  /\ UNCHANGED place

BeginChange ==
  /\ place = "menu" /\ place' = "command"
  /\ UNCHANGED <<bits, wanted, plain>>

\* One clause.  Its users and its rights are collected over the whole clause, and the
\* operation is the last one, if only rights follow it; otherwise it is taken as '='.
Named(clause) ==
  {w \in Who : w \in Range(clause) \/ "a" \in Range(clause)}
Mask(clause) == Named(clause) \X (Range(clause) \cap Rights)
Op(clause) ==
  LET k == SelectLastInSeq(clause, LAMBDA c : c \in Ops)
  IN  IF k > 0 /\ \A i \in k + 1 .. Len(clause) : clause[i] \in Rights THEN clause[k] ELSE "="

\* (Seeded fault: '-' takes the rights from everybody.)
ChangedForAll(b, clause) ==
  CASE Op(clause) = "+" -> b \cup Mask(clause)
    [] Op(clause) = "-" -> b \ (Who \X Range(clause))
    [] OTHER -> Mask(clause)
Changed(b, clause) ==
  CASE Op(clause) = "+" -> b \cup Mask(clause)
    [] Op(clause) = "-" -> b \ Mask(clause)
    [] OTHER -> Mask(clause)

\* chmod(1): users, then operations, each with its rights, in turn.
Understood(clause) ==
  \E k \in 2 .. Len(clause) :
    /\ clause[k] \in Ops
    /\ \A i \in 1 .. k - 1 : clause[i] \in Who \cup {"a"}
    /\ \A i \in k + 1 .. Len(clause) : clause[i] \in Rights
    /\ clause[k] = "=" => Named(clause) = Who
ByChmod(b, clause) ==
  LET k == SelectInSeq(clause, LAMBDA c : c \in Ops)
      users == Range(SubSeq(clause, 1, k - 1))
      rights == Range(SubSeq(clause, k + 1, Len(clause)))
  IN  {x \in AllBits :
         LET meant == (x[1] \in users \/ "a" \in users) /\ x[2] \in rights
         IN  CASE clause[k] = "+" -> x \in b \/ meant
               [] clause[k] = "-" -> x \in b /\ ~meant
               [] OTHER -> IF x[1] \in users \/ "a" \in users THEN meant ELSE x \in b}

\* An unknown character is never passed: the inner loop does not end.
Clause(clause) ==
  /\ place = "command"
  /\ IF Other \in Range(clause)
     THEN place' = "endless" /\ UNCHANGED <<bits, wanted, plain>>
     ELSE /\ bits' = Changed(bits, clause)
          /\ plain' = (plain /\ Understood(clause))
          /\ wanted' = IF plain' THEN ByChmod(wanted, clause) ELSE bits'
          /\ UNCHANGED place

EndChange ==
  /\ place = "command" /\ place' = "menu"
  /\ UNCHANGED <<bits, wanted, plain>>

Exit ==
  /\ place = "menu" /\ place' = "exited"
  /\ UNCHANGED <<bits, wanted, plain>>

Next ==
  \/ \E b \in SUBSET AllBits : Enter(b) \/ \E x \in AllBits : EnterWrong(b, x)
  \/ BeginChange \/ EndChange \/ Exit
  \/ \E clause \in Clauses : Clause(clause)

Spec == Init /\ [][Next]_vars

-----------------------------------------------------------------------------
(* Properties.                                                             *)

\* Every variable keeps its type.
TypeOK ==
  /\ place \in {"menu", "command", "endless", "exited"}
  /\ bits \subseteq AllBits /\ wanted \subseteq AllBits /\ plain \in BOOLEAN

\* From bits that were entered on, any number of commands leaves the bits that chmod
\* would, if each clause has users, one operation and rights, and a '=' names all
\* users: others lose their rights by it (chmod.c:130).
AsChmod == plain => bits = wanted

=============================================================================
