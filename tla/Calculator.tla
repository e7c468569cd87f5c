------------------------------ MODULE Calculator ------------------------------
(***************************************************************************)
(* The calculators of module2.  All three show a menu, read the number of   *)
(* an operation and two arguments, and call it; the line behind the last    *)
(* operation is the exit.  2.2 has a switch, which passes over any other    *)
(* number, 2.3 a table of functions, which it enters unchecked, and 6.3     *)
(* fills its table from the plugins in libs/ and checks the number.         *)
(*                                                                         *)
(* No result of scanf is tested.  Where it meets no number the variable     *)
(* keeps its value and the characters stay in the input; also at its end.   *)
(* Arguments and results are left out.                                     *)
(***************************************************************************)
EXTENDS Integers, Sequences, Functions, FiniteSets

CONSTANTS
  BuiltIn,     \* how many operations 2.2 or 2.3 has: 4, 5
  OP_COUNT,    \* 6.3: room for plugins
  Libs,        \* 6.3: the names in libs/; among them
  Broken,      \* those that dlopen cannot load,
  Foreign,     \* those without getInfo,
  Others       \* and those without .so in the name

VARIABLES
  calc,        \* "switch", "table" or "plugins"
  place,       \* load, menu, args, call, exited, nothing, crashed
  unread,      \* names that readdir has not returned
  func,        \* the names of the plugins in the table
  handles,     \* what is open
  operation,
  jammed,      \* the input begins with what no scanf can read
  typed,       \* history: the last number that was read for operation, or Nothing
  called       \* history: the line whose function was called last, or Nothing

vars == <<calc, place, unread, func, handles, operation, jammed, typed, called>>

Nothing == -9
Numbers == -1 .. BuiltIn + OP_COUNT + 2

\* operation is not initialised.
Init ==
  /\ calc \in {"switch", "table", "plugins"}
  /\ place = IF calc = "plugins" THEN "load" ELSE "menu"
  /\ unread = (IF calc = "plugins" THEN Libs ELSE {}) /\ func = <<>> /\ handles = {}
  /\ operation \in Numbers /\ jammed = FALSE
  /\ typed = Nothing /\ called = Nothing

OpCount == IF calc = "plugins" THEN Len(func) ELSE BuiltIn

-----------------------------------------------------------------------------
(* 6.3 looks through libs/.                                                *)

\* dlopen and dlsym: a library without getInfo is closed again.
\* (Seeded fault: it stays open.)
OpenedKeeps(lib) == handles \cup {lib}
Opened(lib) == handles \cup ({lib} \ Foreign)

\* The next name.  A plugin for which there is no room ends the search.
Load(lib) ==
  /\ place = "load" /\ lib \in unread
  /\ unread' = unread \ {lib}
  /\ \/ /\ lib \in Others
        /\ UNCHANGED <<place, func, handles>>
     \/ /\ lib \notin Others /\ Len(func) >= OP_COUNT
        /\ place' = "loaded"
        /\ UNCHANGED <<func, handles>>
     \/ /\ lib \in Broken \ Others /\ Len(func) < OP_COUNT
        /\ UNCHANGED <<place, func, handles>>
     \/ /\ lib \notin Others \cup Broken /\ Len(func) < OP_COUNT
        /\ handles' = Opened(lib)
        /\ func' = IF lib \in Foreign THEN func ELSE Append(func, lib)
        /\ UNCHANGED place
  /\ UNCHANGED <<calc, operation, jammed, typed, called>>

\* Without a plugin, or without libs/, the program ends.
Loaded ==
  /\ place = "loaded" \/ (place = "load" /\ unread = {})
  /\ place' = IF func = <<>> THEN "nothing" ELSE "menu"
  /\ UNCHANGED <<calc, unread, func, handles, operation, jammed, typed, called>>

-----------------------------------------------------------------------------
(* The loop.                                                               *)

\* scanf("%d", &operation).
Chosen(number) ==
  /\ operation' = number
  /\ \/ /\ number = OpCount + 1
        /\ place' = "exited"
        /\ handles' = {}
     \/ /\ number # OpCount + 1
        /\ place' = IF calc = "plugins" /\ number \notin 1 .. OpCount THEN "menu" ELSE "args"
        /\ UNCHANGED handles

ReadNumber(number) ==
  /\ place = "menu" /\ ~jammed
  /\ typed' = number
  /\ Chosen(number)
  /\ UNCHANGED <<calc, unread, func, jammed, called>>

\* A word stays in the input for good; a fraction or "inf" will be read as an argument.
ReadNothing ==
  /\ place = "menu"
  /\ Chosen(operation)
  /\ jammed' \in {jammed, TRUE}
  /\ UNCHANGED <<calc, unread, func, typed, called>>

\* The two arguments.
ReadArgs ==
  /\ place = "args"
  /\ place' = "call"
  /\ jammed' \in {jammed, TRUE}
  /\ UNCHANGED <<calc, unread, func, handles, operation, typed, called>>

Call ==
  /\ place = "call"
  /\ \/ /\ operation \in 1 .. OpCount
        /\ place' = "menu" /\ called' = operation
     \/ /\ operation \notin 1 .. OpCount
        /\ place' = IF calc = "table" THEN "crashed" ELSE "menu"
        /\ UNCHANGED called
  /\ UNCHANGED <<calc, unread, func, handles, operation, jammed, typed>>

Next ==
  \/ \E lib \in Libs : Load(lib)
  \/ Loaded
  \/ \E number \in Numbers : ReadNumber(number)
  \/ ReadNothing \/ ReadArgs \/ Call

Spec == Init /\ [][Next]_vars

-----------------------------------------------------------------------------
(* Properties.                                                             *)

\* Every variable keeps its type.
TypeOK ==
  /\ place \in {"load", "loaded", "menu", "args", "call", "exited", "nothing", "crashed"}
  /\ Range(func) \cup handles \cup unread \subseteq Libs /\ Len(func) <= OP_COUNT
  /\ operation \in Numbers /\ typed \in Numbers \cup {Nothing}
  /\ called \in 1 .. BuiltIn + OP_COUNT \cup {Nothing} /\ jammed \in BOOLEAN

\* Whatever is in libs/ and in whatever order it is found, each line of the menu has a
\* library of its own that is open, no other is, and none is at the end; and once a
\* number was typed, what is called, and the exit, is the line last typed, however
\* often the input is unreadable after it.
MenuHolds ==
  /\ IsInjective(func) /\ Range(func) \cap (Broken \cup Foreign \cup Others) = {}
  /\ handles = IF place \in {"exited", "nothing"} THEN {} ELSE Range(func)
  /\ typed # Nothing => operation = typed
  /\ place = "exited" => operation = OpCount + 1

=============================================================================
