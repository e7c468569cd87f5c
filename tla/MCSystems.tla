------------------------------ MODULE MCSystems ------------------------------
(***************************************************************************)
(* The smaller concurrent programs for TLC: the file copier and the UDP     *)
(* chat of module3, the character device, the proc entry and the keyboard   *)
(* LEDs of module5.  A behaviour is a run of one of them, the others stay   *)
(* as they are.                                                            *)
(***************************************************************************)
EXTENDS Integers, FiniteSets

CONSTANTS
  Files, MaxArgs, MaxSize, BufferSize, PipeSize, MaxEdits,   \* PipeCopy
  Users, Nicks, MaxLines, MaxTroubles,                       \* UdpChat
  Procs, Size, MaxCount, MaxWrites,                          \* Device
  Consoles, Writers                                          \* KbdLed

VARIABLES
  program,
  type, args, present, size, pipe, ready, ppc, arg, rpos, buf, stat, cpc, meta, left, known,
  copy, edits,
  plan, pc, keep, bound, flight, slot, shown, sent, joined, struck, extra, troubles,
  kind, module, refs, alloc, msg, len, file, got, writes, log, calm, late,
  state, test, leds, fg_console, tty, store, raced, crossed, aimed, lent

\* Two users on one host with two nicknames, or on two hosts with two nicknames
\* or one; the second nickname has 31 characters and may lose its end.
TheUsers == CHOOSE u \in [1 .. 2 -> Users] : u[1] # u[2]
Longest == CHOOSE n \in Nicks : TRUE
Plan(hosts, nicks, ends) ==
  [host |-> [u \in Users |-> hosts[IF u = TheUsers[1] THEN 1 ELSE 2]],
   nick |-> [u \in Users |-> nicks[IF u = TheUsers[1] THEN 1 ELSE 2]],
   open |-> [u \in Users |-> IF u = TheUsers[1] THEN {} ELSE ends]]
Short == CHOOSE n \in Nicks : n # Longest
Plans ==
  {Plan(<<1, 1>>, <<Short, Longest>>, {}), Plan(<<1, 2>>, <<Short, Longest>>, {2}),
   Plan(<<1, 2>>, <<Longest, Longest>>, {1, 2})}

\* What is written to state: both ends of the mask, one beyond each, the value that
\* restores the LEDs, and no number at all.
Inputs == {-1, 0, 7, 8, 255, -100}

ASSUME SystemsAssumption ==
  /\ MaxArgs \in Nat /\ MaxSize \in Nat /\ MaxEdits \in Nat
  /\ BufferSize \in Nat \ {0} /\ PipeSize \in Nat /\ PipeSize >= BufferSize
  /\ \A p \in Plans : \A u \in Users :
       p.open[u] \subseteq {1, 2} /\ (p.nick[u] # Longest => p.open[u] = {})
  /\ MaxLines \in Nat /\ MaxTroubles \in Nat
  /\ Size \in Nat \ {0} /\ MaxCount \in Nat /\ MaxWrites \in Nat /\ IsFiniteSet(Procs)

Copier == INSTANCE PipeCopy
Chat == INSTANCE UdpChat WITH LongNicks <- {Longest}
Dev == INSTANCE Device
Led == INSTANCE KbdLed

copierVars == <<type, args, present, size, pipe, ready, ppc, arg, rpos, buf, stat, cpc, meta, left,
                known, copy, edits>>
chatVars == <<plan, pc, keep, bound, flight, slot, shown, sent, joined, struck, extra, troubles>>
devVars == <<kind, module, refs, alloc, msg, len, file, got, writes, log, calm, late>>
ledVars == <<state, test, leds, fg_console, tty, store, raced, crossed, aimed, lent>>
vars == <<program, copierVars, chatVars, devVars, ledVars>>

\* The programs that do not run wait in one of their initial states.
Init ==
  /\ program \in {"copier", "chat", "dev", "led"}
  /\ Copier!Init /\ Chat!Init /\ Dev!Init /\ Led!Init
  /\ program # "copier" => /\ type = "PIPE" /\ args = <<>> /\ present = {}
                           /\ size = [f \in Files |-> 0]
  /\ program # "chat" => plan = Plan(<<1, 2>>, <<Short, Longest>>, {2})
  /\ program # "dev" => kind = "proc"
  /\ program # "led" => tty = Consoles /\ fg_console = CHOOSE c \in Consoles : TRUE

-----------------------------------------------------------------------------
(* The actions of each program, while the others stay.                     *)

InCopier == program = "copier" /\ UNCHANGED <<program, chatVars, devVars, ledVars>>
InChat == program = "chat" /\ UNCHANGED <<program, copierVars, devVars, ledVars>>
InDev == program = "dev" /\ UNCHANGED <<program, copierVars, chatVars, ledVars>>
InLed == program = "led" /\ UNCHANGED <<program, copierVars, chatVars, devVars>>

POpen == InCopier /\ Copier!POpen
PReady == InCopier /\ Copier!PReady
PStat == InCopier /\ Copier!PStat
PMeta == InCopier /\ Copier!PMeta
PRead == InCopier /\ Copier!PRead
PWrite == InCopier /\ Copier!PWrite
PEnd == InCopier /\ Copier!PEnd
PWait == InCopier /\ Copier!PWait
CSignal == InCopier /\ Copier!CSignal
CMeta == InCopier /\ Copier!CMeta
CChunk == InCopier /\ Copier!CChunk
Edit == InCopier /\ \E f \in Files : Copier!Edit(f)
Parent == InCopier /\ Copier!Parent
Child == InCopier /\ Copier!Child

Bind == InChat /\ \E u \in Users : Chat!Bind(u)
Hello == InChat /\ \E u \in Users : Chat!Hello(u)
TestKeep == InChat /\ \E u \in Users : Chat!Test(u)
Typed == InChat /\ \E u \in Users : Chat!Typed(u)
SendText == InChat /\ \E u \in Users : Chat!SendText(u)
Bye == InChat /\ \E u \in Users : Chat!Bye(u)
Receive == InChat /\ \E u \in Users : Chat!Receive(u)
PressMain == InChat /\ \E u \in Users : Chat!PressMain(u)
PressReceiver == InChat /\ \E u \in Users : Chat!PressReceiver(u)
Lose == InChat /\ \E u \in Users : Chat!Lose(u)
Repeat == InChat /\ \E u \in Users : Chat!Repeat(u)
Reorder == InChat /\ \E u \in Users : Chat!Reorder(u)

ChrdevInit == InDev /\ Dev!ChrdevInit
ProcCreate == InDev /\ Dev!ProcCreate
ProcAlloc == InDev /\ Dev!ProcAlloc
ProcClear == InDev /\ Dev!ProcClear
Unload == InDev /\ Dev!Unload
Unloaded == InDev /\ Dev!Unloaded
Open == InDev /\ \E p \in Procs, append \in BOOLEAN : Dev!Open(p, append)
DeviceOpen == InDev /\ \E p \in Procs : Dev!DeviceOpen(p)
Release == InDev /\ \E p \in Procs : Dev!Release(p)
ReadBegin == InDev /\ \E p \in Procs, n \in 1 .. MaxCount : Dev!ReadBegin(p, n)
ReadByte == InDev /\ \E p \in Procs : Dev!ReadByte(p)
ReadFault == InDev /\ \E p \in Procs : Dev!ReadFault(p)
WriteBegin == InDev /\ \E p \in Procs, n \in 0 .. MaxCount : Dev!WriteBegin(p, n)
WriteByte == InDev /\ \E p \in Procs : Dev!WriteByte(p)
WriteFault == InDev /\ \E p \in Procs : Dev!WriteFault(p)
StoreLen == InDev /\ \E p \in Procs : Dev!StoreLen(p)
StoreZero == InDev /\ \E p \in Procs : Dev!StoreZero(p)

Switch == InLed /\ \E c \in Consoles : Led!Switch(c)
Terminal == InLed /\ \E c \in Consoles : Led!Terminal(c)
SysInit == InLed /\ Led!SysInit
StateStore == InLed /\ \E w \in Writers, v \in Inputs : Led!StateStore(w, v)
StoreLeds == InLed /\ \E w \in Writers : Led!StoreLeds(w)
SysExit == InLed /\ Led!SysExit
KobjectPut == InLed /\ Led!KobjectPut

Next ==
  \/ POpen \/ PReady \/ PStat \/ PMeta \/ PRead \/ PWrite \/ PEnd \/ PWait
  \/ CSignal \/ CMeta \/ CChunk \/ Edit
  \/ Bind \/ Hello \/ TestKeep \/ Typed \/ SendText \/ Bye \/ Receive
  \/ PressMain \/ PressReceiver \/ Lose \/ Repeat \/ Reorder
  \/ ChrdevInit \/ ProcCreate \/ ProcAlloc \/ ProcClear \/ Unload \/ Unloaded
  \/ Open \/ DeviceOpen \/ Release \/ ReadBegin \/ ReadByte \/ ReadFault
  \/ WriteBegin \/ WriteByte \/ WriteFault \/ StoreLen \/ StoreZero
  \/ Switch \/ Terminal \/ SysInit \/ StateStore \/ StoreLeds \/ SysExit \/ KobjectPut

\* Both processes of the copier go on.
FairSpec == Init /\ [][Next]_vars /\ WF_vars(Parent) /\ WF_vars(Child)

-----------------------------------------------------------------------------
(* The properties, stated in the modules of the programs.                  *)

\* Types of all variables; the copier's pipe is never overfull, one chat user per host
\* has the port; the device's message fits in its buffer.
TypeOK ==
  /\ program = "copier" => Copier!TypeOK
  /\ program = "chat" => Chat!TypeOK
  /\ program = "dev" => Dev!TypeOK
  /\ program = "led" => Led!TypeOK

\* When both processes succeed, every file was copied byte by byte, and a complete
\* copy is not destroyed by what follows it.
CopiesKept == [](program = "copier" => Copier!CopiesExact) /\ Copier!CopyKept

\* Parent and child end.
BothEnd == program = "copier" => Copier!BothEnd

\* A chat user is shown what the others say, without a gap, up to their farewell, no
\* datagram twice of the chat's own making, and none of their own.
ChatIntact == program = "chat" => Chat!Conversation /\ Chat!NoEcho

\* Only bytes that were written are read, and none is written behind the buffer.
InBuffer == program = "dev" => Dev!InBuffer
\* Readers see the log that appending writers make.
ReadersSeeLog == program = "dev" => Dev!ReadersSeeLog
\* Code and buffer are there when they are used, but for two windows.
CodeThere == program = "dev" => Dev!CodeThere

\* The value shown is the one that is lit, and the LEDs are given back at the end.
LedsFollow == program = "led" => Led!ShownIsLit /\ Led!GivenBack

=============================================================================
