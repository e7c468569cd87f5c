---------------------------- MODULE SystemsProofs ----------------------------
(***************************************************************************)
(* Theorems about the programs that MCSystems puts side by side, for every  *)
(* number of processes and every size: what the runs check about the        *)
(* device, from the proofs about Device, and about the keyboard LEDs and the *)
(* UDP chat, which are proved here.                                        *)
(***************************************************************************)
EXTENDS MCSystems, TLAPS, SequenceTheorems, FiniteSetTheorems

DevP == INSTANCE DeviceProofs

\* One program runs, always the same.
LEMMA OneProgram == [Next]_vars => program' = program
<1> SUFFICES ASSUME Next PROVE program' = program
  BY DEF vars
<1>1. CASE \/ POpen \/ PReady \/ PStat \/ PMeta \/ PRead \/ PWrite \/ PEnd \/ PWait
           \/ CSignal \/ CMeta \/ CChunk \/ Edit
  BY <1>1 DEF InCopier, POpen, PReady, PStat, PMeta, PRead, PWrite, PEnd, PWait, CSignal, CMeta,
              CChunk, Edit
<1>2. CASE \/ Bind \/ Hello \/ TestKeep \/ Typed \/ SendText \/ Bye \/ Receive
           \/ PressMain \/ PressReceiver \/ Lose \/ Repeat \/ Reorder
  BY <1>2 DEF InChat, Bind, Hello, TestKeep, Typed, SendText, Bye, Receive, PressMain,
              PressReceiver, Lose, Repeat, Reorder
<1>3. CASE \/ ChrdevInit \/ ProcCreate \/ ProcAlloc \/ ProcClear \/ Unload \/ Unloaded
           \/ Open \/ DeviceOpen \/ Release \/ ReadBegin \/ ReadByte \/ ReadFault
           \/ WriteBegin \/ WriteByte \/ WriteFault \/ StoreLen \/ StoreZero
  BY <1>3 DEF InDev, ChrdevInit, ProcCreate, ProcAlloc, ProcClear, Unload, Unloaded, Open,
              DeviceOpen, Release, ReadBegin, ReadByte, ReadFault, WriteBegin, WriteByte,
              WriteFault, StoreLen, StoreZero
<1>4. CASE \/ Switch \/ Terminal \/ SysInit \/ StateStore \/ StoreLeds \/ SysExit \/ KobjectPut
  BY <1>4 DEF InLed, Switch, Terminal, SysInit, StateStore, StoreLeds, SysExit, KobjectPut
<1>5. QED
  BY <1>1, <1>2, <1>3, <1>4 DEF Next

\* The steps of a program that runs are its own.
LEMMA DevMoves ==
  ASSUME program = "dev", Next
  PROVE  \/ ChrdevInit \/ ProcCreate \/ ProcAlloc \/ ProcClear \/ Unload \/ Unloaded
         \/ Open \/ DeviceOpen \/ Release \/ ReadBegin \/ ReadByte \/ ReadFault
         \/ WriteBegin \/ WriteByte \/ WriteFault \/ StoreLen \/ StoreZero
<1>1. ~InCopier /\ ~InChat /\ ~InLed
  BY DEF InCopier, InChat, InLed
<1>2. QED
  BY <1>1 DEF Next, POpen, PReady, PStat, PMeta, PRead, PWrite, PEnd, PWait, CSignal, CMeta,
              CChunk, Edit, Bind, Hello, TestKeep, Typed, SendText, Bye, Receive, PressMain,
              PressReceiver, Lose, Repeat, Reorder, Switch, Terminal, SysInit, StateStore, StoreLeds,
              SysExit, KobjectPut

LEMMA LedMoves ==
  ASSUME program = "led", Next
  PROVE  Switch \/ Terminal \/ SysInit \/ StateStore \/ StoreLeds \/ SysExit \/ KobjectPut
<1>1. ~InCopier /\ ~InChat /\ ~InDev
  BY DEF InCopier, InChat, InDev
<1>2. QED
  BY <1>1 DEF Next, POpen, PReady, PStat, PMeta, PRead, PWrite, PEnd, PWait, CSignal, CMeta,
              CChunk, Edit, Bind, Hello, TestKeep, Typed, SendText, Bye, Receive, PressMain,
              PressReceiver, Lose, Repeat, Reorder, ChrdevInit, ProcCreate, ProcAlloc, ProcClear,
              Unload, Unloaded, Open, DeviceOpen, Release, ReadBegin, ReadByte, ReadFault,
              WriteBegin, WriteByte, WriteFault, StoreLen, StoreZero

-----------------------------------------------------------------------------
(* The device: Dev and DevP are two instances of the same definitions.     *)

LEMMA DevNext ==
  ASSUME program = "dev", Next
  PROVE  DevP!Next
<1>1. CASE ChrdevInit
  BY <1>1 DEF ChrdevInit, DevP!Next, Dev!ChrdevInit, DevP!ChrdevInit
<1>2. CASE ProcCreate
  BY <1>2 DEF ProcCreate, DevP!Next, Dev!ProcCreate, DevP!ProcCreate
<1>3. CASE ProcAlloc
  BY <1>3 DEF ProcAlloc, DevP!Next, Dev!ProcAlloc, DevP!ProcAlloc
<1>4. CASE ProcClear
  BY <1>4 DEF ProcClear, DevP!Next, Dev!ProcClear, DevP!ProcClear, Dev!Zero, DevP!Zero
<1>5. CASE Unload
  BY <1>5 DEF Unload, DevP!Next, Dev!Unload, DevP!Unload
<1>6. CASE Unloaded
  BY <1>6 DEF Unloaded, DevP!Next, Dev!Unloaded, DevP!Unloaded, Dev!Inside, DevP!Inside, Dev!Writing,
    DevP!Writing
<1>7. CASE Open
  <2>1. ASSUME NEW p \in Procs, NEW append \in BOOLEAN, Dev!Open(p, append) PROVE DevP!Open(p, append)
    BY <2>1 DEF Dev!Open, DevP!Open, Dev!Named, DevP!Named, Dev!Closed, DevP!Closed
  <2>2. QED
    BY <1>7, <2>1 DEF Open, DevP!Next
<1>8. CASE DeviceOpen
  <2>1. ASSUME NEW p \in Procs, Dev!DeviceOpen(p) PROVE DevP!DeviceOpen(p)
    BY <2>1 DEF Dev!DeviceOpen, DevP!DeviceOpen, Dev!Missing, DevP!Missing
  <2>2. QED
    BY <1>8, <2>1 DEF DeviceOpen, DevP!Next
<1>9. CASE Release
  <2>1. ASSUME NEW p \in Procs, Dev!Release(p) PROVE DevP!Release(p)
    BY <2>1 DEF Dev!Release, DevP!Release, Dev!Missing, DevP!Missing, Dev!Oops, DevP!Oops, Dev!Closed,
      DevP!Closed
  <2>2. QED
    BY <1>9, <2>1 DEF Release, DevP!Next
<1>10. CASE ReadBegin
  <2>1. ASSUME NEW p \in Procs, NEW n \in 1 .. MaxCount, Dev!ReadBegin(p, n) PROVE DevP!ReadBegin(p, n)
    BY <2>1 DEF Dev!ReadBegin, DevP!ReadBegin, Dev!Callable, DevP!Callable, Dev!Missing, DevP!Missing,
      Dev!Oops, DevP!Oops, Dev!Count, DevP!Count
  <2>2. QED
    BY <1>10, <2>1 DEF ReadBegin, DevP!Next
<1>11. CASE ReadByte
  <2>1. ASSUME NEW p \in Procs, Dev!ReadByte(p) PROVE DevP!ReadByte(p)
    BY <2>1 DEF Dev!ReadByte, DevP!ReadByte, Dev!Missing, DevP!Missing, Dev!Oops, DevP!Oops, Dev!Closed,
      DevP!Closed
  <2>2. QED
    BY <1>11, <2>1 DEF ReadByte, DevP!Next
<1>12. CASE ReadFault
  <2>1. ASSUME NEW p \in Procs, Dev!ReadFault(p) PROVE DevP!ReadFault(p)
    BY <2>1 DEF Dev!ReadFault, DevP!ReadFault, Dev!Missing, DevP!Missing, Dev!Failed, DevP!Failed,
      Dev!Closed, DevP!Closed
  <2>2. QED
    BY <1>12, <2>1 DEF ReadFault, DevP!Next
<1>13. CASE WriteBegin
  <2>1. ASSUME NEW p \in Procs, NEW n \in 0 .. MaxCount, Dev!WriteBegin(p, n) PROVE DevP!WriteBegin(p, n)
    BY <2>1 DEF Dev!WriteBegin, DevP!WriteBegin, Dev!Callable, DevP!Callable, Dev!Missing, DevP!Missing,
      Dev!Oops, DevP!Oops, Dev!Fits, DevP!Fits, Dev!Writing, DevP!Writing
  <2>2. QED
    BY <1>13, <2>1 DEF WriteBegin, DevP!Next
<1>14. CASE WriteByte
  <2>1. ASSUME NEW p \in Procs, Dev!WriteByte(p) PROVE DevP!WriteByte(p)
    BY <2>1 DEF Dev!WriteByte, DevP!WriteByte, Dev!Missing, DevP!Missing, Dev!Oops, DevP!Oops
  <2>2. QED
    BY <1>14, <2>1 DEF WriteByte, DevP!Next
<1>15. CASE WriteFault
  <2>1. ASSUME NEW p \in Procs, Dev!WriteFault(p) PROVE DevP!WriteFault(p)
    BY <2>1 DEF Dev!WriteFault, DevP!WriteFault, Dev!Missing, DevP!Missing, Dev!Failed, DevP!Failed,
      Dev!Closed, DevP!Closed, Dev!Zero, DevP!Zero
  <2>2. QED
    BY <1>15, <2>1 DEF WriteFault, DevP!Next
<1>16. CASE StoreLen
  <2>1. ASSUME NEW p \in Procs, Dev!StoreLen(p) PROVE DevP!StoreLen(p)
    BY <2>1 DEF Dev!StoreLen, DevP!StoreLen, Dev!Missing, DevP!Missing, Dev!Oops, DevP!Oops, Dev!Stored,
      DevP!Stored, Dev!Closed, DevP!Closed
  <2>2. QED
    BY <1>16, <2>1 DEF StoreLen, DevP!Next
<1>17. CASE StoreZero
  <2>1. ASSUME NEW p \in Procs, Dev!StoreZero(p) PROVE DevP!StoreZero(p)
    BY <2>1 DEF Dev!StoreZero, DevP!StoreZero, Dev!Missing, DevP!Missing, Dev!Oops, DevP!Oops, Dev!Stored,
      DevP!Stored, Dev!Closed, DevP!Closed, Dev!Zero, DevP!Zero
  <2>2. QED
    BY <1>17, <2>1 DEF StoreZero, DevP!Next
<1>18. QED
  BY <1>1, <1>2, <1>3, <1>4, <1>5, <1>6, <1>7, <1>8, <1>9, <1>10, <1>11, <1>12, <1>13, <1>14, <1>15, <1>16, <1>17, DevMoves

LEMMA DevInit == ASSUME Init PROVE DevP!Init
BY DEF Init, Dev!Init, DevP!Init, Dev!Zero, DevP!Zero, Dev!Foreign, DevP!Foreign, Dev!Closed,
       DevP!Closed

\* The steps without their fairness.
LEMMA Steps == FairSpec => Init /\ [][Next]_vars
BY PTL DEF FairSpec

\* A run of the device is a behaviour of Device.
InRun(name) == program = name

LEMMA DevRuns == InRun("dev") /\ FairSpec => DevP!Spec
<1>1. Init => DevP!Init
  BY DevInit
<1>2. InRun("dev") /\ [Next]_vars => InRun("dev")'
  BY OneProgram DEF InRun
<1>3. InRun("dev") /\ [Next]_vars => [DevP!Next]_DevP!vars
  BY DevNext DEF vars, devVars, DevP!vars, InRun
<1>4. InRun("dev") /\ [][Next]_vars => [][DevP!Next]_DevP!vars
  BY <1>2, <1>3, PTL
<1>5. QED
  BY <1>1, <1>4, Steps DEF DevP!Spec

LEMMA NotDevStays == ~InRun("dev") /\ FairSpec => []~InRun("dev")
<1>1. ~InRun("dev") /\ [Next]_vars => ~InRun("dev")'
  BY OneProgram DEF InRun
<1>2. QED
  BY <1>1, Steps, PTL

\* What a process reads has been cleared or written and lies in the buffer.
THEOREM ReadsAreInBuffer == FairSpec => []InBuffer
<1>1. DevP!Sizes
  BY SystemsAssumption DEF DevP!Sizes
<1>2. DevP!Spec => []DevP!InBuffer
  BY <1>1, DevP!ReadsAreInBuffer
<1>3. DevP!InBuffer => InBuffer
  BY DEF InBuffer, Dev!InBuffer, DevP!InBuffer, Dev!Foreign, DevP!Foreign, Dev!Zero, DevP!Zero
<1>4. ~InRun("dev") => InBuffer
  BY DEF InRun, InBuffer
<1>5. QED
  BY <1>2, <1>3, <1>4, DevRuns, NotDevStays, PTL

\* While the writes append, one after the other, everybody reads what was written and in
\* its place.
THEOREM ReadersFollowLog == FairSpec => []ReadersSeeLog
<1>1. DevP!Sizes
  BY SystemsAssumption DEF DevP!Sizes
<1>2. DevP!Spec => []DevP!ReadersSeeLog
  BY <1>1, DevP!ReadersFollowLog
<1>3. DevP!ReadersSeeLog => ReadersSeeLog
  BY DEF ReadersSeeLog, Dev!ReadersSeeLog, DevP!ReadersSeeLog
<1>4. ~InRun("dev") => ReadersSeeLog
  BY DEF InRun, ReadersSeeLog
<1>5. QED
  BY <1>2, <1>3, <1>4, DevRuns, NotDevStays, PTL

\* Nobody runs into freed code or memory, but through the windows at chrdev.c:71 and
\* proc.c:78-85; while chrdev lives its count is the number of open files.
THEOREM CodeIsThere == FairSpec => []CodeThere
<1>1. DevP!CodeThere => CodeThere
  BY DEF CodeThere, Dev!CodeThere, DevP!CodeThere, Dev!Cardinality, DevP!Cardinality
<1>2. ~InRun("dev") => CodeThere
  BY DEF InRun, CodeThere
<1>3. QED
  BY <1>1, <1>2, DevP!CodeIsThere, DevRuns, NotDevStays, PTL

-----------------------------------------------------------------------------
(* The LEDs.                                                               *)

\* Before the module is loaded nothing has happened.
Untouched == state = "out" => Led!Storing = {} /\ aimed = {}

\* While stores do not overlap, the one under way is the one that is shown.
OneStore ==
  ~raced => \A w \in Led!Storing : store[w] = test /\ \A v \in Led!Storing : v = w

\* Without a store under way what is shown is lit where the LEDs were set last, until they
\* are given back.
Lit ==
  state \in {"out", "live"} /\ Led!Storing = {} /\ ~raced => \A c \in aimed : leds[c] = test

\* Only what stores have set differs from what was there before.
Lent == \A c \in Consoles : leds[c] = Led!RESTORE_LEDS \/ c \in lent

\* After the LEDs were given back they stay so if no store is in between.
Returned ==
  state \in {"restored", "gone"} /\ ~crossed =>
    Led!Storing = {} /\ \A c \in aimed : leds[c] = Led!RESTORE_LEDS

LedInv == Led!TypeOK /\ Untouched /\ OneStore /\ Lit /\ Lent /\ Returned

LEMMA LedInvInit == Led!Init => LedInv
<1> SUFFICES ASSUME Led!Init PROVE LedInv
  OBVIOUS
<1>1. 0 \in Led!Values /\ Led!RESTORE_LEDS \in Led!Values
  BY DEF Led!Values, Led!LED_MASK_MIN, Led!LED_MASK_MAX, Led!RESTORE_LEDS
<1>2. Led!TypeOK
  BY <1>1 DEF Led!Init, Led!TypeOK
<1>3. Led!Storing = {}
  BY DEF Led!Init, Led!Storing
<1>4. Untouched /\ OneStore /\ Lit /\ Lent /\ Returned
  BY <1>3 DEF Led!Init, Untouched, OneStore, Lit, Lent, Returned
<1>5. QED
  BY <1>2, <1>4 DEF LedInv

\* set_leds changes the LEDs of the console that it finds in the foreground, and of no other.
LEMMA Setting ==
  ASSUME LedInv, NEW v \in Led!Values, Led!SetLeds(v)
  PROVE  /\ leds' \in [Consoles -> Led!Values] /\ aimed' = Led!Found /\ aimed' \subseteq Consoles
         /\ \A c \in aimed' : leds'[c] = v
         /\ \A c \in Consoles : c \notin aimed' => leds'[c] = leds[c]
<1>1. leds \in [Consoles -> Led!Values] /\ Led!Found \subseteq Consoles
  BY DEF LedInv, Led!TypeOK, Led!Found
<1>2. leds' = [c \in Consoles |-> IF c \in Led!Found THEN v ELSE leds[c]] /\ aimed' = Led!Found
  BY DEF Led!SetLeds
<1>3. QED
  BY <1>1, <1>2

LEMMA LedInvStep == LedInv /\ [Led!Next]_Led!vars => LedInv'
<1> SUFFICES ASSUME LedInv, [Led!Next]_Led!vars PROVE LedInv'
  OBVIOUS
<1> USE DEF Led!TypeOK, Untouched, OneStore, Lit, Lent, Returned, Led!Storing, Led!history, Led!system
<1>1. ASSUME NEW c \in Consoles, Led!Switch(c) \/ Led!Terminal(c) PROVE LedInv'
  BY <1>1 DEF LedInv, Led!Switch, Led!Terminal
<1>2. CASE Led!SysInit
  BY <1>2 DEF LedInv, Led!SysInit
<1>3. CASE Led!SysExit
  <2>1. Led!RESTORE_LEDS \in Led!Values /\ Led!SetLeds(Led!RESTORE_LEDS)
    BY <1>3 DEF Led!SysExit, Led!Values
  <2>2. /\ leds' \in [Consoles -> Led!Values] /\ aimed' \subseteq Consoles
        /\ \A c \in aimed' : leds'[c] = Led!RESTORE_LEDS
        /\ \A c \in Consoles : c \notin aimed' => leds'[c] = leds[c]
    BY <2>1, Setting
  <2>3. /\ UNCHANGED <<test, fg_console, tty, store, raced, lent>> /\ state' = "restored"
        /\ crossed' = (Led!Storing # {})
    BY <1>3 DEF Led!SysExit
  <2>4. Led!TypeOK' /\ Untouched' /\ OneStore' /\ Lit' /\ Returned'
    BY <2>2, <2>3 DEF LedInv
  <2>5. Lent'
    BY <2>2, <2>3 DEF LedInv
  <2>6. QED
    BY <2>4, <2>5 DEF LedInv
<1>4. CASE Led!KobjectPut
  BY <1>4 DEF LedInv, Led!KobjectPut
<1>5. ASSUME NEW w \in Writers, NEW v \in Inputs, Led!StateStore(w, v) PROVE LedInv'
  <2>1. v \in Led!Values /\ v # Led!None
    BY <1>5 DEF Led!StateStore, Led!Accepted, Led!Values, Led!None, Led!LED_MASK_MIN,
                Led!LED_MASK_MAX, Led!RESTORE_LEDS
  <2>2. store'[w] = v /\ (\A u \in Writers : u # w => store'[u] = store[u])
    BY <1>5 DEF LedInv, Led!StateStore
  <2>3. Led!TypeOK'
    BY <1>5, <2>1 DEF LedInv, Led!StateStore
  <2>4. w \in Led!Storing'
    BY <2>1, <2>2
  <2>5. OneStore'
    BY <1>5, <2>1, <2>2 DEF Led!StateStore
  <2>6. Untouched' /\ Lit' /\ Lent' /\ Returned'
    BY <1>5, <2>4 DEF LedInv, Led!StateStore
  <2>7. QED
    BY <2>3, <2>5, <2>6 DEF LedInv
<1>6. ASSUME NEW w \in Writers, Led!StoreLeds(w) PROVE LedInv'
  <2>1. store[w] # Led!None /\ store[w] \in Led!Values /\ w \in Led!Storing
    BY <1>6 DEF LedInv, Led!StoreLeds
  <2>2. store'[w] = Led!None /\ (\A u \in Writers : u # w => store'[u] = store[u])
    BY <1>6 DEF LedInv, Led!StoreLeds
  <2>3. /\ leds' \in [Consoles -> Led!Values] /\ aimed' = Led!Found /\ aimed' \subseteq Consoles
        /\ \A c \in aimed' : leds'[c] = store[w]
        /\ \A c \in Consoles : c \notin aimed' => leds'[c] = leds[c]
    BY <1>6, <2>1, Setting DEF Led!StoreLeds
  <2>4. /\ UNCHANGED <<state, test, fg_console, tty, raced, crossed>>
        /\ lent' = lent \cup Led!Found /\ store' = [store EXCEPT ![w] = Led!None]
    BY <1>6 DEF Led!StoreLeds
  <2>5. Led!TypeOK'
    BY <2>1, <2>3, <2>4 DEF LedInv
  <2>6. OneStore'
    BY <2>2, <2>4 DEF LedInv
  <2>7. Untouched' /\ Returned'
    BY <2>1, <2>4 DEF LedInv
  <2>8. Lit'
    BY <2>1, <2>3, <2>4 DEF LedInv
  <2>9. Lent'
    BY <2>3, <2>4 DEF LedInv
  <2>10. QED
    BY <2>5, <2>6, <2>7, <2>8, <2>9 DEF LedInv
<1>7. CASE UNCHANGED Led!vars
  BY <1>7 DEF LedInv, Led!vars
<1>8. QED
  BY <1>1, <1>2, <1>3, <1>4, <1>5, <1>6, <1>7 DEF Led!Next

LEMMA LedNext ==
  ASSUME program = "led", Next
  PROVE  Led!Next
BY LedMoves DEF Switch, Terminal, SysInit, StateStore, StoreLeds, SysExit, KobjectPut, Led!Next

LEMMA LedRuns == InRun("led") /\ FairSpec => [](InRun("led") /\ LedInv)
<1>1. Init => LedInv
  BY LedInvInit DEF Init
<1>2. InRun("led") /\ [Next]_vars => InRun("led")'
  BY OneProgram DEF InRun
<1>3. InRun("led") /\ [Next]_vars => [Led!Next]_Led!vars
  BY LedNext DEF vars, ledVars, Led!vars, Led!system, Led!history, InRun
<1>4. InRun("led") /\ LedInv /\ [Next]_vars => LedInv'
  BY <1>3, LedInvStep
<1>5. QED
  BY <1>1, <1>2, <1>4, Steps, PTL

LEMMA NotLedStays == ~InRun("led") /\ FairSpec => []~InRun("led")
<1>1. ~InRun("led") /\ [Next]_vars => ~InRun("led")'
  BY OneProgram DEF InRun
<1>2. QED
  BY <1>1, Steps, PTL

\* What state shows is what is lit on the console where the LEDs were set last, as soon as
\* no store is under way, unless stores overlapped; a removed module has given the LEDs back,
\* unless a store came between, but for the consoles that stores had set and that the
\* removal did not find in the foreground (kbd_led_sysfs.c:33-39, 63-64, 100-101).
THEOREM LedsFollowState == FairSpec => []LedsFollow
<1>1. LedInv => LedsFollow
  BY DEF LedInv, Lit, Lent, Returned, Led!ShownIsLit, Led!GivenBack, LedsFollow
<1>2. ~InRun("led") => LedsFollow
  BY DEF InRun, LedsFollow
<1>3. QED
  BY <1>1, <1>2, LedRuns, NotLedStays, PTL

-----------------------------------------------------------------------------
(* The UDP chat.                                                           *)

MainPlaces == {"bind", "hello", "test", "fgets", "send", "bye", "over"}

ChatTypes ==
  /\ plan \in Plans
  /\ pc \in [Users -> MainPlaces]
  /\ keep \in [Users -> BOOLEAN] /\ bound \subseteq Users /\ struck \subseteq Users
  /\ flight \in [Users -> Seq(Chat!Datagrams)] /\ sent \in [Users -> Seq(Chat!Datagrams)]
  /\ shown \in [Users -> Seq(Chat!Datagrams \cup {Chat!NoMsg})]
  /\ slot \in [Users -> Chat!Datagrams \cup {Chat!NoMsg}]
  /\ joined \in [Users -> [Users -> Nat]] /\ extra \in [Users -> Nat]
  /\ troubles \in 0 .. MaxTroubles

\* One bound user per host is there.
OnePort ==
  \A u, v \in bound : u # v /\ plan.host[u] = plan.host[v] => Chat!Over(u) \/ Chat!Over(v)

\* What a user has sent is numbered, ends with a farewell when the user is gone, and has room for
\* what is still to be sent.
Diary(v) ==
  /\ \A k \in 1 .. Len(sent[v]) : sent[v][k].from = v /\ sent[v][k].num = k
  /\ Chat!Over(v) <=> sent[v] # <<>> /\ sent[v][Len(sent[v])].type = 2
  /\ pc[v] \in {"bind", "hello"} => Len(sent[v]) = 0
  /\ pc[v] = "send" => Len(sent[v]) <= MaxLines
  /\ pc[v] # "over" => Len(sent[v]) <= MaxLines + 1

\* Somebody has sent d.
Known(d) ==
  d.from \in Users /\ d.num \in 1 .. Len(sent[d.from]) /\ d = sent[d.from][d.num]

\* Every datagram comes from somebody; a user without the port gets none, and before the bind there
\* is nothing to see.
FromUsers(u) ==
  /\ \A i \in 1 .. Len(flight[u]) : Known(flight[u][i])
  /\ \A i \in 1 .. Len(shown[u]) : shown[u][i] # Chat!NoMsg => Known(shown[u][i])
  /\ slot[u] # Chat!NoMsg => Known(slot[u])
  /\ u \notin bound => flight[u] = <<>>
  /\ pc[u] = "bind" => u \notin bound /\ shown[u] = <<>>

\* Where d occurs in s.
Places(s, d) == {i \in 1 .. Len(s) : s[i] = d}

\* The filter lets nothing pass that it takes for u's own, and only network and signals make
\* copies.
Filtered(u) ==
  /\ \A i \in 1 .. Len(shown[u]) :
       shown[u][i] # Chat!NoMsg => ~Chat!Own(u, shown[u][i])
  /\ \A i \in 1 .. Len(shown[u]) : shown[u][i] = Chat!NoMsg => extra[u] > 0
Once(u) ==
  \A d \in Chat!Datagrams :
    Cardinality(Places(shown[u], d)) + Cardinality(Places(flight[u], d)) <= 1 + extra[u]

\* The datagrams of v lie in s in the order in which they were sent.
Ascending(s, v) ==
  \A i, j \in 1 .. Len(s) : i < j /\ s[i].from = v /\ s[j].from = v => s[i].num < s[j].num

\* u follows v: what was shown goes before what is on its way, and both together are complete.
Follows(u, v) ==
  /\ joined[u][v] <= Len(sent[v])
  /\ Ascending(shown[u], v) /\ Ascending(flight[u], v)
  /\ \A i \in 1 .. Len(shown[u]), j \in 1 .. Len(flight[u]) :
       shown[u][i].from = v /\ flight[u][j].from = v => shown[u][i].num < flight[u][j].num
  /\ \A i \in 1 .. Len(shown[u]) : shown[u][i].from = v => shown[u][i].num > joined[u][v]
  /\ \A j \in 1 .. Len(flight[u]) : flight[u][j].from = v => flight[u][j].num > joined[u][v]
  /\ \A k \in joined[u][v] + 1 .. Len(sent[v]) :
       \/ \E i \in 1 .. Len(shown[u]) : shown[u][i] = sent[v][k]
       \/ \E j \in 1 .. Len(flight[u]) : flight[u][j] = sent[v][k]

Listens(u, v) ==
  u \in bound \ struck /\ extra[u] = 0 /\ ~Chat!Over(u) /\ plan.nick[v] # plan.nick[u]

ChatInv ==
  /\ ChatTypes /\ OnePort
  /\ \A u \in Users : Diary(u) /\ FromUsers(u) /\ Filtered(u) /\ Once(u)
  /\ \A u, v \in Users : Listens(u, v) => Follows(u, v)

-----------------------------------------------------------------------------
(* How often a datagram is in a sequence.                                  *)

\* If the places of d in t can be mapped into Y, none onto another's, then d is in t at most as
\* often as Y has members.
LEMMA PlacesInject ==
  ASSUME NEW D, NEW t \in Seq(D), NEW d, NEW Y, IsFiniteSet(Y),
         NEW f \in [Places(t, d) -> Y],
         \A i, j \in Places(t, d) : f[i] = f[j] => i = j
  PROVE  Cardinality(Places(t, d)) <= Cardinality(Y)
<1>1. f \in Injection(Places(t, d), Y)
  BY DEF Injection, IsInjective
<1>2. QED
  BY <1>1, FS_Injection

LEMMA PlacesCounted ==
  ASSUME NEW D, NEW s \in Seq(D), NEW d
  PROVE  IsFiniteSet(Places(s, d)) /\ Cardinality(Places(s, d)) \in Nat
<1>1. IsFiniteSet(1 .. Len(s)) /\ Places(s, d) \in SUBSET (1 .. Len(s))
  BY FS_Interval DEF Places
<1>2. QED
  BY <1>1, FS_Subset, FS_CardinalityType

LEMMA PlacesNone ==
  ASSUME NEW D, NEW s \in Seq(D), NEW d, \A i \in 1 .. Len(s) : s[i] # d
  PROVE  Cardinality(Places(s, d)) = 0
BY FS_EmptySet DEF Places

LEMMA PlacesAppend ==
  ASSUME NEW D, NEW s \in Seq(D), NEW e \in D, NEW d
  PROVE  /\ e # d => Cardinality(Places(Append(s, e), d)) = Cardinality(Places(s, d))
         /\ e = d => Cardinality(Places(Append(s, e), d)) = Cardinality(Places(s, d)) + 1
<1>1. CASE e # d
  <2>1. Places(Append(s, e), d) = Places(s, d)
    BY <1>1 DEF Places
  <2>2. QED
    BY <1>1, <2>1
<1>2. CASE e = d
  <2>1. Places(Append(s, e), d) = Places(s, d) \cup {Len(s) + 1} /\ Len(s) + 1 \notin Places(s, d)
    BY <1>2 DEF Places
  <2>2. QED
    BY <1>2, <2>1, PlacesCounted, FS_AddElement
<1>3. QED
  BY <1>1, <1>2

LEMMA PlacesTail ==
  ASSUME NEW D, NEW s \in Seq(D), s # <<>>, NEW d
  PROVE  /\ Cardinality(Places(Tail(s), d)) <= Cardinality(Places(s, d))
         /\ Head(s) = d => Cardinality(Places(Tail(s), d)) <= Cardinality(Places(s, d)) - 1
<1> DEFINE t == Tail(s)
           f == [i \in Places(t, d) |-> i + 1]
           Y == Places(s, d) \ {1}
<1>1. t \in Seq(D) /\ Len(t) = Len(s) - 1 /\ (\A i \in 1 .. Len(s) - 1 : t[i] = s[i + 1])
  OBVIOUS
<1> HIDE DEF t
<1>2. f \in [Places(t, d) -> Y] /\ (\A i, j \in Places(t, d) : f[i] = f[j] => i = j)
  BY <1>1 DEF Places
<1>3. IsFiniteSet(Y)
      /\ Cardinality(Y)
        = IF 1 \in Places(s, d) THEN Cardinality(Places(s, d)) - 1 ELSE Cardinality(Places(s, d))
  BY PlacesCounted, FS_RemoveElement
<1> HIDE DEF f, Y
<1>4. Cardinality(Places(t, d)) <= Cardinality(Y)
  BY <1>1, <1>2, <1>3, PlacesInject
<1>5. Head(s) = d => 1 \in Places(s, d)
  BY DEF Places
<1>6. Cardinality(Places(s, d)) \in Nat /\ Cardinality(Places(t, d)) \in Nat
  BY <1>1, PlacesCounted
<1>7. QED
  BY <1>3, <1>4, <1>5, <1>6 DEF t

LEMMA CutOut ==
  ASSUME NEW D, NEW s \in Seq(D), NEW n \in 1 .. Len(s)
  PROVE  /\ Chat!RemoveAt(s, n) \in Seq(D) /\ Len(Chat!RemoveAt(s, n)) = Len(s) - 1
         /\ \A k \in 1 .. Len(s) - 1 : Chat!RemoveAt(s, n)[k] = s[IF k < n THEN k ELSE k + 1]
<1> DEFINE a == SubSeq(s, 1, n - 1)
           b == SubSeq(s, n + 1, Len(s))
<1>1. a \in Seq(D) /\ Len(a) = n - 1 /\ (\A k \in 1 .. n - 1 : a[k] = s[k])
  OBVIOUS
<1>2. b \in Seq(D) /\ Len(b) = Len(s) - n /\ (\A k \in 1 .. Len(s) - n : b[k] = s[k + n])
  OBVIOUS
<1> HIDE DEF a, b
<1> DEFINE t == a \o b
<1>3. /\ t \in Seq(D) /\ Len(t) = Len(a) + Len(b)
      /\ \A k \in 1 .. Len(a) + Len(b) : t[k] = IF k <= Len(a) THEN a[k] ELSE b[k - Len(a)]
  <2>1. a \in Seq(D) /\ b \in Seq(D)
    BY <1>1, <1>2
  <2>2. QED
    BY <2>1, ConcatProperties
<1> HIDE DEF t
<1>4. Len(s) \in Nat /\ Len(t) = Len(s) - 1
  BY <1>1, <1>2, <1>3
<1>5. ASSUME NEW k \in 1 .. Len(s) - 1 PROVE t[k] = s[IF k < n THEN k ELSE k + 1]
  <2>1. k \in 1 .. Len(a) + Len(b)
    BY <1>1, <1>2, <1>4
  <2>2. CASE k < n
    <3>1. k <= Len(a) /\ k \in 1 .. n - 1
      BY <1>1, <2>2
    <3>2. QED
      BY <1>1, <1>3, <2>1, <2>2, <3>1
  <2>3. CASE k >= n
    <3>1. k - Len(a) \in 1 .. Len(s) - n /\ (k - Len(a)) + n = k + 1 /\ ~(k <= Len(a))
      BY <1>1, <1>4, <2>3
    <3>2. t[k] = b[k - Len(a)]
      BY <1>3, <2>1, <3>1
    <3>3. b[k - Len(a)] = s[(k - Len(a)) + n]
      BY <1>2, <3>1
    <3>4. QED
      BY <2>3, <3>1, <3>2, <3>3
  <2>4. QED
    BY <2>2, <2>3
<1>6. QED
  BY <1>3, <1>4, <1>5 DEF Chat!RemoveAt, a, b, t

LEMMA PlacesCutOut ==
  ASSUME NEW D, NEW s \in Seq(D), NEW n \in 1 .. Len(s), NEW d
  PROVE  Cardinality(Places(Chat!RemoveAt(s, n), d)) <= Cardinality(Places(s, d))
<1> DEFINE t == Chat!RemoveAt(s, n)
           g(i) == IF i < n THEN i ELSE i + 1
           f == [i \in Places(t, d) |-> g(i)]
<1>1. /\ t \in Seq(D) /\ Len(t) = Len(s) - 1
      /\ \A k \in 1 .. Len(s) - 1 : t[k] = s[IF k < n THEN k ELSE k + 1]
  BY CutOut
<1> HIDE DEF t
<1>2. f \in [Places(t, d) -> Places(s, d)] /\ (\A i, j \in Places(t, d) : f[i] = f[j] => i = j)
  <2>1. \A i \in Places(t, d) : g(i) \in 1 .. Len(s) /\ s[g(i)] = d
    BY <1>1 DEF Places
  <2>2. \A i, j \in Places(t, d) : g(i) = g(j) => i = j
    BY DEF Places
  <2> HIDE DEF g
  <2>3. QED
    BY <2>1, <2>2 DEF Places
<1> HIDE DEF f
<1>3. QED
  BY <1>1, <1>2, PlacesInject, PlacesCounted DEF t

LEMMA PlacesSwap ==
  ASSUME NEW D, NEW s \in Seq(D), NEW n \in 1 .. Len(s) - 1, NEW t \in Seq(D), NEW d,
         Len(t) = Len(s), t[n] = s[n + 1], t[n + 1] = s[n],
         \A i \in 1 .. Len(s) : i # n /\ i # n + 1 => t[i] = s[i]
  PROVE  Cardinality(Places(t, d)) <= Cardinality(Places(s, d))
<1> DEFINE g(i) == IF i = n THEN n + 1 ELSE IF i = n + 1 THEN n ELSE i
           f == [i \in Places(t, d) |-> g(i)]
<1>1. n \in 1 .. Len(s) /\ n + 1 \in 1 .. Len(s) /\ n # n + 1
  OBVIOUS
<1>4. \A i \in 1 .. Len(t) : g(i) \in 1 .. Len(s) /\ t[i] = s[g(i)]
  BY <1>1
<1>5. f \in [Places(t, d) -> Places(s, d)] /\ (\A i, j \in Places(t, d) : f[i] = f[j] => i = j)
  <2>1. \A i \in Places(t, d) : g(i) \in Places(s, d)
    BY <1>4 DEF Places
  <2>2. \A i, j \in Places(t, d) : g(i) = g(j) => i = j
    BY <1>1
  <2> HIDE DEF g
  <2>3. QED
    BY <2>1, <2>2
<1> HIDE DEF f
<1>6. QED
  BY <1>5, PlacesInject, PlacesCounted

-----------------------------------------------------------------------------
(* The steps of the chat.                                                  *)

LEMMA NoDatagram ==
  /\ MaxLines \in Nat /\ MaxTroubles \in Nat
  /\ \A d \in Chat!Datagrams : d # Chat!NoMsg /\ d.num \in 1 .. MaxLines + 2 /\ d.from \in Users
BY SystemsAssumption DEF Chat!Datagrams, Chat!NoMsg

\* The parts of the invariant that speak of one user or two.
ChatOf(u) == Diary(u) /\ FromUsers(u) /\ Filtered(u) /\ Once(u)

\* main goes on.
LEMMA MainGoesOn ==
  ASSUME ChatTypes, NEW u \in Users, NEW there \in MainPlaces, pc' = [pc EXCEPT ![u] = there]
  PROVE  /\ pc' \in [Users -> MainPlaces] /\ pc'[u] = there
         /\ \A v \in Users : v # u => pc'[v] = pc[v]
<1>1. pc \in [Users -> MainPlaces]
  BY DEF ChatTypes, MainPlaces
<1>2. QED
  BY <1>1

\* A user who goes on from one place to another and sends nothing.
LEMMA QuietStep ==
  ASSUME ChatInv, NEW u \in Users,
         UNCHANGED <<plan, bound, flight, slot, shown, sent, joined, struck, extra>>,
         pc' \in [Users -> MainPlaces],
         keep' \in [Users -> BOOLEAN], troubles' \in 0 .. MaxTroubles,
         \A v \in Users : v # u => pc'[v] = pc[v],
         \/ pc'[u] = pc[u]
         \/ /\ pc[u] \notin {"bind", "hello", "over"} /\ pc'[u] \notin {"bind", "hello", "over"}
            /\ pc'[u] = "send" => Len(sent[u]) <= MaxLines
  PROVE  ChatInv'
<1>1. \A v \in Users : /\ pc'[v] = "over" <=> pc[v] = "over"
                       /\ pc'[v] = "bind" <=> pc[v] = "bind"
                       /\ pc'[v] = "hello" <=> pc[v] = "hello"
  BY DEF ChatInv, ChatTypes
<1>2. ChatTypes'
  BY DEF ChatInv, ChatTypes, MainPlaces
<1>3. OnePort'
  BY <1>1 DEF ChatInv, ChatTypes, OnePort, Chat!Over
<1>4. ASSUME NEW v \in Users PROVE Diary(v)'
  <2>1. Diary(v)
    BY DEF ChatInv
  <2>2. pc'[v] = "send" => Len(sent[v]) <= MaxLines
    BY <2>1 DEF Diary
  <2>3. QED
    BY <1>1, <2>1, <2>2 DEF Diary, Chat!Over
<1>5. ASSUME NEW v \in Users PROVE (FromUsers(v) /\ Filtered(v) /\ Once(v))'
  <2>1. FromUsers(v) /\ Filtered(v) /\ Once(v)
    BY DEF ChatInv
  <2>2. FromUsers(v)'
    BY <1>1, <2>1 DEF FromUsers, Known
  <2>3. Filtered(v)'
    BY <2>1 DEF Filtered, Chat!Own, Chat!nick, Chat!open
  <2>4. Once(v)'
    BY <2>1 DEF Once, Places
  <2>5. QED
    BY <2>2, <2>3, <2>4
<1>6. ASSUME NEW v \in Users, NEW w \in Users, Listens(v, w)' PROVE Follows(v, w)'
  <2>1. Listens(v, w)
    BY <1>1, <1>6 DEF Listens, Chat!Over
  <2>2. Follows(v, w)
    BY <2>1 DEF ChatInv
  <2>3. QED
    BY <2>2 DEF Follows, Ascending
<1>7. QED
  BY <1>2, <1>3, <1>4, <1>5, <1>6 DEF ChatInv

LEMMA TestStep == ASSUME ChatInv, NEW u \in Users, Chat!Test(u) PROVE ChatInv'
<1>1. pc' = [pc EXCEPT ![u] = IF keep[u] THEN "fgets" ELSE "bye"] /\ pc[u] = "test"
  BY DEF Chat!Test
<1> DEFINE there == IF keep[u] THEN "fgets" ELSE "bye"
<1>2. there \in {"fgets", "bye"} /\ there \in MainPlaces
  BY DEF MainPlaces
<1> HIDE DEF there
<1>3. /\ pc' \in [Users -> MainPlaces] /\ pc'[u] = there
      /\ \A v \in Users : v # u => pc'[v] = pc[v]
  BY <1>1, <1>2, MainGoesOn DEF ChatInv, there
<1>4. /\ keep' \in [Users -> BOOLEAN] /\ troubles' \in 0 .. MaxTroubles
      /\ UNCHANGED <<plan, bound, flight, slot, shown, sent, joined, struck, extra>>
  BY DEF ChatInv, ChatTypes, Chat!Test
<1>5. QED
  BY <1>1, <1>2, <1>3, <1>4, QuietStep

LEMMA TypedStep == ASSUME ChatInv, NEW u \in Users, Chat!Typed(u) PROVE ChatInv'
<1>1. /\ pc[u] = "fgets"
      /\ \/ Len(sent[u]) <= MaxLines /\ pc' = [pc EXCEPT ![u] = "send"]
         \/ pc' = [pc EXCEPT ![u] = "bye"]
  BY DEF Chat!Typed
<1>2. /\ pc'[u] = "bye" \/ (pc'[u] = "send" /\ Len(sent[u]) <= MaxLines)
      /\ \A v \in Users : v # u => pc'[v] = pc[v]
      /\ pc' \in [Users -> MainPlaces]
  <2>1. "bye" \in MainPlaces /\ "send" \in MainPlaces /\ ChatTypes
    BY DEF ChatInv, MainPlaces
  <2>2. CASE pc' = [pc EXCEPT ![u] = "bye"]
    BY <2>1, <2>2, MainGoesOn DEF MainPlaces
  <2>3. CASE Len(sent[u]) <= MaxLines /\ pc' = [pc EXCEPT ![u] = "send"]
    BY <2>1, <2>3, MainGoesOn DEF MainPlaces
  <2>4. QED
    BY <1>1, <2>2, <2>3
<1>4. /\ keep' \in [Users -> BOOLEAN] /\ troubles' \in 0 .. MaxTroubles
      /\ UNCHANGED <<plan, bound, flight, slot, shown, sent, joined, struck, extra>>
  BY DEF ChatInv, ChatTypes, Chat!Typed
<1>5. QED
  BY <1>1, <1>2, <1>4, QuietStep

LEMMA TroubleCounted ==
  ASSUME ChatInv, Chat!Trouble
  PROVE  troubles' \in 0 .. MaxTroubles
BY NoDatagram DEF Chat!Trouble, ChatInv, ChatTypes

LEMMA PressMainStep == ASSUME ChatInv, NEW u \in Users, Chat!PressMain(u) PROVE ChatInv'
<1>1. /\ pc' \in [Users -> MainPlaces] /\ \A v \in Users : v # u => pc'[v] = pc[v]
      /\ pc'[u] = pc[u] \/ (pc[u] = "fgets" /\ pc'[u] = "bye")
  <2>1. "bye" \in MainPlaces
    BY DEF MainPlaces
  <2>2. CASE pc[u] = "fgets" /\ pc' = [pc EXCEPT ![u] = "bye"]
    BY <2>1, <2>2, MainGoesOn DEF ChatInv
  <2>3. CASE UNCHANGED pc
    BY <2>3 DEF ChatInv, ChatTypes, MainPlaces
  <2>4. QED
    BY <2>2, <2>3 DEF Chat!PressMain
<1>2. /\ keep' \in [Users -> BOOLEAN] /\ troubles' \in 0 .. MaxTroubles
      /\ UNCHANGED <<plan, bound, flight, slot, shown, sent, joined, struck, extra>>
  BY TroubleCounted DEF ChatInv, ChatTypes, Chat!PressMain
<1>3. QED
  BY <1>1, <1>2, QuietStep

LEMMA BindStep == ASSUME ChatInv, NEW u \in Users, Chat!Bind(u) PROVE ChatInv'
<1>1. /\ pc[u] = "bind" /\ pc' = [pc EXCEPT ![u] = "hello"]
      /\ UNCHANGED <<plan, keep, flight, slot, shown, sent, struck, extra, troubles>>
  BY DEF Chat!Bind
<1>2. \/ bound' = bound /\ joined' = joined
      \/ /\ bound' = bound \cup {u}
         /\ joined' = [joined EXCEPT ![u] = [v \in Users |-> Len(sent[v])]]
         /\ \A v \in bound : plan.host[v] = plan.host[u] => pc[v] = "over"
  BY DEF Chat!Bind, Chat!Over, Chat!host
<1>3. u \notin bound /\ shown[u] = <<>> /\ flight[u] = <<>>
  BY <1>1 DEF ChatInv, FromUsers
<1>4. /\ pc' \in [Users -> MainPlaces] /\ pc'[u] = "hello"
      /\ \A v \in Users : v # u => pc'[v] = pc[v]
  BY <1>1, MainGoesOn DEF ChatInv, MainPlaces
<1>5. ChatTypes'
  <2>1. ChatTypes
    BY DEF ChatInv
  <2>2. [v \in Users |-> Len(sent[v])] \in [Users -> Nat]
    BY <2>1 DEF ChatTypes
  <2>3. joined' \in [Users -> [Users -> Nat]]
    BY <1>2, <2>1, <2>2 DEF ChatTypes
  <2>4. QED
    BY <1>1, <1>2, <1>4, <2>1, <2>3 DEF ChatTypes, MainPlaces
<1>6. OnePort'
  <2>1. OnePort /\ bound \subseteq Users
    BY DEF ChatInv, ChatTypes
  <2>2. \A v \in bound : pc[v] = "over" <=> pc'[v] = "over"
    BY <1>3, <1>4, <2>1
  <2>3. CASE bound' = bound
    BY <1>1, <2>1, <2>2, <2>3 DEF OnePort, Chat!Over
  <2>4. CASE /\ bound' = bound \cup {u}
             /\ \A v \in bound : plan.host[v] = plan.host[u] => pc[v] = "over"
    BY <1>1, <2>1, <2>2, <2>4 DEF OnePort, Chat!Over
  <2>5. QED
    BY <1>2, <2>3, <2>4
<1>7. ASSUME NEW v \in Users PROVE ChatOf(v)'
  <2>1. ChatOf(v)
    BY DEF ChatInv, ChatOf
  <2>2. Diary(v)'
    BY <1>1, <1>4, <2>1, NoDatagram DEF ChatOf, Diary, Chat!Over
  <2>3. FromUsers(v)'
    BY <1>1, <1>2, <1>3, <1>4, <2>1 DEF ChatOf, FromUsers, Known
  <2>4. Filtered(v)'
    BY <1>1, <2>1 DEF ChatOf, Filtered, Chat!Own, Chat!nick, Chat!open
  <2>5. Once(v)'
    BY <1>1, <2>1 DEF ChatOf, Once, Places
  <2>6. QED
    BY <2>2, <2>3, <2>4, <2>5 DEF ChatOf
<1>8. ASSUME NEW v \in Users, NEW w \in Users, Listens(v, w)' PROVE Follows(v, w)'
  <2>1. CASE v # u \/ bound' = bound
    <3>1. v \in bound /\ (v # u => pc'[v] = pc[v]) /\ v # u
      BY <1>2, <1>3, <1>4, <1>8, <2>1 DEF Listens
    <3>2. Listens(v, w)
      BY <1>1, <1>8, <3>1 DEF Listens, Chat!Over
    <3>3. Follows(v, w)
      BY <3>2 DEF ChatInv
    <3>4. joined'[v][w] = joined[v][w]
      BY <1>2, <3>1 DEF ChatInv, ChatTypes
    <3>5. QED
      BY <1>1, <3>3, <3>4 DEF Follows, Ascending
  <2>2. CASE v = u /\ bound' # bound
    <3>1. joined'[u][w] = Len(sent[w]) /\ Len(sent[w]) \in Nat
      BY <1>2, <2>2 DEF ChatInv, ChatTypes
    <3>2. shown'[u] = <<>> /\ flight'[u] = <<>> /\ sent' = sent
      BY <1>1, <1>3
    <3>3. QED
      BY <2>2, <3>1, <3>2 DEF Follows, Ascending
  <2>3. QED
    BY <2>1, <2>2
<1>9. QED
  BY <1>5, <1>6, <1>7, <1>8 DEF ChatInv, ChatOf

\* Who has heard nothing new of somebody with nothing new to tell.
LEMMA FollowsStays ==
  ASSUME NEW u, NEW v, Follows(u, v), flight'[u] = flight[u], shown'[u] = shown[u],
         sent'[v] = sent[v], joined'[u][v] = joined[u][v]
  PROVE  Follows(u, v)'
<1>1. Ascending(shown[u], v)' /\ Ascending(flight[u], v)'
  BY DEF Follows, Ascending
<1>2. QED
  BY <1>1 DEF Follows

\* What is in the network for u changes, and so do the histories that tell of it.
LEMMA NetStep ==
  ASSUME ChatInv, NEW u \in Users, NEW q \in Seq(Chat!Datagrams),
         flight[u] # <<>>, flight' = [flight EXCEPT ![u] = q],
         UNCHANGED <<plan, pc, keep, bound, slot, shown, sent, joined>>,
         troubles' \in 0 .. MaxTroubles,
         \A i \in 1 .. Len(q) : \E j \in 1 .. Len(flight[u]) : q[i] = flight[u][j],
         \/ /\ struck' = struck \cup {u} /\ extra' = extra
            /\ \A d : Cardinality(Places(q, d)) <= Cardinality(Places(flight[u], d))
         \/ /\ struck' = struck /\ extra' = [extra EXCEPT ![u] = extra[u] + 1]
            /\ \A d : Cardinality(Places(q, d)) <= Cardinality(Places(flight[u], d)) + 1
  PROVE  ChatInv'
<1>1. /\ extra[u] \in Nat /\ extra'[u] \in Nat /\ extra'[u] >= extra[u]
      /\ \A v \in Users : v # u => extra'[v] = extra[v] /\ flight'[v] = flight[v]
      /\ flight'[u] = q
  <2>1. extra \in [Users -> Nat] /\ flight \in [Users -> Seq(Chat!Datagrams)]
    BY DEF ChatInv, ChatTypes
  <2>2. extra'[u] = extra[u] \/ extra'[u] = extra[u] + 1
    BY <2>1
  <2>3. \A v \in Users : v # u => extra'[v] = extra[v] /\ flight'[v] = flight[v]
    BY <2>1
  <2>4. extra[u] \in Nat /\ flight'[u] = q
    BY <2>1
  <2>5. QED
    BY <2>2, <2>3, <2>4
<1>2. ChatTypes'
  <2>1. ChatTypes
    BY DEF ChatInv
  <2>2. flight' \in [Users -> Seq(Chat!Datagrams)]
    BY <2>1 DEF ChatTypes
  <2>3. struck' \subseteq Users
    BY <2>1 DEF ChatTypes
  <2>4. extra' \in [Users -> Nat]
    <3>1. extra \in [Users -> Nat] /\ extra[u] + 1 \in Nat
      BY <2>1 DEF ChatTypes
    <3>2. QED
      BY <3>1
  <2>5. QED
    BY <2>1, <2>2, <2>3, <2>4 DEF ChatTypes, Chat!Datagrams, Chat!NoMsg
<1>3. OnePort'
  BY DEF ChatInv, OnePort, Chat!Over
<1>4. ASSUME NEW v \in Users PROVE ChatOf(v)'
  <2>1. ChatOf(v)
    BY DEF ChatInv, ChatOf
  <2>2. Diary(v)'
    BY <2>1 DEF ChatOf, Diary, Chat!Over
  <2>3. FromUsers(v)'
    <3>1. CASE v = u
      <4>1. FromUsers(u)
        BY <2>1, <3>1 DEF ChatOf
      <4>2. \A i \in 1 .. Len(q) : Known(q[i])
        BY <4>1 DEF FromUsers
      <4>3. u \in bound
        BY <4>1 DEF FromUsers
      <4>4. QED
        BY <1>1, <3>1, <4>1, <4>2, <4>3 DEF FromUsers, Known
    <3>2. CASE v # u
      BY <1>1, <2>1, <3>2 DEF ChatOf, FromUsers, Known
    <3>3. QED
      BY <3>1, <3>2
  <2>4. Filtered(v)'
    <3>1. extra[v] \in Nat /\ extra'[v] \in Nat /\ (extra[v] > 0 => extra'[v] > 0)
      <4>1. extra[v] \in Nat
        BY DEF ChatInv, ChatTypes
      <4>2. QED
        BY <1>1, <4>1
    <3>2. QED
      BY <2>1, <3>1 DEF ChatOf, Filtered, Chat!Own, Chat!nick, Chat!open
  <2>5. Once(v)'
    <3>1. CASE v = u
      <4>1. ASSUME NEW d \in Chat!Datagrams
            PROVE  Cardinality(Places(shown[u], d)) + Cardinality(Places(q, d)) <= 1 + extra'[u]
        <5>1. Cardinality(Places(shown[u], d)) + Cardinality(Places(flight[u], d)) <= 1 + extra[u]
          BY <2>1, <3>1 DEF ChatOf, Once
        <5>2. /\ Cardinality(Places(shown[u], d)) \in Nat /\ Cardinality(Places(q, d)) \in Nat
              /\ Cardinality(Places(flight[u], d)) \in Nat
          BY PlacesCounted DEF ChatInv, ChatTypes
        <5>3. \/ extra'[u] = extra[u] /\ Cardinality(Places(q, d)) <= Cardinality(Places(flight[u], d))
              \/ /\ extra'[u] = extra[u] + 1
                 /\ Cardinality(Places(q, d)) <= Cardinality(Places(flight[u], d)) + 1
          BY DEF ChatInv, ChatTypes
        <5>4. QED
          BY <1>1, <5>1, <5>2, <5>3
      <4>2. \A d \in Chat!Datagrams :
              Cardinality(Places(shown'[u], d)) + Cardinality(Places(flight'[u], d))
                <= 1 + extra'[u]
        BY <1>1, <4>1
      <4>3. QED
        BY <3>1, <4>2 DEF Once, Places
    <3>2. CASE v # u
      BY <1>1, <2>1, <3>2 DEF ChatOf, Once, Places
    <3>3. QED
      BY <3>1, <3>2
  <2>6. QED
    BY <2>2, <2>3, <2>4, <2>5 DEF ChatOf
<1>5. ASSUME NEW v \in Users, NEW w \in Users, Listens(v, w)' PROVE Follows(v, w)'
  <2>1. v # u
    <3>1. ~(u \in bound' \ struck' /\ extra'[u] = 0)
      <4>1. extra \in [Users -> Nat]
        BY DEF ChatInv, ChatTypes
      <4>2. u \in struck' \/ extra'[u] = extra[u] + 1
        BY <4>1
      <4>3. QED
        BY <1>1, <4>2
    <3>2. QED
      BY <1>5, <3>1 DEF Listens
  <2>2. Listens(v, w)
    BY <1>1, <1>5, <2>1 DEF Listens, Chat!Over
  <2>3. Follows(v, w)
    BY <2>2 DEF ChatInv
  <2>4. /\ flight'[v] = flight[v] /\ shown'[v] = shown[v] /\ sent'[w] = sent[w]
        /\ joined'[v][w] = joined[v][w]
    BY <1>1, <2>1
  <2>5. QED
    BY <2>3, <2>4, FollowsStays
<1>6. QED
  BY <1>2, <1>3, <1>4, <1>5 DEF ChatInv, ChatOf

LEMMA LoseStep == ASSUME ChatInv, NEW u \in Users, Chat!Lose(u) PROVE ChatInv'
<1>1. PICK n \in DOMAIN flight[u] : Chat!Faulty(u, Chat!RemoveAt(flight[u], n))
  BY DEF Chat!Lose
<1>2. flight[u] \in Seq(Chat!Datagrams) /\ n \in 1 .. Len(flight[u])
  BY DEF ChatInv, ChatTypes
<1> DEFINE q == Chat!RemoveAt(flight[u], n)
<1>3. /\ q \in Seq(Chat!Datagrams) /\ Len(q) = Len(flight[u]) - 1
      /\ \A k \in 1 .. Len(flight[u]) - 1 : q[k] = flight[u][IF k < n THEN k ELSE k + 1]
      /\ \A d : Cardinality(Places(q, d)) <= Cardinality(Places(flight[u], d))
  BY <1>2, CutOut, PlacesCutOut
<1>4. \A k \in 1 .. Len(q) : \E j \in 1 .. Len(flight[u]) : q[k] = flight[u][j]
  <2> HIDE DEF q
  <2>1. ASSUME NEW k \in 1 .. Len(q) PROVE \E j \in 1 .. Len(flight[u]) : q[k] = flight[u][j]
    <3>1. k \in 1 .. Len(flight[u]) - 1 /\ q[k] = flight[u][IF k < n THEN k ELSE k + 1]
      BY <1>3
    <3>2. (IF k < n THEN k ELSE k + 1) \in 1 .. Len(flight[u])
      BY <1>2, <3>1
    <3>3. QED
      BY <3>1, <3>2
  <2>2. QED
    BY <2>1
<1>5. struck' = struck \cup {u} /\ extra' = extra
  BY DEF Chat!Lose
<1>6. /\ flight' = [flight EXCEPT ![u] = q] /\ troubles' \in 0 .. MaxTroubles
      /\ UNCHANGED <<plan, pc, keep, bound, slot, shown, sent, joined>>
  BY <1>1, TroubleCounted DEF Chat!Faulty
<1>7. flight[u] # <<>>
  BY <1>2
<1> HIDE DEF q
<1>8. QED
  BY <1>3, <1>4, <1>5, <1>6, <1>7, NetStep

LEMMA RepeatStep == ASSUME ChatInv, NEW u \in Users, Chat!Repeat(u) PROVE ChatInv'
<1>1. PICK n \in DOMAIN flight[u] : Chat!Faulty(u, Append(flight[u], flight[u][n]))
  BY DEF Chat!Repeat
<1>2. flight[u] \in Seq(Chat!Datagrams) /\ n \in 1 .. Len(flight[u]) /\ flight[u][n] \in Chat!Datagrams
  BY DEF ChatInv, ChatTypes
<1> DEFINE q == Append(flight[u], flight[u][n])
<1>3. q \in Seq(Chat!Datagrams)
  BY <1>2
<1>4. \A k \in 1 .. Len(q) : \E j \in 1 .. Len(flight[u]) : q[k] = flight[u][j]
  BY <1>2
<1>5. ASSUME NEW d PROVE Cardinality(Places(q, d)) <= Cardinality(Places(flight[u], d)) + 1
  BY <1>2, PlacesAppend, PlacesCounted
<1>6. struck' = struck /\ extra' = [extra EXCEPT ![u] = extra[u] + 1]
  BY DEF Chat!Repeat
<1>7. /\ flight' = [flight EXCEPT ![u] = q] /\ troubles' \in 0 .. MaxTroubles
      /\ UNCHANGED <<plan, pc, keep, bound, slot, shown, sent, joined>>
  BY <1>1, TroubleCounted DEF Chat!Faulty
<1>8. flight[u] # <<>>
  BY <1>2
<1> HIDE DEF q
<1>9. QED
  BY <1>3, <1>4, <1>5, <1>6, <1>7, <1>8, NetStep

LEMMA ReorderStep == ASSUME ChatInv, NEW u \in Users, Chat!Reorder(u) PROVE ChatInv'
<1>1. PICK n \in 1 .. Len(flight[u]) - 1 :
        Chat!Faulty(u, [flight[u] EXCEPT ![n] = flight[u][n + 1], ![n + 1] = flight[u][n]])
  BY DEF Chat!Reorder
<1>2. flight[u] \in Seq(Chat!Datagrams)
  BY DEF ChatInv, ChatTypes
<1> DEFINE q == [flight[u] EXCEPT ![n] = flight[u][n + 1], ![n + 1] = flight[u][n]]
<1>3. /\ q \in Seq(Chat!Datagrams) /\ Len(q) = Len(flight[u])
      /\ q[n] = flight[u][n + 1] /\ q[n + 1] = flight[u][n]
      /\ \A i \in 1 .. Len(flight[u]) : i # n /\ i # n + 1 => q[i] = flight[u][i]
  BY <1>2
<1>4. \A k \in 1 .. Len(q) : \E j \in 1 .. Len(flight[u]) : q[k] = flight[u][j]
  BY <1>2
<1> HIDE DEF q
<1>5. \A d : Cardinality(Places(q, d)) <= Cardinality(Places(flight[u], d))
  BY <1>2, <1>3, PlacesSwap
<1> USE DEF q
<1>6. struck' = struck \cup {u} /\ extra' = extra
  BY DEF Chat!Reorder
<1>7. /\ flight' = [flight EXCEPT ![u] = q] /\ troubles' \in 0 .. MaxTroubles
      /\ UNCHANGED <<plan, pc, keep, bound, slot, shown, sent, joined>>
  BY <1>1, TroubleCounted DEF Chat!Faulty
<1>8. flight[u] # <<>>
  BY <1>2
<1> HIDE DEF q
<1>9. QED
  BY <1>3, <1>6, <1>7, <1>8, <1>4, <1>5, NetStep

\* Everybody else sees no change.
LEMMA OthersStay ==
  ASSUME ChatInv, NEW v \in Users, pc'[v] = pc[v], UNCHANGED <<plan, bound, sent, joined>>,
         shown'[v] = shown[v], flight'[v] = flight[v], slot'[v] = slot[v], extra'[v] = extra[v]
  PROVE  /\ ChatOf(v)'
         /\ \A w \in Users : (v \in struck' <=> v \in struck) /\ Listens(v, w)' => Follows(v, w)'
<1>1. ChatOf(v)
  BY DEF ChatInv, ChatOf
<1>2. Diary(v)'
  BY <1>1 DEF ChatOf, Diary, Chat!Over
<1>3. FromUsers(v)'
  BY <1>1 DEF ChatOf, FromUsers, Known
<1>4. Filtered(v)'
  BY <1>1 DEF ChatOf, Filtered, Chat!Own, Chat!nick, Chat!open
<1>5. Once(v)'
  BY <1>1 DEF ChatOf, Once, Places
<1>6. ASSUME NEW w \in Users, v \in struck' <=> v \in struck, Listens(v, w)' PROVE Follows(v, w)'
  <2>1. Listens(v, w)
    BY <1>6 DEF Listens, Chat!Over
  <2>2. Follows(v, w)
    BY <2>1 DEF ChatInv
  <2>3. joined'[v][w] = joined[v][w] /\ sent'[w] = sent[w]
    OBVIOUS
  <2>4. QED
    BY <2>2, <2>3, FollowsStays
<1>7. QED
  BY <1>2, <1>3, <1>4, <1>5, <1>6 DEF ChatOf

\* What it takes to follow after a step.
LEMMA FollowsNow ==
  ASSUME NEW u, NEW v, NEW s, NEW t, NEW m, NEW n,
         shown'[u] = s, flight'[u] = t, sent'[v] = m, joined'[u][v] = n, n <= Len(m),
         Ascending(s, v), Ascending(t, v),
         \A i \in 1 .. Len(s), j \in 1 .. Len(t) : s[i].from = v /\ t[j].from = v => s[i].num < t[j].num,
         \A i \in 1 .. Len(s) : s[i].from = v => s[i].num > n,
         \A j \in 1 .. Len(t) : t[j].from = v => t[j].num > n,
         \A k \in n + 1 .. Len(m) : \/ \E i \in 1 .. Len(s) : s[i] = m[k]
                                    \/ \E j \in 1 .. Len(t) : t[j] = m[k]
  PROVE  Follows(u, v)'
<1>1. Ascending(shown[u], v)' /\ Ascending(flight[u], v)'
  BY DEF Ascending
<1>2. QED
  BY <1>1 DEF Follows

LEMMA ReceiveStep == ASSUME ChatInv, NEW u \in Users, Chat!Receive(u) PROVE ChatInv'
<1> DEFINE h == Head(flight[u])
           t == Tail(flight[u])
<1>1. /\ flight[u] # <<>>
      /\ slot' = [slot EXCEPT ![u] = h] /\ flight' = [flight EXCEPT ![u] = t]
      /\ shown' = [shown EXCEPT ![u] = IF Chat!Own(u, h) THEN shown[u] ELSE Append(shown[u], h)]
      /\ UNCHANGED <<plan, pc, keep, bound, sent, joined, struck, extra, troubles>>
  BY DEF Chat!Receive, Chat!Shows
<1>2. ChatTypes /\ ChatOf(u)
  BY DEF ChatInv, ChatOf
<1>3. /\ flight[u] \in Seq(Chat!Datagrams) /\ h \in Chat!Datagrams /\ t \in Seq(Chat!Datagrams)
      /\ Len(flight[u]) \in Nat /\ Len(t) = Len(flight[u]) - 1 /\ h = flight[u][1]
      /\ \A i \in 1 .. Len(t) : t[i] = flight[u][i + 1]
  BY <1>1, <1>2 DEF ChatTypes
<1>4. shown[u] \in Seq(Chat!Datagrams \cup {Chat!NoMsg}) /\ extra[u] \in Nat
  BY <1>2 DEF ChatTypes
<1>5. /\ Known(h) /\ u \in bound /\ pc[u] # "bind" /\ h # Chat!NoMsg
  <2>1. 1 \in 1 .. Len(flight[u])
    BY <1>1, <1>3
  <2>2. Known(h)
    BY <1>2, <1>3, <2>1 DEF ChatOf, FromUsers
  <2>3. u \in bound /\ pc[u] # "bind"
    BY <1>1, <1>2 DEF ChatOf, FromUsers
  <2>4. h # Chat!NoMsg
    BY <1>3, NoDatagram
  <2>5. QED
    BY <2>2, <2>3, <2>4
<1>6. \A d \in Chat!Datagrams :
        /\ Cardinality(Places(t, d)) <= Cardinality(Places(flight[u], d))
        /\ h = d => Cardinality(Places(t, d)) <= Cardinality(Places(flight[u], d)) - 1
        /\ Cardinality(Places(t, d)) \in Nat /\ Cardinality(Places(flight[u], d)) \in Nat
        /\ Cardinality(Places(shown[u], d)) \in Nat
  BY <1>1, <1>3, <1>4, PlacesTail, PlacesCounted
<1> HIDE DEF h, t
<1>7. /\ slot'[u] = h /\ flight'[u] = t
      /\ shown'[u] = IF Chat!Own(u, h) THEN shown[u] ELSE Append(shown[u], h)
      /\ \A v \in Users : v # u => slot'[v] = slot[v] /\ flight'[v] = flight[v] /\ shown'[v] = shown[v]
  BY <1>1, <1>2 DEF ChatTypes
<1>8. ChatTypes'
  <2>1. Append(shown[u], h) \in Seq(Chat!Datagrams \cup {Chat!NoMsg})
    BY <1>3, <1>4
  <2>2. shown' \in [Users -> Seq(Chat!Datagrams \cup {Chat!NoMsg})]
    BY <1>1, <1>2, <1>4, <2>1 DEF ChatTypes
  <2>3. /\ flight' \in [Users -> Seq(Chat!Datagrams)]
        /\ slot' \in [Users -> Chat!Datagrams \cup {Chat!NoMsg}]
    BY <1>1, <1>2, <1>3 DEF ChatTypes
  <2>4. QED
    BY <1>1, <1>2, <2>2, <2>3 DEF ChatTypes, Chat!Datagrams, Chat!NoMsg
<1>9. OnePort'
  BY <1>1 DEF ChatInv, OnePort, Chat!Over
<1>10. \A v \in Users : v # u => ChatOf(v)' /\ (\A w \in Users : Listens(v, w)' => Follows(v, w)')
  BY <1>1, <1>7, OthersStay
<1>11. ChatOf(u)'
  <2>1. Diary(u)'
    BY <1>1, <1>2 DEF ChatOf, Diary, Chat!Over
  <2>2. FromUsers(u)'
    <3>1. \A i \in 1 .. Len(t) : Known(t[i])
      BY <1>2, <1>3 DEF ChatOf, FromUsers
    <3>2. \A i \in 1 .. Len(shown'[u]) : shown'[u][i] # Chat!NoMsg => Known(shown'[u][i])
      BY <1>2, <1>4, <1>5, <1>7 DEF ChatOf, FromUsers
    <3>3. \A d : Known(d)' <=> Known(d)
      BY <1>1 DEF Known
    <3>4. (u \in bound)' /\ (pc[u] # "bind")'
      BY <1>1, <1>5
    <3>5. QED
      BY <1>5, <1>7, <3>1, <3>2, <3>3, <3>4 DEF FromUsers
  <2>3. Filtered(u)'
    <3>1. \A i \in 1 .. Len(shown'[u]) :
            /\ shown'[u][i] # Chat!NoMsg => ~Chat!Own(u, shown'[u][i])
            /\ shown'[u][i] = Chat!NoMsg => extra[u] > 0
      BY <1>2, <1>4, <1>5, <1>7 DEF ChatOf, Filtered
    <3>2. QED
      BY <1>1, <3>1 DEF Filtered, Chat!Own, Chat!nick, Chat!open
  <2>4. Once(u)'
    <3>1. ASSUME NEW d \in Chat!Datagrams
          PROVE  Cardinality(Places(shown'[u], d)) + Cardinality(Places(t, d)) <= 1 + extra[u]
      <4>1. Cardinality(Places(shown[u], d)) + Cardinality(Places(flight[u], d)) <= 1 + extra[u]
        BY <1>2 DEF ChatOf, Once
      <4>2. h \in Chat!Datagrams \cup {Chat!NoMsg}
        BY <1>3
      <4>3. /\ h # d => Cardinality(Places(Append(shown[u], h), d)) = Cardinality(Places(shown[u], d))
            /\ h = d => Cardinality(Places(Append(shown[u], h), d))
                          = Cardinality(Places(shown[u], d)) + 1
        BY <1>4, <4>2, PlacesAppend
      <4>4. QED
        BY <1>4, <1>6, <1>7, <4>1, <4>3
    <3>2. \A d \in Chat!Datagrams :
            Cardinality(Places(shown'[u], d)) + Cardinality(Places(flight'[u], d)) <= 1 + extra'[u]
      BY <1>1, <1>7, <3>1
    <3>3. QED
      BY <3>2 DEF Once, Places
  <2>5. QED
    BY <2>1, <2>2, <2>3, <2>4 DEF ChatOf
<1>12. ASSUME NEW w \in Users, Listens(u, w)' PROVE Follows(u, w)'
  <2>1. Listens(u, w)
    BY <1>1, <1>12 DEF Listens, Chat!Over
  <2>2. Follows(u, w) /\ sent'[w] = sent[w] /\ joined'[u][w] = joined[u][w]
    BY <1>1, <2>1 DEF ChatInv
  <2>3. h.from = w => ~Chat!Own(u, h)
    BY <2>1 DEF Listens, Chat!Own, Chat!nick
  <2>4. joined[u][w] \in Nat /\ Len(sent[w]) \in Nat
    BY <1>2 DEF ChatTypes
  <2>5. /\ Ascending(t, w)
        /\ h.from = w => h.num > joined[u][w]
        /\ \A j \in 1 .. Len(t) : t[j].from = w => /\ t[j].num > joined[u][w]
                                                   /\ h.from = w => h.num < t[j].num
    <3>1. /\ 1 \in 1 .. Len(flight[u])
          /\ \A j \in 1 .. Len(t) : /\ j + 1 \in 1 .. Len(flight[u]) /\ 1 < j + 1
                                    /\ t[j] = flight[u][j + 1]
      BY <1>1, <1>3
    <3>2. Ascending(flight[u], w)
      BY <2>2 DEF Follows
    <3>3. Ascending(t, w)
      <4>1. ASSUME NEW i \in 1 .. Len(t), NEW j \in 1 .. Len(t), i < j,
                   t[i].from = w, t[j].from = w
            PROVE  t[i].num < t[j].num
        <5>1. i + 1 < j + 1
          BY <4>1
        <5>2. QED
          BY <3>1, <3>2, <4>1, <5>1 DEF Ascending
      <4>2. QED
        BY <4>1 DEF Ascending
    <3>4. \A j \in 1 .. Len(t) : t[j].from = w /\ h.from = w => h.num < t[j].num
      BY <1>3, <3>1, <3>2 DEF Ascending
    <3>5. /\ h.from = w => h.num > joined[u][w]
          /\ \A j \in 1 .. Len(t) : t[j].from = w => t[j].num > joined[u][w]
      BY <1>3, <2>2, <3>1 DEF Follows
    <3>6. QED
      BY <3>3, <3>4, <3>5
  <2>6. \A i \in 1 .. Len(shown[u]), j \in 1 .. Len(t) :
          shown[u][i].from = w /\ t[j].from = w => shown[u][i].num < t[j].num
    <3>1. \A j \in 1 .. Len(t) : j + 1 \in 1 .. Len(flight[u]) /\ t[j] = flight[u][j + 1]
      BY <1>3
    <3>2. QED
      BY <2>2, <3>1 DEF Follows
  <2>7. CASE Chat!Own(u, h)
    <3>1. shown'[u] = shown[u] /\ h.from # w
      BY <1>7, <2>3, <2>7
    <3>2. /\ Ascending(shown[u], w) /\ joined[u][w] <= Len(sent[w])
          /\ \A i \in 1 .. Len(shown[u]) : shown[u][i].from = w => shown[u][i].num > joined[u][w]
      BY <2>2 DEF Follows
    <3>3. ASSUME NEW k \in joined[u][w] + 1 .. Len(sent[w])
          PROVE  \/ \E i \in 1 .. Len(shown[u]) : shown[u][i] = sent[w][k]
                 \/ \E j \in 1 .. Len(t) : t[j] = sent[w][k]
      <4>1. sent[w][k].from = w
        BY <2>4 DEF ChatInv, Diary
      <4>2. CASE \E i \in 1 .. Len(shown[u]) : shown[u][i] = sent[w][k]
        BY <4>2
      <4>3. CASE \E j \in 1 .. Len(flight[u]) : flight[u][j] = sent[w][k]
        <5>1. PICK j \in 1 .. Len(flight[u]) : flight[u][j] = sent[w][k]
          BY <4>3
        <5>2. j # 1
          BY <1>3, <3>1, <4>1, <5>1
        <5>3. j - 1 \in 1 .. Len(t) /\ t[j - 1] = flight[u][j]
          BY <1>3, <5>2
        <5>4. QED
          BY <5>1, <5>3
      <4>4. QED
        BY <2>2, <4>2, <4>3 DEF Follows
    <3>4. QED
      BY <1>7, <2>2, <2>5, <2>6, <3>1, <3>2, <3>3, FollowsNow
  <2>8. CASE ~Chat!Own(u, h)
    <3> DEFINE s == Append(shown[u], h)
    <3>1. /\ shown'[u] = s /\ Len(shown[u]) \in Nat /\ Len(s) = Len(shown[u]) + 1
          /\ s[Len(shown[u]) + 1] = h /\ (\A i \in 1 .. Len(shown[u]) : s[i] = shown[u][i])
      BY <1>3, <1>4, <1>7, <2>8
    <3> HIDE DEF s
    <3>2. Ascending(s, w)
      <4>1. \A i \in 1 .. Len(shown[u]) : shown[u][i].from = w /\ h.from = w => shown[u][i].num < h.num
        <5>1. 1 \in 1 .. Len(flight[u]) /\ flight[u][1] = h
          BY <1>1, <1>3
        <5>2. \A i \in 1 .. Len(shown[u]), j \in 1 .. Len(flight[u]) :
                shown[u][i].from = w /\ flight[u][j].from = w
                => shown[u][i].num < flight[u][j].num
          BY <2>2 DEF Follows
        <5>3. QED
          BY <5>1, <5>2
      <4>2. Ascending(shown[u], w)
        BY <2>2 DEF Follows
      <4>3. ASSUME NEW i \in 1 .. Len(s), NEW j \in 1 .. Len(s), i < j,
                   s[i].from = w, s[j].from = w
            PROVE  s[i].num < s[j].num
        <5>1. i \in 1 .. Len(shown[u]) /\ s[i] = shown[u][i]
          BY <3>1, <4>3
        <5>2. CASE j \in 1 .. Len(shown[u])
          <6>1. s[j] = shown[u][j]
            BY <3>1, <5>2
          <6>2. QED
            BY <4>2, <4>3, <5>1, <5>2, <6>1 DEF Ascending
        <5>3. CASE j \notin 1 .. Len(shown[u])
          <6>1. s[j] = h
            BY <3>1, <5>3
          <6>2. QED
            BY <4>1, <4>3, <5>1, <6>1
        <5>4. QED
          BY <5>2, <5>3
      <4>4. QED
        BY <4>3 DEF Ascending
    <3>3. \A i \in 1 .. Len(s), j \in 1 .. Len(t) :
            s[i].from = w /\ t[j].from = w => s[i].num < t[j].num
      <4>1. \A j \in 1 .. Len(t) : t[j].from = w /\ h.from = w => h.num < t[j].num
        BY <2>5
      <4>2. ASSUME NEW i \in 1 .. Len(s), i \notin 1 .. Len(shown[u]) PROVE s[i] = h
        BY <3>1, <4>2
      <4>3. \A i \in 1 .. Len(shown[u]) : s[i] = shown[u][i]
        BY <3>1
      <4>4. QED
        BY <2>6, <4>1, <4>2, <4>3
    <3>4. \A i \in 1 .. Len(s) : s[i].from = w => s[i].num > joined[u][w]
      BY <2>2, <2>5, <3>1 DEF Follows
    <3>5. ASSUME NEW k \in joined[u][w] + 1 .. Len(sent[w])
          PROVE  \/ \E i \in 1 .. Len(s) : s[i] = sent[w][k]
                 \/ \E j \in 1 .. Len(t) : t[j] = sent[w][k]
      <4>1. CASE \E i \in 1 .. Len(shown[u]) : shown[u][i] = sent[w][k]
        BY <3>1, <4>1
      <4>2. CASE \E j \in 1 .. Len(flight[u]) : flight[u][j] = sent[w][k]
        <5>1. PICK j \in 1 .. Len(flight[u]) : flight[u][j] = sent[w][k]
          BY <4>2
        <5>2. CASE j = 1
          <6>1. Len(shown[u]) + 1 \in 1 .. Len(s)
            BY <3>1
          <6>2. s[Len(shown[u]) + 1] = sent[w][k]
            BY <1>3, <3>1, <5>1, <5>2
          <6>3. QED
            BY <6>1, <6>2
        <5>3. CASE j # 1
          <6>1. j - 1 \in 1 .. Len(t) /\ t[j - 1] = flight[u][j]
            BY <1>3, <5>3
          <6>2. QED
            BY <5>1, <6>1
        <5>4. QED
          BY <5>2, <5>3
      <4>3. QED
        BY <2>2, <4>1, <4>2 DEF Follows
    <3>6. QED
      <4>1. joined[u][w] <= Len(sent[w])
        BY <2>2 DEF Follows
      <4>2. QED
        BY <1>7, <2>2, <2>5, <3>1, <3>2, <3>3, <3>4, <3>5, <4>1, FollowsNow
  <2>9. QED
    BY <2>7, <2>8
<1>13. QED
  BY <1>8, <1>9, <1>10, <1>11, <1>12 DEF ChatInv, ChatOf

LEMMA PressReceiverStep ==
  ASSUME ChatInv, NEW u \in Users, Chat!PressReceiver(u)
  PROVE  ChatInv'
<1>1. /\ extra' = [extra EXCEPT ![u] = extra[u] + 1] /\ keep' = [keep EXCEPT ![u] = FALSE]
      /\ UNCHANGED <<plan, pc, bound, flight, slot, sent, joined, struck>>
      /\ pc[u] # "bind" /\ troubles' \in 0 .. MaxTroubles
  BY TroubleCounted DEF Chat!PressReceiver, Chat!Receiving
<1>2. ChatTypes /\ ChatOf(u)
  BY DEF ChatInv, ChatOf
<1>3. /\ shown[u] \in Seq(Chat!Datagrams \cup {Chat!NoMsg}) /\ extra[u] \in Nat
      /\ flight[u] \in Seq(Chat!Datagrams) /\ slot[u] \in Chat!Datagrams \cup {Chat!NoMsg}
  BY <1>2 DEF ChatTypes
<1>4. PICK e \in Chat!Datagrams \cup {Chat!NoMsg} :
        /\ e = slot[u]
        /\ \/ shown' = shown
           \/ /\ shown' = [shown EXCEPT ![u] = Append(shown[u], e)]
              /\ e # Chat!NoMsg => ~Chat!Own(u, e)
  <2>1. \/ slot[u] # Chat!NoMsg /\ Chat!Shows(u, slot[u])
        \/ slot[u] = Chat!NoMsg /\ shown' \in {shown, [shown EXCEPT ![u] = Append(@, Chat!NoMsg)]}
    BY DEF Chat!PressReceiver
  <2>2. CASE slot[u] # Chat!NoMsg /\ Chat!Shows(u, slot[u])
    <3>1. shown' = [shown EXCEPT ![u] = IF Chat!Own(u, slot[u]) THEN shown[u]
                                        ELSE Append(shown[u], slot[u])]
      BY <2>2 DEF Chat!Shows
    <3>2. CASE Chat!Own(u, slot[u])
      <4>1. shown' = shown
        BY <1>2, <3>1, <3>2 DEF ChatTypes
      <4>2. QED
        BY <1>3, <4>1
    <3>3. CASE ~Chat!Own(u, slot[u])
      BY <1>3, <3>1, <3>3
    <3>4. QED
      BY <3>2, <3>3
  <2>3. CASE slot[u] = Chat!NoMsg /\ shown' \in {shown, [shown EXCEPT ![u] = Append(@, Chat!NoMsg)]}
    BY <1>3, <2>3
  <2>4. QED
    BY <2>1, <2>2, <2>3
<1>5. e # Chat!NoMsg => Known(e)
  BY <1>2, <1>4 DEF ChatOf, FromUsers
<1>6. /\ extra'[u] = extra[u] + 1
      /\ \A v \in Users : v # u => extra'[v] = extra[v] /\ shown'[v] = shown[v]
      /\ shown'[u] = shown[u] \/ (shown'[u] = Append(shown[u], e) /\ (e # Chat!NoMsg => ~Chat!Own(u, e)))
  BY <1>1, <1>2, <1>4 DEF ChatTypes
<1>7. ChatTypes'
  <2>1. Append(shown[u], e) \in Seq(Chat!Datagrams \cup {Chat!NoMsg})
    BY <1>3
  <2>2. shown' \in [Users -> Seq(Chat!Datagrams \cup {Chat!NoMsg})]
    BY <1>2, <1>4, <2>1 DEF ChatTypes
  <2>3. extra' \in [Users -> Nat] /\ keep' \in [Users -> BOOLEAN]
    BY <1>1, <1>2, <1>3 DEF ChatTypes
  <2>4. QED
    BY <1>1, <1>2, <2>2, <2>3 DEF ChatTypes, Chat!Datagrams, Chat!NoMsg
<1>8. OnePort'
  BY <1>1 DEF ChatInv, OnePort, Chat!Over
<1>9. \A v \in Users : v # u => ChatOf(v)' /\ (\A w \in Users : Listens(v, w)' => Follows(v, w)')
  BY <1>1, <1>6, OthersStay
<1>10. ChatOf(u)'
  <2>1. Diary(u)'
    BY <1>1, <1>2 DEF ChatOf, Diary, Chat!Over
  <2>2. FromUsers(u)'
    <3>1. \A i \in 1 .. Len(shown'[u]) : shown'[u][i] # Chat!NoMsg => Known(shown'[u][i])
      BY <1>2, <1>3, <1>5, <1>6 DEF ChatOf, FromUsers
    <3>2. QED
      BY <1>1, <1>2, <3>1 DEF ChatOf, FromUsers, Known
  <2>3. Filtered(u)'
    <3>1. \A i \in 1 .. Len(shown'[u]) : shown'[u][i] # Chat!NoMsg => ~Chat!Own(u, shown'[u][i])
      <4>1. \A i \in 1 .. Len(shown[u]) : shown[u][i] # Chat!NoMsg => ~Chat!Own(u, shown[u][i])
        BY <1>2 DEF ChatOf, Filtered
      <4>2. CASE shown'[u] = shown[u]
        BY <4>1, <4>2
      <4>3. CASE shown'[u] = Append(shown[u], e) /\ (e # Chat!NoMsg => ~Chat!Own(u, e))
        BY <1>3, <4>1, <4>3
      <4>4. QED
        BY <1>6, <4>2, <4>3
    <3>2. QED
      BY <1>1, <1>3, <1>6, <3>1 DEF Filtered, Chat!Own, Chat!nick, Chat!open
  <2>4. Once(u)'
    <3>1. ASSUME NEW d \in Chat!Datagrams
          PROVE  Cardinality(Places(shown'[u], d)) + Cardinality(Places(flight[u], d)) <= 2 + extra[u]
      <4>1. Cardinality(Places(shown[u], d)) + Cardinality(Places(flight[u], d)) <= 1 + extra[u]
        BY <1>2 DEF ChatOf, Once
      <4>2. Cardinality(Places(shown[u], d)) \in Nat /\ Cardinality(Places(flight[u], d)) \in Nat
        BY <1>3, PlacesCounted
      <4>3. \/ Cardinality(Places(Append(shown[u], e), d)) = Cardinality(Places(shown[u], d))
            \/ Cardinality(Places(Append(shown[u], e), d)) = Cardinality(Places(shown[u], d)) + 1
        BY <1>3, PlacesAppend
      <4>4. CASE shown'[u] = shown[u]
        BY <1>3, <4>1, <4>2, <4>4
      <4>5. CASE shown'[u] = Append(shown[u], e)
        BY <1>3, <4>1, <4>2, <4>3, <4>5
      <4>6. QED
        BY <1>6, <4>4, <4>5
    <3>2. \A d \in Chat!Datagrams :
            Cardinality(Places(shown'[u], d)) + Cardinality(Places(flight'[u], d)) <= 1 + extra'[u]
      BY <1>1, <1>3, <1>6, <3>1
    <3>3. QED
      BY <3>2 DEF Once, Places
  <2>5. QED
    BY <2>1, <2>2, <2>3, <2>4 DEF ChatOf
<1>11. \A w \in Users : ~Listens(u, w)'
  BY <1>3, <1>6 DEF Listens
<1>12. QED
  BY <1>7, <1>8, <1>9, <1>10, <1>11 DEF ChatInv, ChatOf

\* u sends d to everybody who has the port, and goes on or leaves.
Sends(u, d, there) ==
  /\ there \in {"test", "over"} /\ pc[u] \in {"hello", "send", "bye"}
  /\ pc' = [pc EXCEPT ![u] = there]
  /\ d.from = u /\ d.num = Len(sent[u]) + 1 /\ d \in Chat!Datagrams
  /\ there = "over" <=> d.type = 2
  /\ there = "test" => Len(sent[u]) <= MaxLines
  /\ sent' = [sent EXCEPT ![u] = Append(sent[u], d)]
  /\ flight' = [v \in Users |-> IF v \in bound /\ pc'[v] # "over" THEN Append(flight[v], d)
                               ELSE <<>>]
  /\ UNCHANGED <<plan, keep, bound, slot, shown, joined, struck, extra, troubles>>

LEMMA TalkStep ==
  ASSUME ChatInv, NEW u \in Users, NEW d, NEW there, Sends(u, d, there)
  PROVE  ChatInv'
<1>1. /\ there \in {"test", "over"} /\ pc[u] \in {"hello", "send", "bye"}
      /\ there = "over" <=> d.type = 2
      /\ there = "test" => Len(sent[u]) <= MaxLines
      /\ pc' = [pc EXCEPT ![u] = there]
  BY DEF Sends
<1>2. UNCHANGED <<plan, keep, bound, slot, shown, joined, struck, extra, troubles>>
  BY DEF Sends
<1>3. ChatTypes /\ OnePort /\ (\A v \in Users : ChatOf(v))
  BY DEF ChatInv, ChatOf
<1>4. sent[u] \in Seq(Chat!Datagrams) /\ Len(sent[u]) \in Nat /\ Len(sent[u]) <= MaxLines + 1
  BY <1>1, <1>3 DEF ChatTypes, ChatOf, Diary
<1>5. d.from = u /\ d.num = Len(sent[u]) + 1
  BY DEF Sends
<1>6. d \in Chat!Datagrams
  BY DEF Sends
<1>7. /\ sent' = [sent EXCEPT ![u] = Append(sent[u], d)]
      /\ flight' = [v \in Users |-> IF v \in bound /\ pc'[v] # "over" THEN Append(flight[v], d)
                                    ELSE <<>>]
  BY DEF Sends
<1>8. /\ pc' \in [Users -> MainPlaces] /\ pc'[u] = there
      /\ \A v \in Users : v # u => pc'[v] = pc[v]
  BY <1>1, <1>3, MainGoesOn DEF MainPlaces
<1>9. /\ \A v \in Users : v # u => sent'[v] = sent[v]
      /\ sent'[u] = Append(sent[u], d) /\ Len(sent'[u]) = Len(sent[u]) + 1
      /\ sent'[u][Len(sent[u]) + 1] = d
      /\ \A k \in 1 .. Len(sent[u]) : sent'[u][k] = sent[u][k]
  BY <1>3, <1>4, <1>6, <1>7 DEF ChatTypes
<1> DEFINE KnownNow(e) ==
      e.from \in Users /\ e.num \in 1 .. Len(sent'[e.from]) /\ e = sent'[e.from][e.num]
<1>10. ASSUME NEW e, Known(e) PROVE KnownNow(e) /\ e # d /\ (e.from = u => e.num <= Len(sent[u]))
  <2>1. CASE e.from = u
    BY <1>4, <1>5, <1>9, <1>10, <2>1 DEF Known
  <2>2. CASE e.from # u
    BY <1>5, <1>9, <1>10, <2>2 DEF Known
  <2>3. QED
    BY <2>1, <2>2
<1>11. KnownNow(d)
  <2>1. Len(sent[u]) + 1 \in 1 .. Len(sent'[u])
    BY <1>4, <1>9
  <2>2. QED
    BY <1>5, <1>9, <2>1
<1>12. ASSUME NEW v \in Users
       PROVE  /\ flight[v] \in Seq(Chat!Datagrams)
              /\ flight'[v] = Append(flight[v], d) \/ flight'[v] = <<>>
              /\ v \notin bound \/ pc'[v] = "over" => flight'[v] = <<>>
              /\ v \in bound /\ pc'[v] # "over" => flight'[v] = Append(flight[v], d)
              /\ flight'[v] \in Seq(Chat!Datagrams)
  <2>1. flight[v] \in Seq(Chat!Datagrams) /\ d \in Chat!Datagrams
    <3>1. flight \in [Users -> Seq(Chat!Datagrams)]
      BY <1>3 DEF ChatTypes
    <3>2. QED
      BY <1>6, <3>1
  <2>2. Append(flight[v], d) \in Seq(Chat!Datagrams) /\ <<>> \in Seq(Chat!Datagrams)
    BY <2>1
  <2>3. /\ flight'[v] = Append(flight[v], d) \/ flight'[v] = <<>>
        /\ v \notin bound \/ pc'[v] = "over" => flight'[v] = <<>>
        /\ v \in bound /\ pc'[v] # "over" => flight'[v] = Append(flight[v], d)
    BY <1>3, <1>6, <1>7 DEF ChatTypes
  <2>4. QED
    BY <2>1, <2>2, <2>3
<1>13. ChatTypes'
  <2>1. sent' \in [Users -> Seq(Chat!Datagrams)]
    BY <1>3, <1>4, <1>6, <1>7 DEF ChatTypes
  <2>2. flight' \in [Users -> Seq(Chat!Datagrams)]
    BY <1>7, <1>12
  <2>3. QED
    BY <1>2, <1>3, <1>8, <2>1, <2>2 DEF ChatTypes, Chat!Datagrams, Chat!NoMsg
<1>14. \A v \in Users : pc[v] = "over" => pc'[v] = "over" /\ v # u
  BY <1>1, <1>8
<1>15. OnePort'
  BY <1>2, <1>3, <1>14 DEF ChatTypes, OnePort, Chat!Over
<1>16. ASSUME NEW v \in Users PROVE ChatOf(v)'
  <2>1. ChatOf(v)
    BY <1>3
  <2>2. Diary(v)'
    <3>1. CASE v # u
      BY <1>8, <1>9, <2>1, <3>1 DEF ChatOf, Diary, Chat!Over
    <3>2. CASE v = u
      <4>1. \A k \in 1 .. Len(sent'[u]) : sent'[u][k].from = u /\ sent'[u][k].num = k
        BY <1>4, <1>5, <1>9, <2>1, <3>2 DEF ChatOf, Diary
      <4>2. pc'[u] = "over" <=> sent'[u] # <<>> /\ sent'[u][Len(sent'[u])].type = 2
        <5>1. sent'[u] # <<>>
          BY <1>4, <1>9
        <5>2. sent'[u][Len(sent'[u])].type = d.type
          BY <1>9
        <5>3. QED
          BY <1>1, <1>8, <5>1, <5>2
      <4>3. pc'[u] # "over" => Len(sent'[u]) <= MaxLines + 1
        BY <1>1, <1>4, <1>8, <1>9, NoDatagram
      <4>4. pc'[u] \notin {"bind", "hello", "send"}
        BY <1>1, <1>8
      <4>5. QED
        BY <3>2, <4>1, <4>2, <4>3, <4>4 DEF Diary, Chat!Over
    <3>3. QED
      BY <3>1, <3>2
  <2>3. FromUsers(v)'
    <3>1. \A i \in 1 .. Len(flight[v]) : Known(flight[v][i])
      BY <2>1 DEF ChatOf, FromUsers
    <3>2. \A i \in 1 .. Len(flight'[v]) : KnownNow(flight'[v][i])
      <4>1. CASE flight'[v] = <<>>
        BY <4>1
      <4>2. CASE flight'[v] = Append(flight[v], d)
        <5>1. /\ Len(flight[v]) \in Nat /\ Len(flight'[v]) = Len(flight[v]) + 1
              /\ flight'[v][Len(flight[v]) + 1] = d
              /\ \A i \in 1 .. Len(flight[v]) : flight'[v][i] = flight[v][i]
          BY <1>6, <1>12, <4>2
        <5>2. ASSUME NEW i \in 1 .. Len(flight[v]) PROVE KnownNow(flight'[v][i])
          BY <1>10, <3>1, <5>1
        <5> HIDE DEF KnownNow
        <5>3. QED
          BY <1>11, <5>1, <5>2
      <4>3. QED
        BY <1>12, <4>1, <4>2
    <3>3. /\ \A i \in 1 .. Len(shown[v]) : shown[v][i] # Chat!NoMsg => KnownNow(shown[v][i])
          /\ slot[v] # Chat!NoMsg => KnownNow(slot[v])
      BY <1>10, <2>1 DEF ChatOf, FromUsers
    <3>4. v \notin bound => flight'[v] = <<>>
      BY <1>12
    <3>5. pc'[v] = "bind" => v \notin bound /\ shown[v] = <<>>
      BY <1>1, <1>8, <2>1 DEF ChatOf, FromUsers
    <3>6. QED
      BY <1>2, <3>2, <3>3, <3>4, <3>5 DEF FromUsers, Known
  <2>4. Filtered(v)'
    BY <1>2, <2>1 DEF ChatOf, Filtered, Chat!Own, Chat!nick, Chat!open
  <2>5. Once(v)'
    <3>1. ASSUME NEW e \in Chat!Datagrams
          PROVE  Cardinality(Places(shown[v], e)) + Cardinality(Places(flight'[v], e)) <= 1 + extra[v]
      <4>1. /\ shown[v] \in Seq(Chat!Datagrams \cup {Chat!NoMsg}) /\ extra[v] \in Nat
            /\ flight[v] \in Seq(Chat!Datagrams)
        BY <1>3 DEF ChatTypes
      <4>2. Cardinality(Places(shown[v], e)) \in Nat /\ Cardinality(Places(flight[v], e)) \in Nat
        BY <4>1, PlacesCounted
      <4>3. Cardinality(Places(shown[v], e)) + Cardinality(Places(flight[v], e)) <= 1 + extra[v]
        BY <2>1 DEF ChatOf, Once
      <4>4. CASE flight'[v] = <<>>
        <5>1. \A i \in 1 .. Len(flight'[v]) : flight'[v][i] # e
          BY <4>4
        <5>2. Cardinality(Places(flight'[v], e)) = 0
          BY <1>12, <5>1, PlacesNone
        <5>3. QED
          BY <4>1, <4>2, <4>3, <5>2
      <4>5. CASE flight'[v] = Append(flight[v], d) /\ e # d
        BY <1>6, <4>1, <4>3, <4>5, PlacesAppend
      <4>6. CASE flight'[v] = Append(flight[v], d) /\ e = d
        <5>1. \A i \in 1 .. Len(flight[v]) : flight[v][i] # d
          BY <1>10, <2>1 DEF ChatOf, FromUsers
        <5>2. \A i \in 1 .. Len(shown[v]) : shown[v][i] # d
          BY <1>6, <1>10, <2>1, NoDatagram DEF ChatOf, FromUsers
        <5>3. Cardinality(Places(flight[v], d)) = 0 /\ Cardinality(Places(shown[v], d)) = 0
          BY <4>1, <5>1, <5>2, PlacesNone
        <5>4. Cardinality(Places(flight'[v], d)) = Cardinality(Places(flight[v], d)) + 1
          BY <1>6, <4>1, <4>6, PlacesAppend
        <5>5. QED
          BY <4>1, <4>6, <5>3, <5>4
      <4>7. QED
        BY <1>12, <4>4, <4>5, <4>6
    <3>2. QED
      BY <1>2, <3>1 DEF Once, Places
  <2>6. QED
    BY <2>2, <2>3, <2>4, <2>5 DEF ChatOf
<1>17. ASSUME NEW v \in Users, NEW w \in Users, Listens(v, w)' PROVE Follows(v, w)'
  <2>1. v \in bound /\ pc'[v] # "over" /\ pc[v] # "over"
    BY <1>2, <1>14, <1>17 DEF Listens, Chat!Over
  <2>2. Listens(v, w)
    BY <1>2, <1>17, <2>1 DEF Listens, Chat!Over
  <2>3. Follows(v, w)
    BY <2>2 DEF ChatInv
  <2> DEFINE f == flight[v]
             t == Append(f, d)
             m == sent'[w]
             n == joined[v][w]
  <2>4. /\ flight'[v] = t /\ f \in Seq(Chat!Datagrams) /\ Len(f) \in Nat /\ Len(t) = Len(f) + 1
        /\ t[Len(f) + 1] = d /\ (\A j \in 1 .. Len(f) : t[j] = f[j])
    BY <1>6, <1>12, <2>1
  <2>5. /\ n \in Nat /\ Len(sent[w]) \in Nat /\ Len(m) \in Nat /\ Len(m) >= Len(sent[w])
        /\ \A k \in 1 .. Len(sent[w]) : m[k] = sent[w][k]
    <3>1. n \in Nat /\ Len(sent[w]) \in Nat
      BY <1>3 DEF ChatTypes
    <3>2. CASE w = u
      BY <1>9, <3>1, <3>2
    <3>3. CASE w # u
      BY <1>9, <3>1, <3>3
    <3>4. QED
      BY <3>1, <3>2, <3>3
  <2>6. \A k \in 1 .. Len(m) : k \in 1 .. Len(sent[w]) \/ m[k] = d
    BY <1>4, <1>9, <2>5
  <2>7. /\ joined'[v][w] = n /\ shown'[v] = shown[v] /\ n <= Len(m)
    BY <1>2, <2>3, <2>5 DEF Follows
  <2>8. d.from = w => /\ d.num > n
                      /\ \A i \in 1 .. Len(f) : f[i].from = w => f[i].num < d.num
                      /\ \A i \in 1 .. Len(shown[v]) :
                           shown[v][i] # Chat!NoMsg /\ shown[v][i].from = w => shown[v][i].num < d.num
    <3>1. SUFFICES ASSUME w = u
                   PROVE  /\ d.num > n
                          /\ \A i \in 1 .. Len(f) : f[i].from = w => f[i].num < d.num
                          /\ \A i \in 1 .. Len(shown[v]) :
                               shown[v][i] # Chat!NoMsg /\ shown[v][i].from = w
                               => shown[v][i].num < d.num
      BY <1>5
    <3>2. d.num > n
      BY <1>4, <1>5, <2>3, <2>5, <3>1 DEF Follows
    <3>3. \A i \in 1 .. Len(f) : Known(f[i])
      BY <1>3 DEF ChatOf, FromUsers
    <3>4. \A i \in 1 .. Len(shown[v]) : shown[v][i] # Chat!NoMsg => Known(shown[v][i])
      BY <1>3 DEF ChatOf, FromUsers
    <3>5. \A e : Known(e) /\ e.from = u => e.num < d.num
      BY <1>4, <1>5 DEF Known
    <3>6. QED
      BY <3>1, <3>2, <3>3, <3>4, <3>5
  <2>9. \A i \in 1 .. Len(shown[v]) : shown[v][i] # Chat!NoMsg
    BY <1>3, <2>2 DEF ChatOf, Filtered, Listens
  <2>10. /\ Ascending(f, w) /\ Ascending(shown[v], w)
         /\ \A i \in 1 .. Len(shown[v]), j \in 1 .. Len(f) :
              shown[v][i].from = w /\ f[j].from = w => shown[v][i].num < f[j].num
         /\ \A i \in 1 .. Len(shown[v]) : shown[v][i].from = w => shown[v][i].num > n
         /\ \A j \in 1 .. Len(f) : f[j].from = w => f[j].num > n
         /\ \A k \in n + 1 .. Len(sent[w]) : \/ \E i \in 1 .. Len(shown[v]) : shown[v][i] = sent[w][k]
                                             \/ \E j \in 1 .. Len(f) : f[j] = sent[w][k]
    BY <2>3 DEF Follows
  <2> HIDE DEF f, t, m, n
  <2>11. Ascending(t, w)
    <3>1. ASSUME NEW i \in 1 .. Len(t), NEW j \in 1 .. Len(t), i < j, t[i].from = w, t[j].from = w
          PROVE  t[i].num < t[j].num
      <4>1. i \in 1 .. Len(f) /\ t[i] = f[i]
        BY <2>4, <3>1
      <4>2. CASE j \in 1 .. Len(f)
        BY <2>4, <2>10, <3>1, <4>1, <4>2 DEF Ascending
      <4>3. CASE j = Len(f) + 1
        BY <2>4, <2>8, <3>1, <4>1, <4>3
      <4>4. QED
        BY <2>4, <4>2, <4>3
    <3>2. QED
      BY <3>1 DEF Ascending
  <2>12. \A i \in 1 .. Len(shown[v]), j \in 1 .. Len(t) :
           shown[v][i].from = w /\ t[j].from = w => shown[v][i].num < t[j].num
    <3>1. ASSUME NEW i \in 1 .. Len(shown[v]), NEW j \in 1 .. Len(t), shown[v][i].from = w,
                 t[j].from = w
          PROVE  shown[v][i].num < t[j].num
      <4>1. CASE j \in 1 .. Len(f)
        BY <2>4, <2>10, <3>1, <4>1
      <4>2. CASE j = Len(f) + 1
        BY <2>4, <2>8, <2>9, <3>1, <4>2
      <4>3. QED
        BY <2>4, <4>1, <4>2
    <3>2. QED
      BY <3>1
  <2>13. \A j \in 1 .. Len(t) : t[j].from = w => t[j].num > n
    BY <2>4, <2>8, <2>10
  <2>14. ASSUME NEW k \in n + 1 .. Len(m)
         PROVE  \/ \E i \in 1 .. Len(shown[v]) : shown[v][i] = m[k]
                \/ \E j \in 1 .. Len(t) : t[j] = m[k]
    <3>1. CASE k \in 1 .. Len(sent[w])
      <4>1. m[k] = sent[w][k] /\ k \in n + 1 .. Len(sent[w])
        BY <2>5, <3>1
      <4>2. CASE \E i \in 1 .. Len(shown[v]) : shown[v][i] = sent[w][k]
        BY <4>1, <4>2
      <4>3. CASE \E j \in 1 .. Len(f) : f[j] = sent[w][k]
        <5>1. PICK j \in 1 .. Len(f) : f[j] = sent[w][k]
          BY <4>3
        <5>2. j \in 1 .. Len(t) /\ t[j] = m[k]
          BY <2>4, <4>1, <5>1
        <5>3. QED
          BY <5>2
      <4>4. QED
        BY <2>10, <4>1, <4>2, <4>3
    <3>2. CASE k \notin 1 .. Len(sent[w])
      <4>1. m[k] = d
        BY <2>5, <2>6, <3>2
      <4>2. Len(f) + 1 \in 1 .. Len(t) /\ t[Len(f) + 1] = m[k]
        BY <2>4, <4>1
      <4>3. QED
        BY <4>2
    <3>3. QED
      BY <3>1, <3>2
  <2>15. QED
    <3>1. sent'[w] = m
      BY DEF m
    <3>2. PICK z : z = shown[v]
      OBVIOUS
    <3> HIDE DEF f, t, m, n
    <3>3. shown'[v] = z /\ flight'[v] = t /\ sent'[w] = m /\ joined'[v][w] = n /\ n <= Len(m)
      BY <2>4, <2>7, <3>1, <3>2
    <3>4. Ascending(z, w) /\ Ascending(t, w)
      BY <2>10, <2>11, <3>2
    <3>5. \A i \in 1 .. Len(z), j \in 1 .. Len(t) :
            z[i].from = w /\ t[j].from = w => z[i].num < t[j].num
      BY <2>12, <3>2
    <3>6. (\A i \in 1 .. Len(z) : z[i].from = w => z[i].num > n)
      BY <2>10, <3>2
    <3>7. ASSUME NEW k \in n + 1 .. Len(m)
          PROVE  \/ \E i \in 1 .. Len(z) : z[i] = m[k]
                 \/ \E j \in 1 .. Len(t) : t[j] = m[k]
      <4>1. \/ \E i \in 1 .. Len(shown[v]) : shown[v][i] = m[k]
            \/ \E j \in 1 .. Len(t) : t[j] = m[k]
        BY <2>14, <3>7
      <4>2. QED
        BY <3>2, <4>1
    <3>8. QED
      BY <2>13, <3>3, <3>4, <3>5, <3>6, <3>7, FollowsNow
<1>18. QED
  BY <1>13, <1>15, <1>16, <1>17 DEF ChatInv, ChatOf

LEMMA HelloStep == ASSUME ChatInv, NEW u \in Users, Chat!Hello(u) PROVE ChatInv'
<1> DEFINE d == [from |-> u, num |-> Len(sent[u]) + 1, type |-> 0]
<1>1. /\ pc[u] = "hello" /\ pc' = [pc EXCEPT ![u] = "test"]
      /\ sent' = [sent EXCEPT ![u] = Append(sent[u], d)]
      /\ flight' = [v \in Users |-> IF v \in bound /\ pc'[v] # "over" THEN Append(flight[v], d)
                                    ELSE <<>>]
      /\ UNCHANGED <<plan, keep, bound, slot, shown, joined, struck, extra, troubles>>
  BY DEF Chat!Hello, Chat!Send
<1>2. Len(sent[u]) \in Nat /\ Len(sent[u]) <= MaxLines
  BY <1>1, NoDatagram DEF ChatInv, ChatTypes, Diary
<1>3. d.from = u /\ d.num = Len(sent[u]) + 1 /\ d.type = 0 /\ d \in Chat!Datagrams
  BY <1>2, NoDatagram DEF Chat!Datagrams
<1> HIDE DEF d
<1>4. Sends(u, d, "test")
  BY <1>1, <1>2, <1>3 DEF Sends
<1>5. QED
  BY <1>4, TalkStep

LEMMA SendTextStep == ASSUME ChatInv, NEW u \in Users, Chat!SendText(u) PROVE ChatInv'
<1> DEFINE d == [from |-> u, num |-> Len(sent[u]) + 1, type |-> 1]
<1>1. /\ pc[u] = "send" /\ pc' = [pc EXCEPT ![u] = "test"]
      /\ sent' = [sent EXCEPT ![u] = Append(sent[u], d)]
      /\ flight' = [v \in Users |-> IF v \in bound /\ pc'[v] # "over" THEN Append(flight[v], d)
                                    ELSE <<>>]
      /\ UNCHANGED <<plan, keep, bound, slot, shown, joined, struck, extra, troubles>>
  BY DEF Chat!SendText, Chat!Send
<1>2. Len(sent[u]) \in Nat /\ Len(sent[u]) <= MaxLines
  BY <1>1, NoDatagram DEF ChatInv, ChatTypes, Diary
<1>3. d.from = u /\ d.num = Len(sent[u]) + 1 /\ d.type = 1 /\ d \in Chat!Datagrams
  BY <1>2, NoDatagram DEF Chat!Datagrams
<1> HIDE DEF d
<1>4. Sends(u, d, "test")
  BY <1>1, <1>2, <1>3 DEF Sends
<1>5. QED
  BY <1>4, TalkStep

LEMMA ByeStep == ASSUME ChatInv, NEW u \in Users, Chat!Bye(u) PROVE ChatInv'
<1> DEFINE d == [from |-> u, num |-> Len(sent[u]) + 1, type |-> 2]
<1>1. /\ pc[u] = "bye" /\ pc' = [pc EXCEPT ![u] = "over"]
      /\ sent' = [sent EXCEPT ![u] = Append(sent[u], d)]
      /\ flight' = [v \in Users |-> IF v \in bound /\ pc'[v] # "over" THEN Append(flight[v], d)
                                    ELSE <<>>]
      /\ UNCHANGED <<plan, keep, bound, slot, shown, joined, struck, extra, troubles>>
  BY DEF Chat!Bye, Chat!Send
<1>2. Len(sent[u]) \in Nat /\ Len(sent[u]) <= MaxLines + 1
  BY <1>1, NoDatagram DEF ChatInv, ChatTypes, Diary
<1>3. d.from = u /\ d.num = Len(sent[u]) + 1 /\ d.type = 2 /\ d \in Chat!Datagrams
  BY <1>2, NoDatagram DEF Chat!Datagrams
<1> HIDE DEF d
<1>4. Sends(u, d, "over")
  BY <1>1, <1>2, <1>3 DEF Sends
<1>5. QED
  BY <1>4, TalkStep

-----------------------------------------------------------------------------
(* The theorems about the chat.                                            *)

LEMMA ChatInvInit == ASSUME Chat!Init PROVE ChatInv
<1>1. ChatTypes
  <2>1. troubles \in 0 .. MaxTroubles
    BY NoDatagram DEF Chat!Init
  <2>2. [v \in Users |-> 0] \in [Users -> Nat]
    OBVIOUS
  <2>3. joined \in [Users -> [Users -> Nat]]
    BY <2>2 DEF Chat!Init
  <2>4. QED
    BY <2>1, <2>3 DEF Chat!Init, ChatTypes, MainPlaces
<1>2. OnePort
  BY DEF Chat!Init, OnePort
<1>3. ASSUME NEW u \in Users PROVE ChatOf(u)
  <2>1. /\ pc[u] = "bind" /\ sent[u] = <<>> /\ flight[u] = <<>> /\ shown[u] = <<>>
        /\ slot[u] = Chat!NoMsg /\ bound = {} /\ extra[u] = 0
    BY DEF Chat!Init
  <2>2. Diary(u)
    BY <2>1, NoDatagram DEF Diary, Chat!Over
  <2>3. FromUsers(u) /\ Filtered(u)
    BY <2>1 DEF FromUsers, Filtered
  <2>4. ASSUME NEW d \in Chat!Datagrams PROVE Cardinality(Places(<<>>, d)) = 0
    <3>1. Places(<<>>, d) = {}
      BY DEF Places
    <3>2. QED
      BY <3>1, FS_EmptySet
  <2>5. Once(u)
    BY <2>1, <2>4 DEF Once
  <2>6. QED
    BY <2>2, <2>3, <2>5 DEF ChatOf
<1>4. QED
  BY <1>1, <1>2, <1>3 DEF ChatInv, ChatOf, Listens, Chat!Init

LEMMA ChatInvStep == ChatInv /\ [Chat!Next]_chatVars => ChatInv'
<1> SUFFICES ASSUME ChatInv, [Chat!Next]_chatVars PROVE ChatInv'
  OBVIOUS
<1>1. ASSUME NEW u \in Users,
             \/ Chat!Main(u) \/ Chat!Typed(u) \/ Chat!Receive(u)
             \/ Chat!PressMain(u) \/ Chat!PressReceiver(u)
             \/ Chat!Lose(u) \/ Chat!Repeat(u) \/ Chat!Reorder(u)
      PROVE  ChatInv'
  BY <1>1, BindStep, HelloStep, TestStep, SendTextStep, ByeStep, TypedStep, ReceiveStep,
     PressMainStep, PressReceiverStep, LoseStep, RepeatStep, ReorderStep DEF Chat!Main
<1>2. CASE UNCHANGED chatVars
  <2>1. ChatTypes' /\ OnePort'
    BY <1>2 DEF chatVars, ChatInv, ChatTypes, OnePort, Chat!Over
  <2>2. ASSUME NEW v \in Users PROVE ChatOf(v)' /\ (\A w \in Users : Listens(v, w)' => Follows(v, w)')
    BY <1>2, OthersStay DEF chatVars
  <2>3. QED
    BY <2>1, <2>2 DEF ChatInv, ChatOf
<1>3. QED
  BY <1>1, <1>2 DEF Chat!Next

\* The steps of the chat are its own.
LEMMA ChatNext == ASSUME program = "chat", Next PROVE Chat!Next
<1>1. ~InCopier /\ ~InDev /\ ~InLed
  BY DEF InCopier, InDev, InLed
<1>2. \/ Bind \/ Hello \/ TestKeep \/ Typed \/ SendText \/ Bye \/ Receive
      \/ PressMain \/ PressReceiver \/ Lose \/ Repeat \/ Reorder
  BY <1>1 DEF Next, POpen, PReady, PStat, PMeta, PRead, PWrite, PEnd, PWait, CSignal, CMeta,
              CChunk, Edit, ChrdevInit, ProcCreate, ProcAlloc, ProcClear, Unload, Unloaded, Open,
              DeviceOpen, Release, ReadBegin, ReadByte, ReadFault, WriteBegin, WriteByte,
              WriteFault, StoreLen, StoreZero, Switch, Terminal, SysInit, StateStore, StoreLeds, SysExit,
              KobjectPut
<1>3. QED
  BY <1>2 DEF Bind, Hello, TestKeep, Typed, SendText, Bye, Receive, PressMain, PressReceiver, Lose,
              Repeat, Reorder, Chat!Next, Chat!Main

LEMMA ChatRuns == InRun("chat") /\ FairSpec => [](InRun("chat") /\ ChatInv)
<1>1. Init => ChatInv
  BY ChatInvInit DEF Init
<1>2. InRun("chat") /\ [Next]_vars => InRun("chat")'
  BY OneProgram DEF InRun
<1>3. InRun("chat") /\ [Next]_vars => [Chat!Next]_chatVars
  BY ChatNext DEF vars, InRun
<1>4. InRun("chat") /\ ChatInv /\ [Next]_vars => ChatInv'
  BY <1>3, ChatInvStep
<1>5. QED
  BY <1>1, <1>2, <1>4, Steps, PTL

LEMMA NotChatStays == ~InRun("chat") /\ FairSpec => []~InRun("chat")
<1>1. ~InRun("chat") /\ [Next]_vars => ~InRun("chat")'
  BY OneProgram DEF InRun
<1>2. QED
  BY <1>1, Steps, PTL

LEMMA ChatConverses == ChatInv => Chat!Conversation
<1> SUFFICES ASSUME ChatInv, NEW u \in bound \ struck, NEW v \in Users,
                    extra[u] = 0, ~Chat!Over(u), plan.nick[v] # plan.nick[u]
             PROVE  /\ \A i, j \in DOMAIN Chat!Heard(u) :
                         i < j /\ Chat!Heard(u)[i].from = v /\ Chat!Heard(u)[j].from = v
                         => Chat!Heard(u)[i].num < Chat!Heard(u)[j].num
                    /\ {d \in Chat!Range(Chat!Heard(u)) : d.from = v}
                         = {sent[v][k] : k \in joined[u][v] + 1 .. Len(sent[v])}
                    /\ Chat!Over(v) <=> sent[v] # <<>> /\ Chat!Last(sent[v]).type = 2
  BY DEF Chat!Conversation, Chat!nick
<1> DEFINE a == shown[u]
           b == flight[u]
           h == a \o b
           m == sent[v]
           n == joined[u][v]
<1>1. u \in Users /\ ChatTypes /\ ChatOf(u) /\ Diary(v) /\ Follows(u, v)
  BY DEF ChatInv, ChatTypes, ChatOf, Listens
<1>2. /\ a \in Seq(Chat!Datagrams \cup {Chat!NoMsg}) /\ b \in Seq(Chat!Datagrams \cup {Chat!NoMsg})
      /\ Len(m) \in Nat /\ n \in Nat
  BY <1>1 DEF ChatTypes
<1>3. /\ Ascending(a, v) /\ Ascending(b, v)
      /\ \A i \in 1 .. Len(a), j \in 1 .. Len(b) : a[i].from = v /\ b[j].from = v => a[i].num < b[j].num
      /\ \A i \in 1 .. Len(a) : a[i].from = v => a[i].num > n
      /\ \A j \in 1 .. Len(b) : b[j].from = v => b[j].num > n
      /\ \A k \in n + 1 .. Len(m) : \/ \E i \in 1 .. Len(a) : a[i] = m[k]
                                    \/ \E j \in 1 .. Len(b) : b[j] = m[k]
  BY <1>1 DEF Follows
<1>4. /\ \A i \in 1 .. Len(a) : Known(a[i])
      /\ \A j \in 1 .. Len(b) : Known(b[j])
  BY <1>1 DEF ChatOf, FromUsers, Filtered
<1>5. \A k \in 1 .. Len(m) : m[k].from = v
  BY <1>1 DEF Diary
<1>6. Chat!Over(v) <=> sent[v] # <<>> /\ Chat!Last(sent[v]).type = 2
  BY <1>1 DEF Diary, Chat!Last
<1>7. Chat!Heard(u) = h
  BY DEF Chat!Heard
<1> HIDE DEF a, b, m, n
<1>8. /\ h \in Seq(Chat!Datagrams \cup {Chat!NoMsg}) /\ Len(h) = Len(a) + Len(b)
      /\ \A i \in 1 .. Len(a) + Len(b) : h[i] = IF i <= Len(a) THEN a[i] ELSE b[i - Len(a)]
  BY <1>2, ConcatProperties
<1> HIDE DEF h
<1>9. Len(a) \in Nat /\ Len(b) \in Nat /\ DOMAIN h = 1 .. Len(a) + Len(b)
  BY <1>2, <1>8
<1>10. /\ \A i \in 1 .. Len(a) : i \in DOMAIN h /\ h[i] = a[i]
       /\ \A j \in 1 .. Len(b) : Len(a) + j \in DOMAIN h /\ h[Len(a) + j] = b[j]
       /\ \A i \in DOMAIN h : i \in 1 .. Len(a) \/ i - Len(a) \in 1 .. Len(b)
  <2>1. \A i \in 1 .. Len(a) : i \in DOMAIN h /\ h[i] = a[i]
    BY <1>8, <1>9
  <2>2. ASSUME NEW j \in 1 .. Len(b) PROVE Len(a) + j \in DOMAIN h /\ h[Len(a) + j] = b[j]
    <3>1. Len(a) + j \in 1 .. Len(a) + Len(b) /\ ~(Len(a) + j <= Len(a)) /\ (Len(a) + j) - Len(a) = j
      BY <1>9
    <3>2. QED
      BY <1>8, <1>9, <3>1
  <2>3. \A i \in DOMAIN h : i \in 1 .. Len(a) \/ i - Len(a) \in 1 .. Len(b)
    BY <1>9
  <2>4. QED
    BY <2>1, <2>2, <2>3
<1>11. ASSUME NEW i \in DOMAIN h, NEW j \in DOMAIN h, i < j, h[i].from = v, h[j].from = v
       PROVE  h[i].num < h[j].num
  <2>1. CASE i \in 1 .. Len(a) /\ j \in 1 .. Len(a)
    BY <1>3, <1>10, <1>11, <2>1 DEF Ascending
  <2>2. CASE i \in 1 .. Len(a) /\ j - Len(a) \in 1 .. Len(b)
    <3>1. h[j] = b[j - Len(a)]
      BY <1>8, <1>9, <2>2
    <3>2. QED
      BY <1>3, <1>10, <1>11, <2>2, <3>1
  <2>3. CASE i - Len(a) \in 1 .. Len(b) /\ j - Len(a) \in 1 .. Len(b)
    <3>1. h[i] = b[i - Len(a)] /\ h[j] = b[j - Len(a)]
      BY <1>8, <1>9, <2>3
    <3>2. i - Len(a) < j - Len(a)
      BY <1>9, <1>11
    <3>3. QED
      BY <1>3, <1>11, <2>3, <3>1, <3>2 DEF Ascending
  <2>4. CASE i - Len(a) \in 1 .. Len(b) /\ j \in 1 .. Len(a)
    BY <1>9, <1>11, <2>4
  <2>5. QED
    BY <1>10, <2>1, <2>2, <2>3, <2>4
<1>12. ASSUME NEW e, e.from = v
       PROVE  (\E i \in DOMAIN h : h[i] = e) <=> \E k \in n + 1 .. Len(m) : e = m[k]
  <2>1. ASSUME NEW i \in DOMAIN h, h[i] = e PROVE \E k \in n + 1 .. Len(m) : e = m[k]
    <3>1. Known(e) /\ e.num > n
      <4>1. CASE i \in 1 .. Len(a)
        BY <1>3, <1>4, <1>10, <1>12, <2>1, <4>1
      <4>2. CASE i - Len(a) \in 1 .. Len(b)
        <5>1. h[i] = b[i - Len(a)]
          BY <1>8, <1>9, <4>2
        <5>2. QED
          BY <1>3, <1>4, <1>12, <2>1, <4>2, <5>1
      <4>3. QED
        BY <1>10, <4>1, <4>2
    <3>2. e.num \in 1 .. Len(m) /\ e = m[e.num]
      BY <1>12, <3>1 DEF Known, m
    <3>3. e.num \in n + 1 .. Len(m)
      BY <1>2, <3>1, <3>2
    <3>4. QED
      BY <3>2, <3>3
  <2>2. ASSUME NEW k \in n + 1 .. Len(m), e = m[k] PROVE \E i \in DOMAIN h : h[i] = e
    <3>1. CASE \E i \in 1 .. Len(a) : a[i] = m[k]
      BY <1>10, <2>2, <3>1
    <3>2. CASE \E j \in 1 .. Len(b) : b[j] = m[k]
      BY <1>10, <2>2, <3>2
    <3>3. QED
      BY <1>3, <3>1, <3>2
  <2>3. QED
    BY <2>1, <2>2
<1>13. \A k \in n + 1 .. Len(m) : m[k].from = v
  BY <1>2, <1>5
<1>14. {d \in Chat!Range(h) : d.from = v} = {m[k] : k \in n + 1 .. Len(m)}
  <2>1. \A e : e \in Chat!Range(h) <=> \E i \in DOMAIN h : h[i] = e
    BY DEF Chat!Range
  <2>2. QED
    BY <1>12, <1>13, <2>1
<1>15. QED
  BY <1>6, <1>7, <1>11, <1>14 DEF m, n

LEMMA ChatEchoesNot == ChatInv => Chat!NoEcho
<1> SUFFICES ASSUME ChatInv, NEW u \in Users
             PROVE  /\ \A d \in Chat!Range(shown[u]) \ {Chat!NoMsg} :
                         /\ plan.nick[d.from] = plan.nick[u] => plan.nick[u] \in {Longest} /\ d.type # 0
                         /\ Chat!Cardinality({i \in DOMAIN shown[u] : shown[u][i] = d}) <= 1 + extra[u]
                    /\ Chat!NoMsg \in Chat!Range(shown[u]) => extra[u] > 0
  BY DEF Chat!NoEcho, Chat!nick
<1>1. ChatTypes /\ ChatOf(u)
  BY DEF ChatInv, ChatOf
<1>2. /\ shown[u] \in Seq(Chat!Datagrams \cup {Chat!NoMsg}) /\ flight[u] \in Seq(Chat!Datagrams)
      /\ DOMAIN shown[u] = 1 .. Len(shown[u]) /\ extra[u] \in Nat /\ plan \in Plans
  BY <1>1 DEF ChatTypes
<1>3. Chat!NoMsg \in Chat!Range(shown[u]) => extra[u] > 0
  BY <1>1, <1>2 DEF ChatOf, Filtered, Chat!Range
<1>4. ASSUME NEW d \in Chat!Range(shown[u]) \ {Chat!NoMsg}
      PROVE  /\ plan.nick[d.from] = plan.nick[u] => plan.nick[u] \in {Longest} /\ d.type # 0
             /\ Chat!Cardinality({i \in DOMAIN shown[u] : shown[u][i] = d}) <= 1 + extra[u]
  <2>1. PICK i \in 1 .. Len(shown[u]) : shown[u][i] = d
    BY <1>2 DEF Chat!Range
  <2>2. d \in Chat!Datagrams /\ d # Chat!NoMsg
    BY <1>2, <2>1
  <2>3. ~Chat!Own(u, d) /\ d.from \in Users
    BY <1>1, <2>1, <2>2, NoDatagram DEF ChatOf, Filtered
  <2>4. plan.nick[d.from] = plan.nick[u] => plan.nick[u] = Longest /\ d.type # 0
    <3>1. SUFFICES ASSUME plan.nick[d.from] = plan.nick[u] PROVE plan.nick[u] = Longest /\ d.type # 0
      OBVIOUS
    <3>2. d.type \in plan.open[d.from]
      BY <2>3, <3>1 DEF Chat!Own, Chat!nick, Chat!open
    <3>3. plan.open[d.from] \subseteq {1, 2} /\ (plan.nick[d.from] # Longest => plan.open[d.from] = {})
      BY <1>2, <2>3, SystemsAssumption
    <3>4. QED
      BY <3>1, <3>2, <3>3
  <2>5. Chat!Cardinality({k \in DOMAIN shown[u] : shown[u][k] = d}) = Cardinality(Places(shown[u], d))
    BY <1>2 DEF Chat!Cardinality, Cardinality, Places
  <2>6. Cardinality(Places(shown[u], d)) + Cardinality(Places(flight[u], d)) <= 1 + extra[u]
    BY <1>1, <2>2 DEF ChatOf, Once
  <2>7. Cardinality(Places(shown[u], d)) \in Nat /\ Cardinality(Places(flight[u], d)) \in Nat
    BY <1>2, PlacesCounted
  <2>8. QED
    BY <1>2, <2>4, <2>5, <2>6, <2>7
<1>5. QED
  BY <1>3, <1>4

\* Without trouble a user is shown all that the others say, once and in order, and whatever the
\* network does nothing more often than it was repeated, nor the user's own lines but under a
\* nickname without an end (chat.c:38, 127).
THEOREM ChatKeepsFaith == FairSpec => []ChatIntact
<1>1. ChatInv => ChatIntact
  BY ChatConverses, ChatEchoesNot DEF ChatIntact
<1>2. ~InRun("chat") => ChatIntact
  BY DEF InRun, ChatIntact
<1>3. QED
  BY <1>1, <1>2, ChatRuns, NotChatStays, PTL

-----------------------------------------------------------------------------
(* The file copier: Copier and CopP are two instances of the same definitions. *)

CopP == INSTANCE PipeCopyProofs

LEMMA CopierMoves ==
  ASSUME program = "copier", Next
  PROVE  \/ POpen \/ PReady \/ PStat \/ PMeta \/ PRead \/ PWrite \/ PEnd \/ PWait
         \/ CSignal \/ CMeta \/ CChunk \/ Edit
<1>1. ~InChat /\ ~InDev /\ ~InLed
  BY DEF InChat, InDev, InLed
<1>2. QED
  BY <1>1 DEF Next, Bind, Hello, TestKeep, Typed, SendText, Bye, Receive, PressMain, PressReceiver,
              Lose, Repeat, Reorder, ChrdevInit, ProcCreate, ProcAlloc, ProcClear, Unload, Unloaded,
              Open, DeviceOpen, Release, ReadBegin, ReadByte, ReadFault, WriteBegin, WriteByte,
              WriteFault, StoreLen, StoreZero, Switch, Terminal, SysInit, StateStore, StoreLeds, SysExit,
              KobjectPut

\* What is said of the ends of the pipes, of files and of records.
LEMMA SameWords ==
  /\ Copier!ParentOver = CopP!ParentOver /\ Copier!ChildOver = CopP!ChildOver
  /\ Copier!NoWriter = CopP!NoWriter /\ Copier!NoReader = CopP!NoReader
  /\ Copier!NoFile = CopP!NoFile /\ Copier!File = CopP!File /\ Copier!Wanted = CopP!Wanted
  /\ \A f, a, b : Copier!Bytes(f, a, b) = CopP!Bytes(f, a, b)
  /\ \A a, b : Copier!Least(a, b) = CopP!Least(a, b)
  /\ \A x : Copier!IsMeta(x) = CopP!IsMeta(x)
BY DEF Copier!ParentOver, CopP!ParentOver, Copier!ChildOver, CopP!ChildOver, Copier!NoWriter,
       CopP!NoWriter, Copier!NoReader, CopP!NoReader, Copier!NoFile, CopP!NoFile, Copier!File,
       CopP!File, Copier!Wanted, CopP!Wanted, Copier!Bytes, CopP!Bytes, Copier!Least, CopP!Least,
       Copier!IsMeta, CopP!IsMeta

LEMMA CopierNext ==
  ASSUME program = "copier", Next
  PROVE  CopP!Next
<1>1. CASE POpen \/ PReady \/ PStat \/ PWait
  BY <1>1, SameWords
     DEF POpen, PReady, PStat, PWait, Copier!POpen, CopP!POpen, Copier!PReady, CopP!PReady,
         Copier!PStat, CopP!PStat, Copier!PWait, CopP!PWait, CopP!Next, CopP!Parent,
         Copier!child, CopP!child
<1>2. CASE PRead
  BY <1>2, SameWords
     DEF PRead, Copier!PRead, CopP!PRead, CopP!Next, CopP!Parent, Copier!child, CopP!child
<1>3. CASE PMeta \/ PWrite \/ PEnd
  BY <1>3, SameWords
     DEF PMeta, PWrite, PEnd, Copier!PMeta, CopP!PMeta, Copier!PWrite, CopP!PWrite, Copier!PEnd,
         CopP!PEnd, Copier!Send, CopP!Send, CopP!Next, CopP!Parent, Copier!child, CopP!child
<1>4. CASE CSignal
  BY <1>4, SameWords
     DEF CSignal, Copier!CSignal, CopP!CSignal, CopP!Next, CopP!Child, Copier!parent, CopP!parent
<1>5. CASE CMeta
  BY <1>5, SameWords
     DEF CMeta, Copier!CMeta, CopP!CMeta, Copier!Start, CopP!Start, Copier!Garble, CopP!Garble,
         CopP!Next, CopP!Child, Copier!parent, CopP!parent
<1>6. CASE CChunk
  BY <1>6, SameWords
     DEF CChunk, Copier!CChunk, CopP!CChunk, CopP!Next, CopP!Child, Copier!parent, CopP!parent
<1>7. CASE Edit
  <2>1. ASSUME NEW f \in Files, Copier!Edit(f) PROVE CopP!Edit(f)
    BY <2>1, SameWords
       DEF Copier!Edit, CopP!Edit, Copier!parent, CopP!parent, Copier!child, CopP!child
  <2>2. QED
    BY <1>7, <2>1 DEF Edit, CopP!Next
<1>8. QED
  BY <1>1, <1>2, <1>3, <1>4, <1>5, <1>6, <1>7, CopierMoves

LEMMA CopierInit == ASSUME Init PROVE CopP!Init
BY SameWords DEF Init, Copier!Init, CopP!Init

LEMMA CopierRuns == InRun("copier") /\ FairSpec => CopP!Spec /\ []InRun("copier")
<1>1. Init => CopP!Init
  BY CopierInit
<1>2. InRun("copier") /\ [Next]_vars => InRun("copier")'
  BY OneProgram DEF InRun
<1>3. InRun("copier") /\ [Next]_vars => [CopP!Next]_CopP!vars
  BY CopierNext DEF vars, copierVars, CopP!vars, CopP!parent, CopP!child, InRun
<1>4. InRun("copier") /\ [][Next]_vars => [][CopP!Next]_CopP!vars /\ []InRun("copier")
  BY <1>2, <1>3, PTL
<1>5. QED
  BY <1>1, <1>4, Steps DEF CopP!Spec

\* The copier rests while another program runs.
LEMMA CopierRests == ~InRun("copier") /\ [Next]_vars => UNCHANGED Copier!vars
<1> SUFFICES ASSUME program # "copier", [Next]_vars PROVE UNCHANGED copierVars
  BY DEF InRun, copierVars, Copier!vars, Copier!parent, Copier!child
<1>1. CASE UNCHANGED vars
  BY <1>1 DEF vars
<1>2. CASE Next
  <2>1. ~InCopier
    BY DEF InCopier
  <2>2. InChat \/ InDev \/ InLed
    BY <1>2, <2>1
       DEF Next, POpen, PReady, PStat, PMeta, PRead, PWrite, PEnd, PWait, CSignal, CMeta, CChunk,
           Edit, Bind, Hello, TestKeep, Typed, SendText, Bye, Receive, PressMain, PressReceiver,
           Lose, Repeat, Reorder, ChrdevInit, ProcCreate, ProcAlloc, ProcClear, Unload, Unloaded,
           Open, DeviceOpen, Release, ReadBegin, ReadByte, ReadFault, WriteBegin, WriteByte,
           WriteFault, StoreLen, StoreZero, Switch, Terminal, SysInit, StateStore, StoreLeds, SysExit,
           KobjectPut
  <2>3. QED
    BY <2>2 DEF InChat, InDev, InLed
<1>3. QED
  BY <1>1, <1>2

\* A step that keeps a complete copy, in the words of Copier and of CopP.
Keeps ==
  \A f \in Files :
    copy[f] # <<>> /\ Copier!Whole(f) /\ copy'[f] = <<>> /\ edits = 0
    => Copier!Repeated(f) \/ ppc = "failed"
KeepsP ==
  \A f \in Files :
    copy[f] # <<>> /\ CopP!Whole(f) /\ copy'[f] = <<>> /\ edits = 0
    => CopP!Repeated(f) \/ ppc = "failed"

\* What both processes report as copied is copied byte by byte, and no complete copy is destroyed
\* by what follows it, unless its file is named twice or the parent stopped at a missing file
\* (module3/01 main.c:125-139, 159-165).
THEOREM CopiesStayWhole == FairSpec => CopiesKept
<1>1. CopP!PipeAssumption
  BY SystemsAssumption DEF CopP!PipeAssumption
<1>2. CopP!Spec => []CopP!CopiesExact
  BY <1>1, CopP!CopiesAreExact
<1>3. CopP!Spec => [][KeepsP]_CopP!vars
  BY <1>1, CopP!CopiesStay DEF CopP!CopyKept, KeepsP
<1>4. CopP!CopiesExact => Copier!CopiesExact
  BY SameWords DEF CopP!CopiesExact, Copier!CopiesExact, CopP!Whole, Copier!Whole
<1>5. [KeepsP]_CopP!vars => [Keeps]_Copier!vars
  BY SameWords DEF CopP!Whole, Copier!Whole, CopP!Repeated, Copier!Repeated, Keeps, KeepsP,
                   CopP!vars, Copier!vars, CopP!parent, Copier!parent, CopP!child, Copier!child
<1>6. ~InRun("copier") /\ [Next]_vars => [Keeps]_Copier!vars
  BY CopierRests
<1>7. InRun("copier") /\ FairSpec => [](program = "copier" => Copier!CopiesExact) /\ [][Keeps]_Copier!vars
  <2>1. CopP!CopiesExact => (program = "copier" => Copier!CopiesExact)
    BY <1>4
  <2>2. QED
    BY <1>2, <1>3, <1>5, <2>1, CopierRuns, PTL
<1>8. ~InRun("copier") /\ [Next]_vars => ~InRun("copier")'
  BY OneProgram DEF InRun
<1>9. ~InRun("copier") /\ FairSpec => [](program = "copier" => Copier!CopiesExact) /\ [][Keeps]_Copier!vars
  <2>1. ~InRun("copier") => (program = "copier" => Copier!CopiesExact)
    BY DEF InRun
  <2>2. QED
    BY <1>6, <1>8, <2>1, Steps, PTL
<1>10. QED
  BY <1>7, <1>9 DEF CopiesKept, Copier!CopyKept, Keeps

-----------------------------------------------------------------------------
(* The types of all four.                                                  *)

LEMMA ChatTypesHold == ChatInv => Chat!TypeOK
<1> SUFFICES ASSUME ChatInv PROVE Chat!TypeOK
  OBVIOUS
<1>1. ChatTypes /\ OnePort
  BY DEF ChatInv
<1>2. \A u, v \in bound : u # v /\ Chat!host[u] = Chat!host[v] => Chat!Over(u) \/ Chat!Over(v)
  BY <1>1 DEF OnePort, Chat!host
<1>3. ASSUME NEW u \in Users
      PROVE  /\ Chat!Range(flight[u]) \cup Chat!Range(sent[u]) \subseteq Chat!Datagrams
             /\ Chat!Range(shown[u]) \subseteq Chat!Datagrams \cup {Chat!NoMsg}
             /\ slot[u] \in Chat!Datagrams \cup {Chat!NoMsg}
  <2>1. /\ flight[u] \in Seq(Chat!Datagrams) /\ sent[u] \in Seq(Chat!Datagrams)
        /\ shown[u] \in Seq(Chat!Datagrams \cup {Chat!NoMsg})
    BY <1>1 DEF ChatTypes
  <2>2. ASSUME NEW S, NEW s \in Seq(S) PROVE Chat!Range(s) \subseteq S
    BY <2>2 DEF Chat!Range
  <2>3. QED
    BY <1>1, <2>1, <2>2 DEF ChatTypes
<1>4. QED
  BY <1>1, <1>2, <1>3 DEF ChatTypes, Chat!TypeOK, MainPlaces

\* The copier's pipe is never overfull and holds at most one answer, one chat user per host has the
\* port, the device's message fits into its buffer, and the LEDs have values they can show.
THEOREM TypeCorrect == FairSpec => []TypeOK
<1>1. CopP!PipeAssumption /\ DevP!Sizes
  BY SystemsAssumption DEF CopP!PipeAssumption, DevP!Sizes
<1>2. DevP!IsFiniteSet(Procs)
  BY SystemsAssumption DEF DevP!IsFiniteSet, IsFiniteSet
<1>3. (CopP!Spec => []CopP!TypeOK) /\ (DevP!Spec => []DevP!TypeOK)
  BY <1>1, <1>2, CopP!TypeCorrect, DevP!TypeCorrect
<1>4. CopP!TypeOK => Copier!TypeOK
  BY DEF CopP!TypeOK, Copier!TypeOK
<1>5. DevP!TypeOK => Dev!TypeOK
  BY DEF DevP!TypeOK, Dev!TypeOK, DevP!Cells, Dev!Cells, DevP!Places, Dev!Places, DevP!Foreign,
         Dev!Foreign, DevP!Zero, Dev!Zero, DevP!Cardinality, Dev!Cardinality
<1>6. InRun("copier") /\ Copier!TypeOK => TypeOK
  BY DEF InRun, TypeOK
<1>7. InRun("dev") /\ Dev!TypeOK => TypeOK
  BY DEF InRun, TypeOK
<1>8. InRun("led") /\ LedInv => TypeOK
  BY DEF InRun, TypeOK, LedInv
<1>9. InRun("chat") /\ ChatInv => TypeOK
  BY ChatTypesHold DEF InRun, TypeOK
<1>10. InRun("dev") /\ [Next]_vars => InRun("dev")'
  BY OneProgram DEF InRun
<1>11. InRun("dev") /\ FairSpec => []InRun("dev")
  BY <1>10, Steps, PTL
<1>12. Init => InRun("copier") \/ InRun("chat") \/ InRun("dev") \/ InRun("led")
  BY DEF Init, InRun
<1>13. QED
  BY <1>3, <1>4, <1>5, <1>6, <1>7, <1>8, <1>9, <1>11, <1>12, Steps, CopierRuns, DevRuns, LedRuns, ChatRuns, PTL

=============================================================================
