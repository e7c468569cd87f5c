---------------------------- MODULE DeviceProofs ----------------------------
(***************************************************************************)
(* Theorems about Device, for any number of processes, any size of the      *)
(* buffer and of the calls, and any number of writes.                       *)
(*                                                                         *)
(*   1. Who runs into freed code or memory came through one of two windows, *)
(*      and while chrdev lives it counts its open files.                    *)
(*   2. What is read lies in the buffer and has been cleared or written,    *)
(*      whatever calls overlap and fail: everything below any offset that   *)
(*      is in use has been cleared or written, and stays so.                *)
(*   3. While the writes append, one after the other, readers see the log   *)
(*      of what was written: the message is that log at every moment, and   *)
(*      grows by bytes that are already there.                              *)
(*   4. Every variable keeps its type, if there are finitely many processes.*)
(***************************************************************************)
EXTENDS Device, TLAPS, FiniteSetTheorems, SequenceTheorems

Records == DOMAIN file = Procs /\ \A p \in Procs : "pc" \in DOMAIN file[p]

Holders == {p \in Procs : file[p].pc \notin {"none", "opening"}}

\* chrdev counts its open files while it lives; before that there are none, and
\* afterwards only those that came too late to be counted.
Counted ==
  kind = "chrdev" =>
    /\ module = "out" => (\A p \in Procs : file[p].pc = "none") /\ refs = 0
    /\ module = "live" => IsFiniteSet(Holders) /\ refs = Cardinality(Holders)
    /\ module \in {"going", "gone"} => Holders \subseteq late
    /\ ~alloc => module = "gone"
    /\ module \in {"out", "failed", "live", "going", "gone"}
    /\ module = "failed" => \A p \in Procs : file[p].pc = "none"

\* Who writes to the proc entry has the buffer, or came before it.
Buffered ==
  kind = "proc" =>
    /\ module \in {"cleared", "live"} => alloc
    /\ \A p \in Procs : Writing(p) /\ p \notin late => alloc

DInv ==
  /\ Records /\ Counted /\ Buffered
  /\ \A p \in Procs : file[p].pc = "oops" => p \in late

-----------------------------------------------------------------------------
\* p's file is at another place, the others stay.
Moves(p, places) ==
  /\ DOMAIN file' = Procs /\ "pc" \in DOMAIN file'[p] /\ file'[p].pc \in places
  /\ \A q \in Procs : q # p => file'[q] = file[q]

Working == {"idle", "copyout", "copyin", "store"}

\* A call that begins, goes on, ends, or runs into what is no longer there.
LEMMA WorkKeeps ==
  ASSUME DInv, NEW p \in Procs, kind' = kind, module' = module, refs' = refs, alloc' = alloc,
         late \subseteq late', file[p].pc \in Working, Moves(p, Working \cup {"oops"}),
         file'[p].pc = "oops" => p \in late,
         kind = "proc" /\ file'[p].pc \in {"copyin", "store"} /\ p \notin late' => alloc
  PROVE  DInv'
<1>1. Records'
  BY DEF DInv, Records, Moves
<1>2. Holders' = Holders
  BY DEF Holders, Moves, Working
<1>3. Counted'
  BY <1>2 DEF DInv, Counted, Moves, Working
<1>4. Buffered'
  BY DEF DInv, Buffered, Moves, Writing
<1>5. \A q \in Procs : file'[q].pc = "oops" => q \in late'
  BY DEF DInv, Moves
<1>6. QED
  BY <1>1, <1>3, <1>4, <1>5 DEF DInv

\* The processes that run into freed code have come too late.
LEMMA OopsKeeps ==
  ASSUME DInv, kind \in {"chrdev", "proc"}, NEW p \in Procs, Oops(p), file[p].pc \in Working,
         Missing \/ (Writing(p) /\ ~alloc)
  PROVE  DInv'
<1>1. Moves(p, {"oops"})
  BY DEF Oops, DInv, Records, Moves
<1>2. p \in late
  <2>1. CASE kind = "chrdev"
    <3>1. module = "gone" /\ p \in Holders
      BY <2>1 DEF DInv, Counted, Missing, Holders, Working
    <3>2. QED
      BY <2>1, <3>1 DEF DInv, Counted
  <2>2. CASE kind = "proc"
    BY <2>2 DEF DInv, Buffered, Missing
  <2>3. QED
    BY <2>1, <2>2
<1>3. QED
  BY <1>1, <1>2, WorkKeeps DEF Oops, Moves

LEMMA CallKeeps ==
  ASSUME DInv, kind \in {"chrdev", "proc"}, NEW p \in Procs, NEW n,
         \/ ReadBegin(p, n) \/ ReadByte(p) \/ ReadFault(p)
         \/ WriteBegin(p, n) \/ WriteByte(p) \/ WriteFault(p) \/ StoreLen(p) \/ StoreZero(p)
  PROVE  DInv'
<1> USE DEF Working
<1>0. Records /\ Closed.pc = "none" /\ DOMAIN Closed = DOMAIN [Closed EXCEPT !.pc = "idle"]
  BY DEF DInv, Closed
<1>a. ASSUME Oops(p), Missing \/ (Writing(p) /\ ~alloc), file[p].pc \in Working PROVE DInv'
  BY <1>a, OopsKeeps
<1>1. CASE ReadBegin(p, n)
  <2>1. CASE Missing /\ Oops(p)
    BY <1>a, <1>1, <2>1 DEF ReadBegin, Callable
  <2>2. CASE /\ UNCHANGED <<kind, module, refs, alloc, late>>
             /\ \E at, k : file' = [file EXCEPT ![p] = [file[p] EXCEPT !.pc = "copyout", !.at = at,
                                                                       !.n = k]]
    <3>1. Moves(p, {"copyout"})
      BY <1>0, <2>2 DEF Moves, Records
    <3>2. QED
      BY <1>1, <2>2, <3>1, WorkKeeps DEF Moves, ReadBegin, Callable
  <2>3. QED
    BY <1>1, <2>1, <2>2 DEF ReadBegin
<1>2. CASE ReadByte(p)
  <2>1. CASE Missing /\ Oops(p)
    BY <1>a, <1>2, <2>1 DEF ReadByte
  <2>2. CASE ~Missing
    <3>1. Moves(p, {"copyout", "idle"})
      BY <1>0, <1>2, <2>2 DEF ReadByte, Moves, Records, Closed
    <3>2. QED
      BY <1>2, <2>2, <3>1, WorkKeeps DEF ReadByte, Moves
  <2>3. QED
    BY <1>2, <2>1, <2>2 DEF ReadByte
<1>3. CASE ReadFault(p)
  <2>1. Moves(p, {"idle"})
    BY <1>0, <1>3 DEF ReadFault, Failed, Moves, Records, Closed
  <2>2. QED
    BY <1>3, <2>1, WorkKeeps DEF ReadFault, Moves
<1>4. CASE WriteBegin(p, n)
  <2>1. CASE Missing /\ Oops(p)
    BY <1>a, <1>4, <2>1 DEF WriteBegin, Callable
  <2>2. CASE ~Missing
    <3>1. Moves(p, {"copyin", "store"})
      BY <1>0, <1>4, <2>2 DEF WriteBegin, Moves, Records
    <3>2. late \subseteq late' /\ (kind = "proc" /\ p \notin late' => module = "live")
      BY <1>4, <2>2 DEF WriteBegin
    <3>3. kind = "proc" /\ p \notin late' => alloc
      BY <3>2 DEF DInv, Buffered
    <3>4. QED
      BY <1>4, <2>2, <3>1, <3>2, <3>3, WorkKeeps DEF WriteBegin, Moves, Callable
  <2>3. QED
    BY <1>4, <2>1, <2>2 DEF WriteBegin
<1>5. CASE WriteByte(p)
  <2>1. CASE (Missing \/ ~alloc) /\ Oops(p)
    BY <1>a, <1>5, <2>1 DEF WriteByte, Writing
  <2>2. CASE ~Missing /\ alloc
    <3>1. Moves(p, {"copyin", "store"})
      BY <1>0, <1>5, <2>2 DEF WriteByte, Moves, Records
    <3>2. QED
      BY <1>5, <2>2, <3>1, WorkKeeps DEF WriteByte, Moves
  <2>3. QED
    BY <1>5, <2>1, <2>2 DEF WriteByte
<1>6. CASE WriteFault(p)
  <2>1. Moves(p, {"idle"})
    BY <1>0, <1>6 DEF WriteFault, Failed, Moves, Records, Closed
  <2>2. QED
    BY <1>6, <2>1, WorkKeeps DEF WriteFault, Moves
<1>7. ASSUME NEW what, Stored(p, what), file[p].pc = "store" PROVE Moves(p, {"store", "idle"})
  BY <1>0, <1>7 DEF Stored, Moves, Records, Closed
<1>b. file[p].pc = "store" /\ kind = "proc" /\ p \notin late => alloc
  BY DEF DInv, Buffered, Writing
<1>8. CASE StoreLen(p)
  <2>1. CASE Missing /\ Oops(p)
    BY <1>a, <1>8, <2>1 DEF StoreLen
  <2>2. CASE ~Missing /\ Stored(p, "len")
    BY <1>7, <1>8, <1>b, <2>2, WorkKeeps DEF StoreLen, Moves
  <2>3. QED
    BY <1>8, <2>1, <2>2 DEF StoreLen
<1>9. CASE StoreZero(p)
  <2>1. CASE (Missing \/ ~alloc) /\ Oops(p)
    BY <1>a, <1>9, <2>1 DEF StoreZero, Writing
  <2>2. CASE ~Missing /\ Stored(p, "zero")
    <3>1. file[p].pc = "store" /\ Moves(p, {"store", "idle"})
      BY <1>7, <1>9, <2>2 DEF StoreZero
    <3>2. UNCHANGED <<kind, module, refs, alloc, late>>
      BY <1>9, <2>2, <3>1 DEF StoreZero, Oops, Moves
    <3>3. QED
      BY <1>b, <3>1, <3>2, WorkKeeps DEF Moves
  <2>3. QED
    BY <1>9, <2>1, <2>2 DEF StoreZero
<1>10. QED
  BY <1>1, <1>2, <1>3, <1>4, <1>5, <1>6, <1>8, <1>9

-----------------------------------------------------------------------------
\* open and release keep the count.
LEMMA OpenKeeps ==
  ASSUME DInv, NEW p \in Procs, NEW append, Open(p, append)
  PROVE  DInv'
<1>1. Moves(p, {"opening", "idle"}) /\ (kind = "chrdev" => file'[p].pc = "opening")
  BY DEF Open, DInv, Records, Moves, Closed
<1>2. Records'
  BY <1>1 DEF DInv, Records, Moves
<1>3. Counted'
  <2>1. SUFFICES ASSUME kind = "chrdev" PROVE Counted'
    BY DEF Counted, Open
  <2>2. Holders' = Holders /\ p \notin Holders
    BY <1>1, <2>1 DEF Holders, Moves, Open
  <2>3. QED
    BY <2>1, <2>2 DEF DInv, Counted, Open, Named
<1>4. Buffered'
  BY <1>1 DEF DInv, Buffered, Moves, Writing, Open
<1>5. \A q \in Procs : file'[q].pc = "oops" => q \in late'
  BY <1>1 DEF DInv, Moves, Open
<1>6. QED
  BY <1>2, <1>3, <1>4, <1>5 DEF DInv

LEMMA DeviceOpenKeeps ==
  ASSUME DInv, NEW p \in Procs, DeviceOpen(p)
  PROVE  DInv'
<1>1. Moves(p, {"idle", "oops"}) /\ file[p].pc = "opening"
  BY DEF DeviceOpen, DInv, Records, Moves
<1>2. /\ kind' = kind /\ module' = module /\ alloc' = alloc
      /\ \/ module # "live" /\ late' = late \cup {p} /\ refs' = refs
         \/ module = "live" /\ late' = late /\ refs' = refs + 1 /\ file'[p].pc = "idle"
  BY DEF DeviceOpen, Missing, DInv, Records
<1>3. Records'
  BY <1>1 DEF DInv, Records, Moves
<1>4. Holders' = Holders \cup {p} /\ p \notin Holders
  BY <1>1 DEF Holders, Moves
<1>5. Counted'
  <2>1. CASE module = "live"
    BY <1>2, <1>4, <2>1, FS_AddElement DEF DInv, Counted
  <2>2. CASE module # "live"
    BY <1>1, <1>2, <1>4, <2>2 DEF DInv, Counted
  <2>3. QED
    BY <2>1, <2>2
<1>6. Buffered'
  BY <1>1, <1>2 DEF DInv, Buffered, Moves, Writing
<1>7. \A q \in Procs : file'[q].pc = "oops" => q \in late'
  BY <1>1, <1>2 DEF DInv, Moves
<1>8. QED
  BY <1>3, <1>5, <1>6, <1>7 DEF DInv

LEMMA ReleaseKeeps ==
  ASSUME DInv, kind \in {"chrdev", "proc"}, NEW p \in Procs, Release(p)
  PROVE  DInv'
<1>1. CASE Missing /\ Oops(p)
  BY <1>1, OopsKeeps DEF Release, Working
<1>2. CASE ~Missing
  <2>1. Moves(p, {"none"}) /\ file[p].pc = "idle"
    BY <1>2 DEF Release, DInv, Records, Moves, Closed
  <2>2. /\ kind' = kind /\ module' = module /\ alloc' = alloc /\ late' = late
        /\ refs' = IF kind = "chrdev" /\ refs > 0 THEN refs - 1 ELSE refs
    BY <1>2 DEF Release
  <2>3. Records'
    BY <2>1 DEF DInv, Records, Moves
  <2>4. Holders' = Holders \ {p} /\ p \in Holders
    BY <2>1 DEF Holders, Moves
  <2>5. Counted'
    <3>1. CASE kind = "chrdev" /\ module = "live"
      <4>1. IsFiniteSet(Holders) /\ refs = Cardinality(Holders)
        BY <3>1 DEF DInv, Counted
      <4>2. Cardinality(Holders) \in Nat /\ Cardinality(Holders) # 0
        BY <2>4, <4>1, FS_CardinalityType, FS_EmptySet
      <4>3. IsFiniteSet(Holders') /\ Cardinality(Holders') = Cardinality(Holders) - 1
        BY <2>4, <4>1, FS_RemoveElement
      <4>4. refs' = Cardinality(Holders')
        BY <2>2, <3>1, <4>1, <4>2, <4>3
      <4>5. QED
        BY <2>2, <3>1, <4>3, <4>4 DEF DInv, Counted
    <3>2. CASE ~(kind = "chrdev" /\ module = "live")
      BY <2>1, <2>2, <2>4, <3>2 DEF DInv, Counted
    <3>3. QED
      BY <3>1, <3>2
  <2>6. Buffered'
    BY <2>1, <2>2 DEF DInv, Buffered, Moves, Writing
  <2>7. \A q \in Procs : file'[q].pc = "oops" => q \in late'
    BY <2>1, <2>2 DEF DInv, Moves
  <2>8. QED
    BY <2>3, <2>5, <2>6, <2>7 DEF DInv
<1>3. QED
  BY <1>1, <1>2 DEF Release

\* rmmod begins only when no file is open, or procfs waits for the handlers.
LEMMA ModuleKeeps ==
  ASSUME DInv,
         ChrdevInit \/ ProcCreate \/ ProcAlloc \/ ProcClear \/ Unload \/ Unloaded \/ UNCHANGED vars
  PROVE  DInv'
<1>1. file' = file /\ kind' = kind /\ refs' = refs /\ late' = late
  BY DEF ChrdevInit, ProcCreate, ProcAlloc, ProcClear, Unload, Unloaded, vars
<1>2. Holders' = Holders /\ Records' /\ \A q \in Procs : file'[q].pc = "oops" => q \in late'
  BY <1>1 DEF Holders, Records, DInv
<1>3. Counted'
  <2>1. CASE ChrdevInit
    <3>1. Holders = {} /\ refs = 0 /\ alloc' = alloc /\ module' \in {"live", "failed"}
      BY <2>1 DEF DInv, Counted, ChrdevInit, Holders
    <3>2. QED
      BY <1>1, <1>2, <2>1, <3>1, FS_EmptySet DEF DInv, Counted, ChrdevInit
  <2>2. CASE Unload /\ kind = "chrdev"
    <3>1. Holders = {}
      BY <2>2, FS_EmptySet DEF DInv, Counted, Unload
    <3>2. QED
      BY <1>1, <1>2, <2>2, <3>1 DEF DInv, Counted, Unload
  <2>3. CASE Unloaded
    BY <1>1, <1>2, <2>3 DEF DInv, Counted, Unloaded
  <2>4. CASE (Unload /\ kind # "chrdev") \/ ProcCreate \/ ProcAlloc \/ ProcClear
    BY <1>1, <2>4 DEF Counted, ProcCreate, ProcAlloc, ProcClear
  <2>5. CASE UNCHANGED vars
    BY <1>1, <1>2, <2>5 DEF DInv, Counted, vars
  <2>6. QED
    BY <2>1, <2>2, <2>3, <2>4, <2>5
<1>4. Buffered'
  BY <1>1 DEF DInv, Buffered, Writing, Inside, ChrdevInit, ProcCreate, ProcAlloc, ProcClear, Unload,
              Unloaded, vars
<1>5. QED
  BY <1>2, <1>3, <1>4 DEF DInv

-----------------------------------------------------------------------------
CodeInv == DInv /\ kind \in {"chrdev", "proc"}

LEMMA CodeInit == ASSUME Init PROVE CodeInv
<1>1. DOMAIN file = Procs /\ \A p \in Procs : file[p] = Closed
  BY DEF Init
<1>2. \A p \in Procs : "pc" \in DOMAIN file[p] /\ file[p].pc = "none"
  BY <1>1 DEF Closed
<1>3. QED
  BY <1>1, <1>2 DEF Init, CodeInv, DInv, Records, Counted, Buffered, Writing

LEMMA CodeStep == ASSUME CodeInv, [Next]_vars PROVE CodeInv'
<1> USE DEF CodeInv
<1>1. CASE \/ ChrdevInit \/ ProcCreate \/ ProcAlloc \/ ProcClear \/ Unload \/ Unloaded
           \/ UNCHANGED vars
  <2>1. kind' = kind
    BY <1>1 DEF ChrdevInit, ProcCreate, ProcAlloc, ProcClear, Unload, Unloaded, vars
  <2>2. QED
    BY <1>1, <2>1, ModuleKeeps
<1>2. ASSUME NEW p \in Procs, NEW append \in BOOLEAN, Open(p, append) PROVE CodeInv'
  BY <1>2, OpenKeeps DEF Open
<1>3. ASSUME NEW p \in Procs, DeviceOpen(p) \/ Release(p) PROVE CodeInv'
  BY <1>3, DeviceOpenKeeps, ReleaseKeeps DEF DeviceOpen, Release, Oops
<1>4. CASE \E p \in Procs : DeviceOpen(p) \/ Release(p) \/ \E append \in BOOLEAN : Open(p, append)
  BY <1>2, <1>3, <1>4
<1>5. CASE \E p \in Procs : \/ ReadByte(p) \/ ReadFault(p) \/ WriteByte(p) \/ WriteFault(p)
                            \/ StoreLen(p) \/ StoreZero(p)
  <2>1. kind' = kind
    BY <1>5 DEF ReadByte, ReadFault, WriteByte, WriteFault, StoreLen, StoreZero, Oops
  <2>2. QED
    BY <1>5, <2>1, CallKeeps
<1>6. CASE \E p \in Procs : \/ \E n \in 1 .. MaxCount : ReadBegin(p, n)
                            \/ \E n \in 0 .. MaxCount : WriteBegin(p, n)
  <2>1. kind' = kind
    BY <1>6 DEF ReadBegin, WriteBegin, Oops
  <2>2. QED
    BY <1>6, <2>1, CallKeeps
<1>7. QED
  BY <1>1, <1>4, <1>5, <1>6 DEF Next

LEMMA CodeSays == ASSUME CodeInv PROVE CodeThere
BY DEF CodeInv, DInv, Counted, CodeThere, Holders

\* Nobody runs into freed code or memory, but through the two windows at chrdev.c:71 and
\* proc.c:78-85; while chrdev lives its count is the number of open files.
THEOREM CodeIsThere == Spec => []CodeThere
<1>1. Init => CodeInv
  BY CodeInit
<1>2. CodeInv /\ [Next]_vars => CodeInv'
  BY CodeStep
<1>3. CodeInv => CodeThere
  BY CodeSays
<1>4. QED
  BY <1>1, <1>2, <1>3, PTL DEF Spec

-----------------------------------------------------------------------------
(* What is read and written.                                               *)

Sizes == Size \in Nat /\ MaxCount \in Nat /\ MaxWrites \in Nat

\* An open file and the call it is in.
Handles ==
  [pc : Places, append : BOOLEAN, off : 0 .. Size, at : 0 .. Size, n : 0 .. Size, k : 0 .. Size,
   id : 0 .. MaxWrites, part : SUBSET ((0 .. Size - 1) \X (0 .. MaxWrites)),
   todo : SUBSET {"len", "zero"}]

\* The types of what the handlers share; only a terminator gets behind the buffer.
Data ==
  /\ msg \in [0 .. Size -> Cells] /\ msg[Size] \in {Foreign, Zero} /\ len \in 0 .. Size
  /\ file \in [Procs -> Handles]
  /\ got \in [Procs -> SUBSET ((0 .. Size - 1) \X (0 .. MaxWrites))]
  /\ writes \in 0 .. MaxWrites /\ calm \in BOOLEAN /\ log \in Seq(Nat)

\* Everything below n has been cleared or written.
Solid(n) == \A i \in 0 .. n - 1 : msg[i] # Foreign

\* What a handler is going to read has been cleared or written, and so has what it has
\* written so far; what it is going to write is inside the buffer.
Inbound(f) ==
  /\ Solid(f.off)
  /\ f.pc \in {"opening", "idle"} => f.k = 0
  /\ f.pc = "copyout" => f.k < f.n /\ f.at + f.n <= Size /\ Solid(f.at + f.n)
  /\ f.pc = "copyin" => f.k < f.n /\ f.at + f.n <= Size /\ Solid(f.at + f.k)
  /\ f.pc = "store" => f.at + f.n <= Size /\ Solid(f.at + f.n)

Bounded == Data /\ Solid(len) /\ \A p \in Procs : Inbound(file[p])

\* What has been read, or is about to be, is in the log.
Reads(p) ==
  /\ \A x \in got[p] \cup file[p].part : x[1] < len /\ x[2] = log[x[1] + 1]
  /\ file[p].pc = "copyout" => file[p].at + file[p].n <= len

\* A write adds its bytes behind the message, and then makes the message longer.
Appends(f) ==
  /\ f.pc = "copyin" =>
       f.at = len /\ "len" \in f.todo /\ \A i \in f.at .. f.at + f.k - 1 : msg[i] = f.id
  /\ f.pc = "store" /\ "len" \in f.todo =>
       f.at = len /\ \A i \in f.at .. f.at + f.n - 1 : msg[i] = f.id
  /\ f.pc = "store" /\ "len" \notin f.todo => f.at + f.n = len

\* The message is the log.
Same == Len(log) = len /\ \A i \in 0 .. len - 1 : msg[i] = log[i + 1]

OneWriter == \A p, q \in Procs : Writing(p) /\ Writing(q) => p = q

Logged == calm => Same /\ OneWriter /\ \A p \in Procs : Reads(p) /\ Appends(file[p])

\* Before the first write nothing can be read.
Early == writes = 0 => calm /\ len = 0 /\ \A p \in Procs : ~Writing(p)

MsgInv == Bounded /\ Logged /\ Early

-----------------------------------------------------------------------------
\* The buffer is never spoilt: what has been cleared or written stays so.
Better ==
  /\ msg' \in [0 .. Size -> Cells] /\ msg'[Size] \in {Foreign, Zero}
  /\ \A i \in 0 .. Size - 1 : msg[i] # Foreign => msg'[i] # Foreign

Others(p) == \A q \in Procs \ {p} : file'[q] = file[q]

LEMMA SolidStays ==
  ASSUME Sizes, Better, NEW n \in 0 .. Size, Solid(n)
  PROVE  \A i \in 0 .. n - 1 : msg'[i] # Foreign
BY DEF Sizes, Better, Solid

LEMMA InboundStays ==
  ASSUME Sizes, Data, Better, NEW q \in Procs, file'[q] = file[q], Inbound(file[q])
  PROVE  Inbound(file[q])'
<1>1. PICK f \in Handles : f = file[q]
  BY DEF Data
<1>2. f.off \in 0 .. Size /\ f.at \in 0 .. Size /\ f.n \in 0 .. Size /\ f.k \in 0 .. Size
  BY DEF Handles
<1>3. \A n \in 0 .. Size : Solid(n) => \A i \in 0 .. n - 1 : msg'[i] # Foreign
  BY SolidStays
<1>4. /\ f.at + f.n <= Size => f.at + f.n \in 0 .. Size
      /\ f.k < f.n /\ f.at + f.n <= Size => f.at + f.k \in 0 .. Size
  BY <1>2 DEF Sizes
<1>5. QED
  BY <1>1, <1>2, <1>3, <1>4 DEF Inbound, Solid

LEMMA BoundedBy ==
  ASSUME Sizes, Bounded, Better, Data', NEW p \in Procs, Others(p), Inbound(file[p])', Solid(len)'
  PROVE  Bounded'
<1>1. ASSUME NEW q \in Procs, q # p PROVE Inbound(file[q])'
  BY <1>1, InboundStays DEF Others, Bounded
<1>2. QED
  BY <1>1 DEF Bounded

\* When msg and len stay, it is enough to look at the file that changes.
LEMMA BoundedCall ==
  ASSUME Sizes, Bounded, Data', NEW p \in Procs, Others(p), Inbound(file[p])',
         msg' = msg, len' = len
  PROVE  Bounded'
<1>1. Better
  BY DEF Better, Bounded, Data
<1>2. Solid(len)'
  BY DEF Bounded, Solid
<1>3. QED
  BY <1>1, <1>2, BoundedBy

LEMMA Sets ==
  ASSUME NEW p \in Procs, NEW f, NEW S, file \in [Procs -> S], f \in S, file' = [file EXCEPT ![p] = f]
  PROVE  file' \in [Procs -> S] /\ file'[p] = f /\ Others(p)
BY DEF Others

LEMMA OopsBounded ==
  ASSUME Sizes, Bounded, NEW p \in Procs, Oops(p)
  PROVE  Bounded'
<1>1. PICK f \in Handles : f = file[p]
  BY DEF Bounded, Data
<1>2. PICK g : g = [f EXCEPT !.pc = "oops"]
  OBVIOUS
<1>3. g \in Handles
  BY <1>2 DEF Handles, Places
<1>4. file' = [file EXCEPT ![p] = g]
  BY <1>1, <1>2 DEF Oops
<1>5. file' \in [Procs -> Handles] /\ file'[p] = g /\ Others(p)
  BY <1>3, <1>4, Sets DEF Bounded, Data
<1>6. Data'
  BY <1>5 DEF Bounded, Data, Oops
<1>7. Inbound(f) /\ g.off = f.off /\ g.pc = "oops"
  BY <1>1, <1>2 DEF Bounded, Handles
<1>8. Inbound(file[p])'
  BY <1>5, <1>7 DEF Inbound, Solid, Oops
<1>9. QED
  BY <1>5, <1>6, <1>8, BoundedCall DEF Oops

LEMMA ClosedIsFile == Sizes => Closed \in Handles /\ Closed.k = 0 /\ Closed.part = {}
BY DEF Closed, Handles, Sizes, Places

\* A file after a call.
After(f, off) == [Closed EXCEPT !.pc = "idle", !.append = f.append, !.off = off]

LEMMA AfterCall ==
  ASSUME Sizes, NEW f \in Handles, NEW off \in 0 .. Size, NEW g, g = After(f, off)
  PROVE  g \in Handles /\ g.off = off /\ g.pc = "idle" /\ g.k = 0 /\ g.part = {}
<1>1. "idle" \in Places
  BY DEF Places
<1>2. PICK c \in Handles : c = Closed /\ c.k = 0 /\ c.part = {}
  BY ClosedIsFile
<1>3. g = [c EXCEPT !.pc = "idle", !.append = f.append, !.off = off]
  BY <1>2 DEF After
<1>4. f.append \in BOOLEAN
  BY DEF Handles
<1>5. g = [append |-> f.append, pc |-> "idle", off |-> off, at |-> c.at, n |-> c.n, k |-> c.k,
           id |-> c.id, part |-> c.part, todo |-> c.todo]
  BY <1>2, <1>3 DEF Handles
<1>6. QED
  BY <1>1, <1>2, <1>4, <1>5 DEF Handles

LEMMA OpenBounded ==
  ASSUME Sizes, Bounded, NEW p \in Procs, NEW append \in BOOLEAN, Open(p, append)
  PROVE  Bounded'
<1>1. PICK g : g = [Closed EXCEPT !.append = append,
                                  !.pc = IF kind = "chrdev" THEN "opening" ELSE "idle"]
  OBVIOUS
<1>2. g \in Handles /\ g.off = 0 /\ g.k = 0 /\ g.pc \in {"opening", "idle"}
  <2>1. PICK pc : pc = IF kind = "chrdev" THEN "opening" ELSE "idle"
    OBVIOUS
  <2>2. pc \in Places /\ pc \in {"opening", "idle"}
    BY <2>1 DEF Places
  <2>3. PICK f \in Handles : f = Closed /\ f.k = 0 /\ f.off = 0
    BY ClosedIsFile DEF Closed
  <2>4. g = [f EXCEPT !.append = append, !.pc = pc]
    BY <1>1, <2>1, <2>3
  <2>5. QED
    BY <2>2, <2>3, <2>4 DEF Handles
<1>3. file' = [file EXCEPT ![p] = g]
  BY <1>1 DEF Open
<1>4. file' \in [Procs -> Handles] /\ file'[p] = g /\ Others(p)
  BY <1>2, <1>3, Sets DEF Bounded, Data
<1>5. Data'
  BY <1>4 DEF Bounded, Data, Open
<1>6. Inbound(file[p])'
  BY <1>2, <1>4 DEF Inbound, Solid
<1>7. QED
  BY <1>4, <1>5, <1>6, BoundedCall DEF Open

\* A call that ends, or an open or close: p's file is as before, but for where it is.
LEMMA RestBounded ==
  ASSUME Sizes, Bounded, NEW p \in Procs, NEW g \in Handles, file' = [file EXCEPT ![p] = g],
         UNCHANGED <<msg, len, writes, calm, log>>,
         got' \in [Procs -> SUBSET ((0 .. Size - 1) \X (0 .. MaxWrites))],
         g.pc \in {"none", "idle", "oops"}, g.pc = "idle" => g.k = 0, Solid(g.off)
  PROVE  Bounded'
<1>1. file' \in [Procs -> Handles] /\ file'[p] = g /\ Others(p)
  BY Sets DEF Bounded, Data
<1>2. Data'
  BY <1>1 DEF Bounded, Data
<1>3. Inbound(file[p])'
  BY <1>1 DEF Inbound, Solid
<1>4. QED
  BY <1>1, <1>2, <1>3, BoundedCall

LEMMA OpenedBounded ==
  ASSUME Sizes, Bounded, NEW p \in Procs, DeviceOpen(p) \/ Release(p)
  PROVE  Bounded'
<1>1. PICK f \in Handles : f = file[p] /\ Inbound(f)
  BY DEF Bounded, Data
<1>2. CASE DeviceOpen(p)
  <2>1. PICK g : file' = [file EXCEPT ![p] = g]
                 /\ (g = [f EXCEPT !.pc = "oops"] \/ g = [f EXCEPT !.pc = "idle"])
    BY <1>1, <1>2 DEF DeviceOpen
  <2>2. g \in Handles /\ g.pc \in {"idle", "oops"} /\ g.k = f.k /\ g.off = f.off
    BY <2>1 DEF Handles, Places
  <2>3. f.k = 0 /\ Solid(f.off)
    BY <1>1, <1>2 DEF Inbound, DeviceOpen
  <2>4. UNCHANGED <<msg, len, writes, calm, log, got>>
    BY <1>2 DEF DeviceOpen
  <2>5. QED
    BY <2>1, <2>2, <2>3, <2>4, RestBounded DEF Bounded, Data
<1>3. CASE Release(p) /\ ~Missing
  <2>1. Closed \in Handles /\ Closed.pc = "none" /\ Closed.off = 0
    BY DEF Sizes, Handles, Places, Closed
  <2>2. file' = [file EXCEPT ![p] = Closed] /\ UNCHANGED <<msg, len, writes, calm, log, got>>
    BY <1>3 DEF Release
  <2>3. Solid(Closed.off)
    BY <2>1 DEF Solid
  <2>4. QED
    BY <2>1, <2>2, <2>3, RestBounded DEF Bounded, Data
<1>4. QED
  BY <1>2, <1>3, OopsBounded DEF Release

LEMMA ReadBeginBounded ==
  ASSUME Sizes, Bounded, NEW p \in Procs, NEW n \in 1 .. MaxCount, ReadBegin(p, n)
  PROVE  Bounded'
<1>1. PICK f \in Handles : f = file[p] /\ Inbound(f)
  BY DEF Bounded, Data
<1>2. CASE ~Missing
  <2>1. PICK c : c = Count(n, len - f.off)
    OBVIOUS
  <2>2. f.off < len /\ f.pc = "idle" /\ f.k = 0
    BY <1>1, <1>2 DEF ReadBegin, Callable, Inbound
  <2>3. f.off \in 0 .. Size /\ len \in 0 .. Size
    BY DEF Handles, Bounded, Data
  <2>4. c \in 1 .. Size /\ f.off + c <= len
    BY <2>1, <2>2, <2>3 DEF Count, Sizes
  <2>5. PICK g : g = [f EXCEPT !.pc = "copyout", !.at = f.off, !.n = c]
    OBVIOUS
  <2>6. g \in Handles
    <3>1. c \in 0 .. Size /\ "copyout" \in Places
      BY <2>4 DEF Places
    <3>2. QED
      BY <2>3, <2>5, <3>1 DEF Handles
  <2>7. g.pc = "copyout" /\ g.at = f.off /\ g.n = c /\ g.k = 0 /\ g.off = f.off
    BY <2>2, <2>5 DEF Handles
  <2>8. file' = [file EXCEPT ![p] = g]
    BY <1>1, <1>2, <2>1, <2>5 DEF ReadBegin
  <2>9. file' \in [Procs -> Handles] /\ file'[p] = g /\ Others(p)
    BY <2>6, <2>8, Sets DEF Bounded, Data
  <2>10. UNCHANGED <<msg, len, got, writes, calm, log>>
    BY <1>2 DEF ReadBegin
  <2>11. Data'
    BY <2>9, <2>10 DEF Bounded, Data
  <2>12. Solid(len) /\ Solid(f.off) /\ len \in 0 .. Size
    BY <1>1, <2>3 DEF Bounded, Inbound
  <2>13. Inbound(file[p])'
    BY <2>3, <2>4, <2>7, <2>9, <2>10, <2>12 DEF Inbound, Solid, Sizes
  <2>14. QED
    BY <2>9, <2>10, <2>11, <2>13, BoundedCall
<1>3. QED
  BY <1>2, OopsBounded DEF ReadBegin

LEMMA ReadByteBounded ==
  ASSUME Sizes, Bounded, NEW p \in Procs, ReadByte(p)
  PROVE  Bounded'
<1>1. PICK f \in Handles : f = file[p] /\ Inbound(f)
  BY DEF Bounded, Data
<1>2. CASE ~Missing
  <2>1. PICK part : part = f.part \cup {<<f.at + f.k, msg[f.at + f.k]>>}
    OBVIOUS
  <2>2. /\ f.pc = "copyout" /\ f.k < f.n /\ f.at + f.n <= Size /\ Solid(f.at + f.n)
        /\ f.k \in 0 .. Size /\ f.at \in 0 .. Size /\ f.n \in 0 .. Size
        /\ f.part \in SUBSET ((0 .. Size - 1) \X (0 .. MaxWrites))
    BY <1>1, <1>2 DEF ReadByte, Inbound, Handles
  <2>3. msg[f.at + f.k] \in 0 .. MaxWrites
    <3>1. f.at + f.k \in 0 .. Size /\ f.at + f.k \in 0 .. (f.at + f.n) - 1
      BY <2>2 DEF Sizes
    <3>2. msg[f.at + f.k] \in Cells
      BY <3>1 DEF Bounded, Data
    <3>3. msg[f.at + f.k] # Foreign
      BY <2>2, <3>1 DEF Solid
    <3>4. QED
      BY <3>2, <3>3 DEF Cells
  <2>4. f.at + f.k \in 0 .. Size - 1
    BY <2>2 DEF Sizes
  <2>5. part \in SUBSET ((0 .. Size - 1) \X (0 .. MaxWrites))
    BY <2>1, <2>2, <2>3, <2>4
  <2>6. CASE f.k + 1 < f.n
    <3>1. PICK g : g = [f EXCEPT !.k = f.k + 1, !.part = part]
      OBVIOUS
    <3>2. g \in Handles
      <4>1. f.k + 1 \in 0 .. Size
        BY <2>2, <2>6 DEF Sizes
      <4>2. QED
        BY <2>5, <3>1, <4>1 DEF Handles
    <3>3. g.pc = "copyout" /\ g.at = f.at /\ g.n = f.n /\ g.k = f.k + 1 /\ g.off = f.off
      BY <2>2, <3>1 DEF Handles
    <3>4. file' = [file EXCEPT ![p] = g] /\ UNCHANGED <<msg, len, got, writes, calm, log>>
      BY <1>1, <1>2, <2>1, <2>2, <2>6, <3>1 DEF ReadByte
    <3>5. file' \in [Procs -> Handles] /\ file'[p] = g /\ Others(p)
      BY <3>2, <3>4, Sets DEF Bounded, Data
    <3>6. Data'
      BY <3>4, <3>5 DEF Bounded, Data
    <3>7. Inbound(file[p])'
      BY <1>1, <2>2, <2>6, <3>3, <3>4, <3>5 DEF Inbound, Solid
    <3>8. QED
      BY <3>4, <3>5, <3>6, <3>7, BoundedCall
  <2>7. CASE f.k + 1 >= f.n
    <3>1. PICK g : g = After(f, f.at + f.n)
      OBVIOUS
    <3>2. f.at + f.n \in 0 .. Size
      BY <2>2 DEF Sizes
    <3>3. g \in Handles /\ g.pc = "idle" /\ g.k = 0 /\ g.off = f.at + f.n
      BY <3>1, <3>2, AfterCall
    <3>4. file' = [file EXCEPT ![p] = g] /\ UNCHANGED <<msg, len, writes, calm, log>>
      BY <1>1, <1>2, <2>2, <2>7, <3>1 DEF ReadByte, After
    <3>5. got' = [got EXCEPT ![p] = @ \cup part]
      BY <1>1, <1>2, <2>1, <2>2, <2>7 DEF ReadByte
    <3>6. got' \in [Procs -> SUBSET ((0 .. Size - 1) \X (0 .. MaxWrites))]
      BY <2>5, <3>5 DEF Bounded, Data
    <3>7. QED
      BY <2>2, <3>3, <3>4, <3>6, RestBounded
  <2>8. f.k + 1 < f.n \/ f.k + 1 >= f.n
    BY <2>2
  <2>9. QED
    BY <2>6, <2>7, <2>8
<1>3. QED
  BY <1>2, OopsBounded DEF ReadByte

LEMMA ReadFaultBounded ==
  ASSUME Sizes, Bounded, NEW p \in Procs, ReadFault(p)
  PROVE  Bounded'
<1>1. PICK f \in Handles : f = file[p] /\ Inbound(f)
  BY DEF Bounded, Data
<1>2. PICK g : g = After(f, f.off)
  OBVIOUS
<1>3. g \in Handles /\ g.pc = "idle" /\ g.k = 0 /\ g.off = f.off
  BY <1>2, AfterCall DEF Handles
<1>4. file' = [file EXCEPT ![p] = g] /\ UNCHANGED <<msg, len, writes, calm, log, got>>
  BY <1>1, <1>2 DEF ReadFault, Failed, After
<1>5. QED
  BY <1>1, <1>3, <1>4, RestBounded DEF Inbound, Bounded, Data

LEMMA WriteBeginBounded ==
  ASSUME Sizes, Bounded, NEW p \in Procs, NEW n \in 0 .. MaxCount, WriteBegin(p, n)
  PROVE  Bounded'
<1>1. PICK f \in Handles : f = file[p] /\ Inbound(f)
  BY DEF Bounded, Data
<1>2. CASE ~Missing
  <2>1. PICK at : at = IF f.append THEN len ELSE f.off
    OBVIOUS
  <2>2. /\ at \in 0 .. Size /\ Solid(at) /\ n \in Nat
        /\ f.pc = "idle" /\ f.k = 0 /\ at + n <= Size
        /\ writes + 1 \in 0 .. MaxWrites
    <3>1. len \in 0 .. Size /\ f.off \in 0 .. Size /\ Solid(len) /\ Solid(f.off)
      BY <1>1 DEF Bounded, Data, Handles, Inbound
    <3>2. f.pc = "idle" /\ f.k = 0
      BY <1>1, <1>2 DEF WriteBegin, Callable, Inbound
    <3>3. Fits(at, n) /\ writes < MaxWrites
      BY <1>1, <1>2, <2>1 DEF WriteBegin
    <3>4. writes + 1 \in 0 .. MaxWrites
      BY <3>3 DEF Bounded, Data, Sizes
    <3>5. QED
      BY <2>1, <3>1, <3>2, <3>3, <3>4 DEF Fits, Sizes
  <2>3. PICK pc : pc = IF n = 0 THEN "store" ELSE "copyin"
    OBVIOUS
  <2>4. PICK g : g = [f EXCEPT !.at = at, !.n = n, !.id = writes + 1, !.pc = pc,
                               !.todo = {"len", "zero"}]
    OBVIOUS
  <2>5. n \in 0 .. Size /\ pc \in Places
    BY <2>2, <2>3 DEF Places, Sizes
  <2>6. g \in Handles
    BY <2>2, <2>4, <2>5 DEF Handles
  <2>7. /\ g.pc = pc /\ g.at = at /\ g.n = n /\ g.k = 0 /\ g.off = f.off
        /\ g.append = f.append /\ g.id = writes + 1
    BY <2>2, <2>4 DEF Handles
  <2>8. writes' = writes + 1
    BY <1>2 DEF WriteBegin
  <2>9. file' = [file EXCEPT ![p] = g]
    BY <1>1, <1>2, <2>1, <2>3, <2>4, <2>8 DEF WriteBegin
  <2>10. file' \in [Procs -> Handles] /\ file'[p] = g /\ Others(p)
    BY <2>6, <2>9, Sets DEF Bounded, Data
  <2>11. UNCHANGED <<msg, len, got, log>> /\ calm' \in BOOLEAN
    BY <1>2 DEF WriteBegin, Bounded, Data
  <2>12. Data'
    BY <2>2, <2>8, <2>10, <2>11 DEF Bounded, Data
  <2>13. Inbound(file[p])'
    <3>1. /\ Solid(g.off)
          /\ g.pc = "copyin" => g.k < g.n /\ g.at + g.n <= Size /\ Solid(g.at + g.k)
          /\ g.pc = "store" => g.at + g.n <= Size /\ Solid(g.at + g.n)
          /\ g.pc \in {"copyin", "store"}
      <4>1. Solid(f.off)
        BY <1>1 DEF Inbound
      <4>2. at + 0 = at
        BY <2>2
      <4>3. QED
        BY <2>2, <2>3, <2>7, <4>1, <4>2
    <3>2. QED
      BY <2>10, <2>11, <3>1 DEF Inbound, Solid
  <2>14. QED
    BY <2>10, <2>11, <2>12, <2>13, BoundedCall
<1>3. QED
  BY <1>2, OopsBounded DEF WriteBegin

LEMMA WriteByteBounded ==
  ASSUME Sizes, Bounded, NEW p \in Procs, WriteByte(p)
  PROVE  Bounded'
<1>1. PICK f \in Handles : f = file[p] /\ Inbound(f)
  BY DEF Bounded, Data
<1>2. CASE ~Missing /\ alloc
  <2>1. /\ f.pc = "copyin" /\ f.k < f.n /\ f.at + f.n <= Size /\ Solid(f.at + f.k)
        /\ f.k \in 0 .. Size /\ f.at \in 0 .. Size /\ f.n \in 0 .. Size /\ f.off \in 0 .. Size
        /\ f.id \in 0 .. MaxWrites /\ Solid(f.off)
    BY <1>1, <1>2 DEF WriteByte, Inbound, Handles
  <2>2. msg' = [msg EXCEPT ![f.at + f.k] = f.id] /\ UNCHANGED <<len, got, writes, calm, log>>
    BY <1>1, <1>2, <2>1 DEF WriteByte
  <2>3. f.at + f.k \in 0 .. Size - 1 /\ f.k + 1 \in 0 .. Size
    BY <2>1 DEF Sizes
  <2>4. Better
    <3>1. msg \in [0 .. Size -> Cells] /\ msg[Size] \in {Foreign, Zero}
      BY DEF Bounded, Data
    <3>2. f.id \in Cells /\ f.id # Foreign
      BY <2>1 DEF Cells, Foreign, Sizes
    <3>3. msg' \in [0 .. Size -> Cells]
      BY <2>2, <3>1, <3>2
    <3>4. Size \in 0 .. Size /\ f.at + f.k # Size
      BY <2>3 DEF Sizes
    <3>5. msg'[Size] \in {Foreign, Zero}
      BY <2>2, <3>1, <3>4
    <3>6. \A i \in 0 .. Size - 1 : msg[i] # Foreign => msg'[i] # Foreign
      BY <2>2, <3>1, <3>2
    <3>7. QED
      BY <3>3, <3>5, <3>6 DEF Better
  <2>5. PICK pc : pc = IF f.k + 1 = f.n THEN "store" ELSE "copyin"
    OBVIOUS
  <2>6. PICK g : g = [f EXCEPT !.k = f.k + 1, !.pc = pc]
    OBVIOUS
  <2>7. pc \in Places
    BY <2>5 DEF Places
  <2>8. /\ g \in Handles /\ g.pc = pc /\ g.k = f.k + 1 /\ g.at = f.at /\ g.n = f.n
        /\ g.off = f.off /\ g.id = f.id
    BY <2>3, <2>6, <2>7 DEF Handles
  <2>9. file' = [file EXCEPT ![p] = g]
    BY <1>1, <1>2, <2>1, <2>5, <2>6 DEF WriteByte
  <2>10. file' \in [Procs -> Handles] /\ file'[p] = g /\ Others(p)
    BY <2>8, <2>9, Sets DEF Bounded, Data
  <2>11. Data'
    BY <2>2, <2>4, <2>10 DEF Better, Bounded, Data
  <2>12. Solid(len)'
    BY <2>2, <2>4, SolidStays DEF Bounded, Data, Solid
  <2>13. \A i \in 0 .. f.off - 1 : msg'[i] # Foreign
    BY <2>1, <2>4, SolidStays
  <2>14. \A i \in 0 .. (f.at + f.k + 1) - 1 : msg'[i] # Foreign
    <3>1. f.at + f.k \in 0 .. Size
      BY <2>3 DEF Sizes
    <3>2. \A i \in 0 .. (f.at + f.k) - 1 : msg'[i] # Foreign
      BY <2>1, <2>4, <3>1, SolidStays
    <3>3. msg'[f.at + f.k] # Foreign
      BY <2>1, <2>2, <2>3 DEF Bounded, Data, Foreign, Sizes
    <3>4. QED
      BY <2>3, <3>2, <3>3 DEF Sizes
  <2>15. /\ g.pc = "copyin" => g.k < g.n
         /\ g.pc = "store" => g.k = g.n
         /\ g.pc \in {"copyin", "store"} /\ g.at + g.n <= Size
         /\ g.at + g.k = f.at + f.k + 1
    BY <2>1, <2>5, <2>8
  <2>16. Inbound(file[p])'
    BY <2>8, <2>10, <2>13, <2>14, <2>15 DEF Inbound, Solid
  <2>17. QED
    BY <2>4, <2>10, <2>11, <2>12, <2>16, BoundedBy
<1>3. QED
  BY <1>2, OopsBounded DEF WriteByte

LEMMA WriteFaultBounded ==
  ASSUME Sizes, Bounded, NEW p \in Procs, WriteFault(p)
  PROVE  Bounded'
<1>1. PICK f \in Handles : f = file[p] /\ Inbound(f)
  BY DEF Bounded, Data
<1>2. /\ f.pc = "copyin" /\ f.at + f.n <= Size /\ Solid(f.off) /\ f.off \in 0 .. Size
      /\ f.k \in 0 .. Size /\ f.at \in 0 .. Size /\ f.n \in 0 .. Size
  BY <1>1 DEF WriteFault, Inbound, Handles
<1>3. msg' = [i \in 0 .. Size |-> IF i \in f.at + f.k .. f.at + f.n - 1 THEN Zero ELSE msg[i]]
  BY <1>1 DEF WriteFault
<1>4. UNCHANGED <<len, got, writes, calm, log>>
  BY DEF WriteFault
<1>5. Better
  BY <1>2, <1>3 DEF Better, Bounded, Data, Cells, Foreign, Zero, Sizes
<1>6. PICK g : g = After(f, f.off)
  OBVIOUS
<1>7. g \in Handles /\ g.pc = "idle" /\ g.k = 0 /\ g.off = f.off
  <2>1. f.off \in 0 .. Size
    BY <1>2
  <2>2. QED
    BY <1>6, <2>1, AfterCall
<1>8. file' = [file EXCEPT ![p] = g]
  BY <1>1, <1>6 DEF WriteFault, Failed, After
<1>9. file' \in [Procs -> Handles] /\ file'[p] = g /\ Others(p)
  BY <1>7, <1>8, Sets DEF Bounded, Data
<1>10. Data'
  BY <1>4, <1>5, <1>9 DEF Better, Bounded, Data
<1>11. Solid(len)'
  BY <1>4, <1>5, SolidStays DEF Bounded, Data, Solid
<1>12. \A i \in 0 .. f.off - 1 : msg'[i] # Foreign
  BY <1>2, <1>5, SolidStays
<1>13. Inbound(file[p])'
  BY <1>7, <1>9, <1>12 DEF Inbound, Solid
<1>14. QED
  BY <1>5, <1>9, <1>10, <1>11, <1>13, BoundedBy

\* After one of the two stores the other is left, or the call has ended.
LEMMA StoredFile ==
  ASSUME Sizes, Bounded, NEW p \in Procs, NEW f \in Handles, f = file[p], f.pc = "store",
         f.at + f.n <= Size, NEW what \in {"len", "zero"}, Stored(p, what)
  PROVE  \E g \in Handles :
           /\ file' = [file EXCEPT ![p] = g]
           /\ \/ f.todo = {what} /\ g = After(f, f.at + f.n) /\ g.pc = "idle" /\ g.k = 0
                 /\ g.off = f.at + f.n /\ g.part = {}
              \/ f.todo # {what} /\ g.pc = "store" /\ g.at = f.at /\ g.n = f.n /\ g.k = f.k
                 /\ g.off = f.off /\ g.id = f.id /\ g.todo = f.todo \ {what} /\ g.part = f.part
<1>1. CASE f.todo = {what}
  <2>1. PICK g : g = After(f, f.at + f.n)
    OBVIOUS
  <2>2. f.at + f.n \in 0 .. Size
    BY DEF Handles, Sizes
  <2>3. g \in Handles /\ g.pc = "idle" /\ g.k = 0 /\ g.off = f.at + f.n /\ g.part = {}
    BY <2>1, <2>2, AfterCall
  <2>4. file' = [file EXCEPT ![p] = g]
    BY <1>1, <2>1 DEF Stored, After
  <2>5. QED
    BY <1>1, <2>1, <2>3, <2>4
<1>2. CASE f.todo # {what}
  <2>1. PICK todo : todo = f.todo \ {what}
    OBVIOUS
  <2>2. todo \in SUBSET {"len", "zero"}
    BY <2>1 DEF Handles
  <2>3. PICK g : g = [f EXCEPT !.todo = todo]
    OBVIOUS
  <2>4. /\ g \in Handles /\ g.pc = "store" /\ g.at = f.at /\ g.n = f.n /\ g.k = f.k
        /\ g.off = f.off /\ g.id = f.id /\ g.todo = todo /\ g.part = f.part
    BY <2>2, <2>3 DEF Handles
  <2>5. file' = [file EXCEPT ![p] = g]
    BY <1>2, <2>1, <2>3 DEF Stored
  <2>6. QED
    BY <1>2, <2>1, <2>4, <2>5
<1>3. QED
  BY <1>1, <1>2

LEMMA StoreLenBounded ==
  ASSUME Sizes, Bounded, NEW p \in Procs, StoreLen(p)
  PROVE  Bounded'
<1>1. PICK f \in Handles : f = file[p] /\ Inbound(f)
  BY DEF Bounded, Data
<1>2. CASE ~Missing
  <2>1. /\ f.pc = "store" /\ f.at + f.n <= Size /\ Solid(f.at + f.n) /\ Solid(f.off)
        /\ f.at + f.n \in 0 .. Size
    BY <1>1, <1>2 DEF StoreLen, Inbound, Handles, Sizes
  <2>2. /\ len' = f.at + f.n /\ Stored(p, "len") /\ UNCHANGED <<msg, got, writes, calm>>
        /\ log' = IF calm THEN log \o [i \in 1 .. f.n |-> f.id] ELSE <<>>
    BY <1>1, <1>2, <2>1 DEF StoreLen
  <2>3. log' \in Seq(Nat)
    <3>1. f.n \in Nat /\ f.id \in Nat
      BY DEF Handles, Sizes
    <3>2. PICK w : w = [i \in 1 .. f.n |-> f.id]
      OBVIOUS
    <3>3. w \in Seq(Nat)
      BY <3>1, <3>2, IsASeq
    <3>4. log \in Seq(Nat) /\ log \o w \in Seq(Nat) /\ <<>> \in Seq(Nat)
      BY <3>3, ConcatProperties, EmptySeq DEF Bounded, Data
    <3>5. QED
      BY <2>2, <3>2, <3>4
  <2>4. PICK g \in Handles :
           /\ file' = [file EXCEPT ![p] = g]
           /\ \/ g.pc = "idle" /\ g.k = 0 /\ g.off = f.at + f.n
              \/ g.pc = "store" /\ g.at = f.at /\ g.n = f.n /\ g.off = f.off
    BY <1>1, <2>1, <2>2, StoredFile
  <2>5. file' \in [Procs -> Handles] /\ file'[p] = g /\ Others(p)
    BY <2>4, Sets DEF Bounded, Data
  <2>6. Data'
    BY <2>1, <2>2, <2>3, <2>5 DEF Bounded, Data
  <2>7. Inbound(file[p])'
    BY <2>1, <2>2, <2>4, <2>5 DEF Inbound, Solid
  <2>8. Better
    BY <2>2 DEF Better, Bounded, Data
  <2>9. Solid(len)'
    BY <2>1, <2>2 DEF Solid
  <2>10. QED
    BY <2>5, <2>6, <2>7, <2>8, <2>9, BoundedBy
<1>3. QED
  BY <1>2, OopsBounded DEF StoreLen

LEMMA StoreZeroBounded ==
  ASSUME Sizes, Bounded, NEW p \in Procs, StoreZero(p)
  PROVE  Bounded'
<1>1. PICK f \in Handles : f = file[p] /\ Inbound(f)
  BY DEF Bounded, Data
<1>2. CASE ~Missing /\ alloc
  <2>1. /\ f.pc = "store" /\ f.at + f.n <= Size /\ Solid(f.at + f.n) /\ Solid(f.off)
        /\ f.at + f.n \in 0 .. Size /\ f.off \in 0 .. Size
    BY <1>1, <1>2 DEF StoreZero, Inbound, Handles, Sizes
  <2>2. /\ msg' = [msg EXCEPT ![f.at + f.n] = Zero] /\ Stored(p, "zero")
        /\ UNCHANGED <<len, got, writes, calm, log>>
    BY <1>1, <1>2, <2>1 DEF StoreZero
  <2>3. Better
    BY <2>1, <2>2 DEF Better, Bounded, Data, Cells, Foreign, Zero, Sizes
  <2>4. PICK g \in Handles :
           /\ file' = [file EXCEPT ![p] = g]
           /\ \/ g.pc = "idle" /\ g.k = 0 /\ g.off = f.at + f.n
              \/ g.pc = "store" /\ g.at = f.at /\ g.n = f.n /\ g.off = f.off
    BY <1>1, <2>1, <2>2, StoredFile
  <2>5. file' \in [Procs -> Handles] /\ file'[p] = g /\ Others(p)
    BY <2>4, Sets DEF Bounded, Data
  <2>6. Data'
    BY <2>2, <2>3, <2>5 DEF Better, Bounded, Data
  <2>7. \A n \in 0 .. Size : Solid(n) => \A i \in 0 .. n - 1 : msg'[i] # Foreign
    BY <2>3, SolidStays
  <2>8. Inbound(file[p])'
    BY <2>1, <2>4, <2>5, <2>7 DEF Inbound, Solid
  <2>9. Solid(len)'
    BY <2>2, <2>3, SolidStays DEF Bounded, Data, Solid
  <2>10. QED
    BY <2>3, <2>5, <2>6, <2>8, <2>9, BoundedBy
<1>3. QED
  BY <1>2, OopsBounded DEF StoreZero

LEMMA ModuleBounded ==
  ASSUME Sizes, Bounded,
         ChrdevInit \/ ProcCreate \/ ProcAlloc \/ ProcClear \/ Unload \/ Unloaded \/ UNCHANGED vars
  PROVE  Bounded'
<1>1. UNCHANGED <<len, file, got, writes, log>>
  BY DEF ChrdevInit, ProcCreate, ProcAlloc, ProcClear, Unload, Unloaded, vars
<1>2. Better /\ calm' \in BOOLEAN
  <2>1. CASE ProcClear
    BY <2>1 DEF ProcClear, Better, Bounded, Data, Cells, Foreign, Zero, Sizes
  <2>2. CASE UNCHANGED <<msg, calm>>
    BY <2>2 DEF Better, Bounded, Data
  <2>3. QED
    BY <2>1, <2>2 DEF ChrdevInit, ProcCreate, ProcAlloc, Unload, Unloaded, vars
<1>3. Data'
  BY <1>1, <1>2 DEF Better, Bounded, Data
<1>4. \A q \in Procs : Inbound(file[q])'
  BY <1>1, <1>2, InboundStays DEF Bounded
<1>5. Solid(len)'
  BY <1>1, <1>2, SolidStays DEF Bounded, Data, Solid
<1>6. QED
  BY <1>3, <1>4, <1>5 DEF Bounded

LEMMA BoundedInit == ASSUME Sizes, Init PROVE Bounded
<1>1. \A p \in Procs : file[p] = Closed /\ Closed \in Handles /\ Closed.off = 0 /\ Closed.pc = "none"
  BY ClosedIsFile DEF Init, Closed
<1>2. Data
  BY <1>1, EmptySeq DEF Init, Data, Cells, Zero, Foreign, Sizes
<1>3. \A p \in Procs : Inbound(file[p])
  BY <1>1 DEF Inbound, Solid
<1>4. Solid(len)
  BY DEF Init, Solid
<1>5. QED
  BY <1>2, <1>3, <1>4 DEF Bounded

LEMMA BoundedStep == ASSUME Sizes, Bounded, [Next]_vars PROVE Bounded'
<1>1. CASE \/ ChrdevInit \/ ProcCreate \/ ProcAlloc \/ ProcClear \/ Unload \/ Unloaded
           \/ UNCHANGED vars
  BY <1>1, ModuleBounded
<1>2. CASE \E p \in Procs : \/ \E append \in BOOLEAN : Open(p, append)
                            \/ DeviceOpen(p) \/ Release(p)
  BY <1>2, OpenBounded, OpenedBounded
<1>3. CASE \E p \in Procs : \/ \E n \in 1 .. MaxCount : ReadBegin(p, n)
                            \/ ReadByte(p) \/ ReadFault(p)
  BY <1>3, ReadBeginBounded, ReadByteBounded, ReadFaultBounded
<1>4. CASE \E p \in Procs : \/ \E n \in 0 .. MaxCount : WriteBegin(p, n)
                            \/ WriteByte(p) \/ WriteFault(p) \/ StoreLen(p) \/ StoreZero(p)
  BY <1>4, WriteBeginBounded, WriteByteBounded, WriteFaultBounded, StoreLenBounded, StoreZeroBounded
<1>5. QED
  BY <1>1, <1>2, <1>3, <1>4 DEF Next

-----------------------------------------------------------------------------
\* While writes append one after the other the message is the log.

LEMMA LoggedCall ==
  ASSUME Logged, NEW p \in Procs, Others(p), UNCHANGED <<len, log>>, calm' => calm,
         calm' => \A i \in 0 .. len - 1 : msg'[i] = msg[i],
         msg' = msg \/ Writing(p),
         \A q \in Procs \ {p} : got'[q] = got[q],
         calm' => Reads(p)' /\ Appends(file[p])',
         Writing(p)' => Writing(p) \/ ~calm' \/ \A q \in Procs : ~Writing(q)
  PROVE  Logged'
<1> SUFFICES ASSUME calm' PROVE (Same /\ OneWriter /\ \A q \in Procs : Reads(q) /\ Appends(file[q]))'
  BY DEF Logged
<1>1. Same /\ OneWriter /\ \A q \in Procs : Reads(q) /\ Appends(file[q])
  BY DEF Logged
<1>2. Same'
  BY <1>1 DEF Same
<1>3. \A q \in Procs \ {p} : Writing(q)' <=> Writing(q)
  BY DEF Others, Writing
<1>4. OneWriter'
  BY <1>1, <1>3 DEF OneWriter
<1>5. ASSUME NEW q \in Procs, q # p PROVE Reads(q)' /\ Appends(file[q])'
  <2>1. file'[q] = file[q] /\ got'[q] = got[q]
    BY <1>5 DEF Others
  <2>2. Reads(q)'
    BY <1>1, <2>1 DEF Reads
  <2>3. msg' = msg \/ ~Writing(q)
    BY <1>1, <1>5 DEF OneWriter
  <2>4. Appends(file[q])'
    BY <1>1, <2>1, <2>3 DEF Appends, Writing
  <2>5. QED
    BY <2>2, <2>4
<1>6. QED
  BY <1>2, <1>4, <1>5

LEMMA EarlyCall ==
  ASSUME Early, NEW p \in Procs, Others(p), UNCHANGED <<writes, calm>>,
         len' = len \/ Writing(p), Writing(p)' => Writing(p)
  PROVE  Early'
<1>1. \A q \in Procs \ {p} : Writing(q)' <=> Writing(q)
  BY DEF Others, Writing
<1>2. QED
  BY <1>1 DEF Early

\* A call that ends or is left, or an open or close.
LEMMA RestLogged ==
  ASSUME Sizes, Bounded, Logged, Early, NEW p \in Procs, NEW g \in Handles,
         file' = [file EXCEPT ![p] = g], UNCHANGED <<msg, len, writes, calm, log>>,
         \A q \in Procs \ {p} : got'[q] = got[q],
         g.pc \in {"none", "opening", "idle", "oops"},
         calm => \A x \in got'[p] \cup g.part : x[1] < len /\ x[2] = log[x[1] + 1]
  PROVE  Logged' /\ Early'
<1>1. file'[p] = g /\ Others(p)
  BY Sets DEF Bounded, Data
<1>2. ~Writing(p)'
  BY <1>1 DEF Writing
<1>3. calm' => Reads(p)' /\ Appends(file[p])'
  BY <1>1 DEF Reads, Appends
<1>4. Logged'
  BY <1>1, <1>2, <1>3, LoggedCall
<1>5. Early'
  BY <1>1, <1>2, EarlyCall
<1>6. QED
  BY <1>4, <1>5

LEMMA OopsLogged ==
  ASSUME Sizes, Bounded, Logged, Early, NEW p \in Procs, Oops(p)
  PROVE  Logged' /\ Early'
<1>1. PICK f \in Handles : f = file[p]
  BY DEF Bounded, Data
<1>2. PICK g : g = [f EXCEPT !.pc = "oops"]
  OBVIOUS
<1>3. g \in Handles /\ g.pc = "oops" /\ g.part = f.part
  BY <1>2 DEF Handles, Places
<1>4. file' = [file EXCEPT ![p] = g]
  BY <1>1, <1>2 DEF Oops
<1>5. UNCHANGED <<msg, len, writes, calm, log, got>>
  BY DEF Oops
<1>6. calm => \A x \in got[p] \cup f.part : x[1] < len /\ x[2] = log[x[1] + 1]
  BY <1>1 DEF Logged, Reads
<1>7. QED
  BY <1>3, <1>4, <1>5, <1>6, RestLogged

LEMMA OpenLogged ==
  ASSUME Sizes, Bounded, Logged, Early, NEW p \in Procs, NEW append \in BOOLEAN, Open(p, append)
  PROVE  Logged' /\ Early'
<1>1. PICK g : g = [Closed EXCEPT !.append = append,
                                  !.pc = IF kind = "chrdev" THEN "opening" ELSE "idle"]
  OBVIOUS
<1>2. g \in Handles /\ g.part = {} /\ g.pc \in {"opening", "idle"}
  <2>1. PICK pc : pc = IF kind = "chrdev" THEN "opening" ELSE "idle"
    OBVIOUS
  <2>2. pc \in Places /\ pc \in {"opening", "idle"}
    BY <2>1 DEF Places
  <2>3. PICK f \in Handles : f = Closed /\ f.part = {}
    BY ClosedIsFile
  <2>4. g = [f EXCEPT !.append = append, !.pc = pc]
    BY <1>1, <2>1, <2>3
  <2>5. QED
    BY <2>2, <2>3, <2>4 DEF Handles
<1>3. file' = [file EXCEPT ![p] = g] /\ got' = [got EXCEPT ![p] = {}]
      /\ UNCHANGED <<msg, len, writes, calm, log>>
  BY <1>1 DEF Open
<1>4. got'[p] = {} /\ \A q \in Procs \ {p} : got'[q] = got[q]
  BY <1>3 DEF Bounded, Data
<1>5. QED
  BY <1>2, <1>3, <1>4, RestLogged

LEMMA OpenedLogged ==
  ASSUME Sizes, Bounded, Logged, Early, NEW p \in Procs, DeviceOpen(p) \/ Release(p)
  PROVE  Logged' /\ Early'
<1>1. PICK f \in Handles : f = file[p]
  BY DEF Bounded, Data
<1>2. calm => \A x \in got[p] \cup f.part : x[1] < len /\ x[2] = log[x[1] + 1]
  BY <1>1 DEF Logged, Reads
<1>3. CASE DeviceOpen(p)
  <2>1. PICK g : file' = [file EXCEPT ![p] = g]
                 /\ (g = [f EXCEPT !.pc = "oops"] \/ g = [f EXCEPT !.pc = "idle"])
    BY <1>1, <1>3 DEF DeviceOpen
  <2>2. g \in Handles /\ g.pc \in {"idle", "oops"} /\ g.part = f.part
    BY <2>1 DEF Handles, Places
  <2>3. UNCHANGED <<msg, len, writes, calm, log, got>>
    BY <1>3 DEF DeviceOpen
  <2>4. QED
    BY <1>2, <2>1, <2>2, <2>3, RestLogged
<1>4. CASE Release(p) /\ ~Missing
  <2>1. Closed \in Handles /\ Closed.pc = "none" /\ Closed.part = {}
    BY ClosedIsFile DEF Closed
  <2>2. file' = [file EXCEPT ![p] = Closed] /\ UNCHANGED <<msg, len, writes, calm, log, got>>
    BY <1>4 DEF Release
  <2>3. QED
    BY <1>2, <2>1, <2>2, RestLogged
<1>5. QED
  BY <1>3, <1>4, OopsLogged DEF Release

LEMMA ReadBeginLogged ==
  ASSUME Sizes, Bounded, Logged, Early, NEW p \in Procs, NEW n \in 1 .. MaxCount, ReadBegin(p, n)
  PROVE  Logged' /\ Early'
<1>1. PICK f \in Handles : f = file[p]
  BY DEF Bounded, Data
<1>2. CASE ~Missing
  <2>1. PICK c : c = Count(n, len - f.off)
    OBVIOUS
  <2>2. PICK g : g = [f EXCEPT !.pc = "copyout", !.at = f.off, !.n = c]
    OBVIOUS
  <2>3. f.off \in 0 .. Size /\ len \in 0 .. Size /\ f.off < len
    BY <1>1, <1>2 DEF Handles, Bounded, Data, ReadBegin
  <2>4. f.off + c <= len
    BY <2>1, <2>3 DEF Count, Sizes
  <2>5. g.pc = "copyout" /\ g.at = f.off /\ g.n = c /\ g.part = f.part
    BY <2>2 DEF Handles
  <2>6. file' = [file EXCEPT ![p] = g]
    BY <1>1, <1>2, <2>1, <2>2 DEF ReadBegin
  <2>7. UNCHANGED <<msg, len, got, writes, calm, log>>
    BY <1>2 DEF ReadBegin
  <2>8. file'[p] = g /\ Others(p)
    BY <2>6 DEF Bounded, Data, Others
  <2>9. calm => \A x \in got[p] \cup f.part : x[1] < len /\ x[2] = log[x[1] + 1]
    BY <1>1 DEF Logged, Reads
  <2>10. ~Writing(p)' /\ (calm' => Reads(p)' /\ Appends(file[p])')
    BY <2>4, <2>5, <2>7, <2>8, <2>9 DEF Writing, Reads, Appends
  <2>11. Logged'
    BY <2>7, <2>8, <2>10, LoggedCall
  <2>12. Early'
    BY <2>7, <2>8, <2>10, EarlyCall
  <2>13. QED
    BY <2>11, <2>12
<1>3. QED
  BY <1>2, OopsLogged DEF ReadBegin

LEMMA ReadByteLogged ==
  ASSUME Sizes, Bounded, Logged, Early, NEW p \in Procs, ReadByte(p)
  PROVE  Logged' /\ Early'
<1>1. PICK f \in Handles : f = file[p] /\ Inbound(f)
  BY DEF Bounded, Data
<1>2. CASE ~Missing
  <2>1. PICK part : part = f.part \cup {<<f.at + f.k, msg[f.at + f.k]>>}
    OBVIOUS
  <2>2. /\ f.pc = "copyout" /\ f.k < f.n /\ f.at + f.n <= Size
        /\ f.k \in 0 .. Size /\ f.at \in 0 .. Size /\ f.n \in 0 .. Size /\ len \in 0 .. Size
    BY <1>1, <1>2 DEF ReadByte, Inbound, Handles, Bounded, Data
  <2>3. calm => /\ \A x \in got[p] \cup f.part : x[1] < len /\ x[2] = log[x[1] + 1]
                /\ f.at + f.n <= len /\ \A i \in 0 .. len - 1 : msg[i] = log[i + 1]
    BY <1>1, <2>2 DEF Logged, Reads, Same
  <2>4. calm => \A x \in got[p] \cup part : x[1] < len /\ x[2] = log[x[1] + 1]
    <3>1. calm => f.at + f.k \in 0 .. len - 1
      BY <2>2, <2>3 DEF Sizes
    <3>2. PICK i : i = f.at + f.k
      OBVIOUS
    <3>3. calm => i < len /\ msg[i] = log[i + 1]
      <4>1. calm => \A j \in 0 .. len - 1 : msg[j] = log[j + 1]
        BY <2>3
      <4>2. calm => i \in 0 .. len - 1
        BY <3>1, <3>2
      <4>3. QED
        BY <2>2, <4>1, <4>2
    <3>4. \A x \in part : x \in f.part \/ x = <<i, msg[i]>>
      BY <2>1, <3>2
    <3>5. QED
      BY <2>3, <3>3, <3>4
  <2>5. CASE f.k + 1 < f.n
    <3>1. PICK g : g = [f EXCEPT !.k = f.k + 1, !.part = part]
      OBVIOUS
    <3>2. g.pc = "copyout" /\ g.at = f.at /\ g.n = f.n /\ g.part = part
      BY <2>2, <3>1 DEF Handles
    <3>3. file' = [file EXCEPT ![p] = g] /\ UNCHANGED <<msg, len, got, writes, calm, log>>
      BY <1>1, <1>2, <2>1, <2>2, <2>5, <3>1 DEF ReadByte
    <3>4. file'[p] = g /\ Others(p)
      BY <3>3 DEF Bounded, Data, Others
    <3>5. ~Writing(p)' /\ (calm' => Reads(p)' /\ Appends(file[p])')
      BY <2>3, <2>4, <3>2, <3>3, <3>4 DEF Writing, Reads, Appends
    <3>6. Logged'
      BY <3>3, <3>4, <3>5, LoggedCall
    <3>7. Early'
      BY <3>3, <3>4, <3>5, EarlyCall
    <3>8. QED
      BY <3>6, <3>7
  <2>6. CASE f.k + 1 >= f.n
    <3>1. PICK g : g = After(f, f.at + f.n)
      OBVIOUS
    <3>2. f.at + f.n \in 0 .. Size
      BY <2>2 DEF Sizes
    <3>3. g \in Handles /\ g.pc = "idle" /\ g.part = {}
      BY <3>1, <3>2, AfterCall
    <3>4. file' = [file EXCEPT ![p] = g] /\ UNCHANGED <<msg, len, writes, calm, log>>
      BY <1>1, <1>2, <2>2, <2>6, <3>1 DEF ReadByte, After
    <3>5. got' = [got EXCEPT ![p] = @ \cup part]
      BY <1>1, <1>2, <2>1, <2>2, <2>6 DEF ReadByte
    <3>6. got'[p] = got[p] \cup part /\ \A q \in Procs \ {p} : got'[q] = got[q]
      BY <3>5 DEF Bounded, Data
    <3>7. calm => \A x \in got'[p] \cup g.part : x[1] < len /\ x[2] = log[x[1] + 1]
      BY <2>4, <3>3, <3>6
    <3>8. QED
      BY <3>3, <3>4, <3>6, <3>7, RestLogged
  <2>7. f.k + 1 < f.n \/ f.k + 1 >= f.n
    BY <2>2
  <2>8. QED
    BY <2>5, <2>6, <2>7
<1>3. QED
  BY <1>2, OopsLogged DEF ReadByte

LEMMA ReadFaultLogged ==
  ASSUME Sizes, Bounded, Logged, Early, NEW p \in Procs, ReadFault(p)
  PROVE  Logged' /\ Early'
<1>1. PICK f \in Handles : f = file[p]
  BY DEF Bounded, Data
<1>2. PICK g : g = After(f, f.off)
  OBVIOUS
<1>3. g \in Handles /\ g.pc = "idle" /\ g.part = {}
  BY <1>2, AfterCall DEF Handles
<1>4. file' = [file EXCEPT ![p] = g] /\ UNCHANGED <<msg, len, writes, calm, log, got>>
  BY <1>1, <1>2 DEF ReadFault, Failed, After
<1>5. calm => \A x \in got[p] \cup g.part : x[1] < len /\ x[2] = log[x[1] + 1]
  BY <1>3 DEF Logged, Reads
<1>6. QED
  BY <1>3, <1>4, <1>5, RestLogged

LEMMA WriteBeginLogged ==
  ASSUME Sizes, Bounded, Logged, Early, NEW p \in Procs, NEW n \in 0 .. MaxCount, WriteBegin(p, n)
  PROVE  Logged' /\ Early'
<1>1. PICK f \in Handles : f = file[p] /\ Inbound(f)
  BY DEF Bounded, Data
<1>2. CASE ~Missing
  <2>1. PICK at : at = IF f.append THEN len ELSE f.off
    OBVIOUS
  <2>2. PICK pc : pc = IF n = 0 THEN "store" ELSE "copyin"
    OBVIOUS
  <2>3. PICK g : g = [f EXCEPT !.at = at, !.n = n, !.id = writes + 1, !.pc = pc,
                               !.todo = {"len", "zero"}]
    OBVIOUS
  <2>4. g.pc = pc /\ g.at = at /\ g.n = n /\ g.k = f.k /\ g.todo = {"len", "zero"} /\ g.part = f.part
    BY <2>3 DEF Handles
  <2>5. writes' = writes + 1 /\ UNCHANGED <<msg, len, got, log>>
    BY <1>2 DEF WriteBegin
  <2>6. file' = [file EXCEPT ![p] = g]
    BY <1>1, <1>2, <2>1, <2>2, <2>3, <2>5 DEF WriteBegin
  <2>7. file'[p] = g /\ Others(p)
    BY <2>6 DEF Bounded, Data, Others
  <2>8. calm' => calm /\ f.append /\ \A q \in Procs : ~Writing(q)
    BY <1>1, <1>2 DEF WriteBegin
  <2>9. f.k = 0 /\ n \in Nat /\ len \in 0 .. Size
    BY <1>1, <1>2 DEF WriteBegin, Callable, Inbound, Sizes, Bounded, Data
  <2>10. calm' => \A x \in got[p] \cup f.part : x[1] < len /\ x[2] = log[x[1] + 1]
    BY <1>1, <2>8 DEF Logged, Reads
  <2>11. calm' => Reads(p)' /\ Appends(file[p])'
    <3>1. g.pc # "copyout" /\ (g.pc = "store" => g.n = 0)
      BY <2>2, <2>4
    <3>2. calm' => g.at = len
      BY <2>1, <2>4, <2>8
    <3>3. calm' => Reads(p)'
      BY <2>4, <2>5, <2>7, <2>10, <3>1 DEF Reads
    <3>4. calm' => Appends(file[p])'
      BY <2>4, <2>5, <2>7, <2>9, <3>1, <3>2 DEF Appends
    <3>5. QED
      BY <3>3, <3>4
  <2>12. Logged'
    BY <2>5, <2>7, <2>8, <2>11, LoggedCall
  <2>13. Early'
    BY <2>5 DEF Early, Bounded, Data
  <2>14. QED
    BY <2>12, <2>13
<1>3. QED
  BY <1>2, OopsLogged DEF WriteBegin

LEMMA WriteByteLogged ==
  ASSUME Sizes, Bounded, Logged, Early, NEW p \in Procs, WriteByte(p)
  PROVE  Logged' /\ Early'
<1>1. PICK f \in Handles : f = file[p] /\ Inbound(f)
  BY DEF Bounded, Data
<1>2. CASE ~Missing /\ alloc
  <2>1. /\ f.pc = "copyin" /\ f.k < f.n /\ f.at + f.n <= Size
        /\ f.k \in 0 .. Size /\ f.at \in 0 .. Size /\ f.n \in 0 .. Size /\ len \in 0 .. Size
    BY <1>1, <1>2 DEF WriteByte, Inbound, Handles, Bounded, Data
  <2>2. msg' = [msg EXCEPT ![f.at + f.k] = f.id] /\ UNCHANGED <<len, got, writes, calm, log>>
    BY <1>1, <1>2, <2>1 DEF WriteByte
  <2>3. PICK pc : pc = IF f.k + 1 = f.n THEN "store" ELSE "copyin"
    OBVIOUS
  <2>4. PICK g : g = [f EXCEPT !.k = f.k + 1, !.pc = pc]
    OBVIOUS
  <2>5. g.pc = pc /\ g.k = f.k + 1 /\ g.at = f.at /\ g.n = f.n /\ g.id = f.id /\ g.part = f.part
        /\ g.todo = f.todo
    BY <2>4 DEF Handles
  <2>6. file' = [file EXCEPT ![p] = g]
    BY <1>1, <1>2, <2>1, <2>3, <2>4 DEF WriteByte
  <2>7. file'[p] = g /\ Others(p)
    BY <2>6 DEF Bounded, Data, Others
  <2>8. Writing(p)
    BY <1>1, <2>1 DEF Writing
  <2>9. calm => /\ f.at = len /\ "len" \in f.todo
                /\ \A i \in f.at .. f.at + f.k - 1 : msg[i] = f.id
    BY <1>1, <2>1 DEF Logged, Appends
  <2>10. calm => \A i \in 0 .. len - 1 : msg'[i] = msg[i]
    BY <2>1, <2>2, <2>9 DEF Bounded, Data, Sizes
  <2>11. calm => \A i \in f.at .. f.at + f.k : msg'[i] = f.id
    <3>1. msg'[f.at + f.k] = f.id
      BY <2>1, <2>2 DEF Bounded, Data, Sizes
    <3>2. calm => \A i \in f.at .. f.at + f.k - 1 : msg'[i] = f.id
      BY <2>1, <2>2, <2>9 DEF Bounded, Data, Sizes
    <3>3. \A i \in f.at .. f.at + f.k : i = f.at + f.k \/ i \in f.at .. f.at + f.k - 1
      BY <2>1
    <3>4. QED
      BY <3>1, <3>2, <3>3
  <2>12. calm => \A x \in got[p] \cup f.part : x[1] < len /\ x[2] = log[x[1] + 1]
    BY <1>1 DEF Logged, Reads
  <2>13. calm' => Reads(p)'
    BY <2>2, <2>3, <2>5, <2>7, <2>12 DEF Reads
  <2>14. calm' => Appends(file[p])'
    <3>1. g.pc = "store" => g.n = f.k + 1
      BY <2>3, <2>5
    <3>2. f.at + (f.k + 1) - 1 = f.at + f.k
      BY <2>1
    <3>3. QED
      BY <2>1, <2>2, <2>5, <2>7, <2>9, <2>11, <3>1, <3>2 DEF Appends
  <2>15. Logged'
    BY <2>2, <2>7, <2>8, <2>10, <2>13, <2>14, LoggedCall
  <2>16. Early'
    BY <2>2, <2>7, <2>8, EarlyCall
  <2>17. QED
    BY <2>15, <2>16
<1>3. QED
  BY <1>2, OopsLogged DEF WriteByte

LEMMA WriteFaultLogged ==
  ASSUME Sizes, Bounded, Logged, Early, NEW p \in Procs, WriteFault(p)
  PROVE  Logged' /\ Early'
<1>1. PICK f \in Handles : f = file[p] /\ Inbound(f)
  BY DEF Bounded, Data
<1>2. /\ f.pc = "copyin" /\ f.at + f.n <= Size /\ f.off \in 0 .. Size /\ len \in 0 .. Size
      /\ f.k \in 0 .. Size /\ f.at \in 0 .. Size /\ f.n \in 0 .. Size
  BY <1>1 DEF WriteFault, Inbound, Handles, Bounded, Data
<1>3. /\ msg' = [i \in 0 .. Size |-> IF i \in f.at + f.k .. f.at + f.n - 1 THEN Zero ELSE msg[i]]
      /\ UNCHANGED <<len, got, writes, calm, log>>
  BY <1>1 DEF WriteFault
<1>4. PICK g : g = After(f, f.off)
  OBVIOUS
<1>5. g \in Handles /\ g.pc = "idle" /\ g.part = {}
  <2>1. f.off \in 0 .. Size
    BY <1>2
  <2>2. QED
    BY <1>4, <2>1, AfterCall
<1>6. file' = [file EXCEPT ![p] = g]
  BY <1>1, <1>4 DEF WriteFault, Failed, After
<1>7. file'[p] = g /\ Others(p) /\ Writing(p) /\ ~Writing(p)'
  BY <1>1, <1>2, <1>5, <1>6 DEF Bounded, Data, Others, Writing
<1>8. calm => f.at = len
  BY <1>1, <1>2 DEF Logged, Appends
<1>9. calm => \A i \in 0 .. len - 1 : msg'[i] = msg[i]
  BY <1>2, <1>3, <1>8 DEF Sizes
<1>10. calm' => Reads(p)' /\ Appends(file[p])'
  BY <1>1, <1>3, <1>5, <1>7 DEF Logged, Reads, Appends
<1>11. Logged'
  BY <1>3, <1>7, <1>9, <1>10, LoggedCall
<1>12. Early'
  BY <1>3, <1>7, EarlyCall
<1>13. QED
  BY <1>11, <1>12

LEMMA StoreZeroLogged ==
  ASSUME Sizes, Bounded, Logged, Early, NEW p \in Procs, StoreZero(p)
  PROVE  Logged' /\ Early'
<1>1. PICK f \in Handles : f = file[p] /\ Inbound(f)
  BY DEF Bounded, Data
<1>2. CASE ~Missing /\ alloc
  <2>1. /\ f.pc = "store" /\ f.at + f.n <= Size /\ f.at \in 0 .. Size /\ f.n \in 0 .. Size
        /\ len \in 0 .. Size
    BY <1>1, <1>2 DEF StoreZero, Inbound, Handles, Bounded, Data
  <2>2. /\ msg' = [msg EXCEPT ![f.at + f.n] = Zero] /\ Stored(p, "zero")
        /\ UNCHANGED <<len, got, writes, calm, log>>
    BY <1>1, <1>2, <2>1 DEF StoreZero
  <2>3. PICK g \in Handles :
           /\ file' = [file EXCEPT ![p] = g]
           /\ \/ g.pc = "idle" /\ g.part = {}
              \/ g.pc = "store" /\ g.at = f.at /\ g.n = f.n /\ g.id = f.id
                 /\ g.todo = f.todo \ {"zero"} /\ g.part = f.part
    BY <1>1, <2>1, <2>2, StoredFile
  <2>4. file'[p] = g /\ Others(p)
    BY <2>3, Sets DEF Bounded, Data
  <2>5. Writing(p)
    BY <1>1, <2>1 DEF Writing
  <2>6. calm => \/ "len" \in f.todo /\ f.at = len /\ \A i \in f.at .. f.at + f.n - 1 : msg[i] = f.id
                \/ "len" \notin f.todo /\ f.at + f.n = len
    BY <1>1, <2>1 DEF Logged, Appends
  <2>7. calm => \A i \in 0 .. len - 1 : msg'[i] = msg[i]
    BY <2>1, <2>2, <2>6 DEF Bounded, Data, Sizes
  <2>8. \A i \in f.at .. f.at + f.n - 1 : msg'[i] = msg[i]
    BY <2>1, <2>2 DEF Bounded, Data, Sizes
  <2>9. calm' => Reads(p)'
    BY <1>1, <2>2, <2>3, <2>4 DEF Logged, Reads
  <2>10. calm' => Appends(file[p])'
    BY <2>2, <2>3, <2>4, <2>6, <2>8 DEF Appends
  <2>11. Logged'
    BY <2>2, <2>4, <2>5, <2>7, <2>9, <2>10, LoggedCall
  <2>12. Early'
    BY <2>2, <2>4, <2>5, EarlyCall
  <2>13. QED
    BY <2>11, <2>12
<1>3. QED
  BY <1>2, OopsLogged DEF StoreZero

\* The message grows by bytes that are already there, and so does the log.
LEMMA StoreLenLogged ==
  ASSUME Sizes, Bounded, Logged, Early, NEW p \in Procs, StoreLen(p)
  PROVE  Logged' /\ Early'
<1>1. PICK f \in Handles : f = file[p] /\ Inbound(f)
  BY DEF Bounded, Data
<1>2. CASE ~Missing
  <2>1. /\ f.pc = "store" /\ "len" \in f.todo /\ f.at + f.n <= Size
        /\ f.at \in 0 .. Size /\ f.n \in 0 .. Size /\ f.id \in Nat /\ len \in 0 .. Size
    BY <1>1, <1>2 DEF StoreLen, Inbound, Handles, Bounded, Data, Sizes
  <2>2. /\ len' = f.at + f.n /\ Stored(p, "len") /\ UNCHANGED <<msg, got, writes, calm>>
        /\ log' = IF calm THEN log \o [i \in 1 .. f.n |-> f.id] ELSE <<>>
    BY <1>1, <1>2, <2>1 DEF StoreLen
  <2>3. PICK g \in Handles :
           /\ file' = [file EXCEPT ![p] = g]
           /\ \/ g.pc = "idle" /\ g.part = {}
              \/ g.pc = "store" /\ g.at = f.at /\ g.n = f.n /\ g.id = f.id
                 /\ g.todo = f.todo \ {"len"} /\ g.part = f.part
    <3>1. f.pc = "store" /\ f.at + f.n <= Size /\ Stored(p, "len")
      BY <2>1, <2>2
    <3>2. QED
      BY <1>1, <3>1, StoredFile
  <2>4. file'[p] = g /\ Others(p)
    BY <2>3, Sets DEF Bounded, Data
  <2>5. Writing(p)
    BY <1>1, <2>1 DEF Writing
  <2>6. Early'
    BY <2>2, <2>4, <2>5, EarlyCall
  <2>7. ASSUME calm PROVE (Same /\ OneWriter /\ \A q \in Procs : Reads(q) /\ Appends(file[q]))'
    <3>1. Same /\ OneWriter /\ \A q \in Procs : Reads(q) /\ Appends(file[q])
      BY <2>7 DEF Logged
    <3>2. f.at = len /\ \A i \in f.at .. f.at + f.n - 1 : msg[i] = f.id
      BY <1>1, <2>1, <3>1 DEF Appends
    <3>3. PICK w : w = [i \in 1 .. f.n |-> f.id]
      OBVIOUS
    <3>4. w \in Seq(Nat) /\ Len(w) = f.n
      BY <2>1, <3>3, IsASeq
    <3>5. log \in Seq(Nat) /\ Len(log) = len
      BY <3>1 DEF Same, Bounded, Data
    <3>6. log' = log \o w
      BY <2>2, <2>7, <3>3
    <3>7. /\ Len(log') = len + f.n
          /\ \A i \in 1 .. len : log'[i] = log[i]
          /\ \A i \in len + 1 .. len + f.n : log'[i] = f.id
      <4>1. /\ Len(log \o w) = Len(log) + Len(w)
            /\ \A i \in 1 .. Len(log) + Len(w) :
                 (log \o w)[i] = IF i <= Len(log) THEN log[i] ELSE w[i - Len(log)]
        BY <3>4, <3>5, ConcatProperties
      <4>2. QED
        BY <2>1, <3>3, <3>4, <3>5, <3>6, <4>1 DEF Sizes
    <3>8. Same'
      <4>1. Len(log') = len'
        BY <2>2, <3>2, <3>7
      <4>2. ASSUME NEW i \in 0 .. len' - 1 PROVE msg'[i] = log'[i + 1]
        <5>1. CASE i < len
          BY <2>1, <2>2, <3>1, <3>2, <3>7, <4>2, <5>1 DEF Same
        <5>2. CASE i >= len
          <6>1. i + 1 \in len + 1 .. len + f.n /\ i \in f.at .. f.at + f.n - 1
            BY <2>1, <2>2, <3>2, <4>2, <5>2
          <6>2. log'[i + 1] = f.id /\ msg[i] = f.id /\ msg' = msg
            BY <2>2, <3>2, <3>7, <6>1
          <6>3. QED
            BY <6>2
        <5>3. QED
          BY <2>1, <4>2, <5>1, <5>2
      <4>3. QED
        BY <4>1, <4>2 DEF Same
    <3>9. \A q \in Procs \ {p} : Writing(q)' <=> Writing(q)
      BY <2>4 DEF Others, Writing
    <3>10. OneWriter'
      BY <2>5, <3>1, <3>9 DEF OneWriter
    <3>11. \A x \in (0 .. Size - 1) \X (0 .. MaxWrites) :
             x[1] < len /\ x[2] = log[x[1] + 1] => x[1] < len' /\ x[2] = log'[x[1] + 1]
      <4>1. len' = len + f.n
        BY <2>2, <3>2
      <4>2. ASSUME NEW j \in 0 .. Size - 1, j < len
            PROVE  j < len' /\ log'[j + 1] = log[j + 1]
        <5>1. j + 1 \in 1 .. len
          BY <3>5, <4>2 DEF Bounded, Data
        <5>2. j < len'
          BY <2>1, <3>5, <4>1, <4>2 DEF Bounded, Data
        <5>3. QED
          BY <3>7, <5>1, <5>2
      <4>3. QED
        BY <4>2
    <3>12. \A q \in Procs : got[q] \cup file[q].part \subseteq (0 .. Size - 1) \X (0 .. MaxWrites)
      BY DEF Bounded, Data, Handles
    <3>13. ASSUME NEW q \in Procs, q # p PROVE Reads(q)' /\ Appends(file[q])'
      <4>1. file'[q] = file[q] /\ got'[q] = got[q]
        BY <2>2, <2>4, <3>13 DEF Others
      <4>2. file[q].at \in 0 .. Size /\ file[q].n \in 0 .. Size
        BY DEF Bounded, Data, Handles
      <4>3. file[q].pc = "copyout" => file[q].at + file[q].n <= len'
        BY <2>1, <2>2, <3>1, <3>2, <4>2 DEF Reads
      <4>4. \A x \in got[q] \cup file[q].part : x[1] < len' /\ x[2] = log'[x[1] + 1]
        BY <3>1, <3>11, <3>12 DEF Reads
      <4>5. ~Writing(q)
        BY <2>5, <3>1, <3>13 DEF OneWriter
      <4>6. QED
        BY <4>1, <4>3, <4>4, <4>5 DEF Reads, Appends, Writing
    <3>14. Reads(p)'
      <4>1. \A x \in got[p] \cup f.part : x[1] < len' /\ x[2] = log'[x[1] + 1]
        BY <1>1, <3>1, <3>11, <3>12 DEF Reads
      <4>2. QED
        BY <2>2, <2>3, <2>4, <4>1 DEF Reads
    <3>15. Appends(file[p])'
      BY <2>2, <2>3, <2>4 DEF Appends
    <3>16. QED
      BY <3>8, <3>10, <3>13, <3>14, <3>15
  <2>8. Logged'
    BY <2>2, <2>7 DEF Logged
  <2>9. QED
    BY <2>6, <2>8
<1>3. QED
  BY <1>2, OopsLogged DEF StoreLen

LEMMA ModuleLogged ==
  ASSUME Sizes, Bounded, Logged, Early,
         ChrdevInit \/ ProcCreate \/ ProcAlloc \/ ProcClear \/ Unload \/ Unloaded \/ UNCHANGED vars
  PROVE  Logged' /\ Early'
<1>1. UNCHANGED <<len, file, got, writes, log>>
  BY DEF ChrdevInit, ProcCreate, ProcAlloc, ProcClear, Unload, Unloaded, vars
<1>2. \A q \in Procs : Writing(q)' <=> Writing(q)
  BY <1>1 DEF Writing
<1>3. CASE ProcClear
  <2>1. calm' <=> writes = 0
    BY <1>3 DEF ProcClear
  <2>2. Early'
    BY <1>1, <1>2, <2>1 DEF Early
  <2>3. ASSUME writes = 0 PROVE (Same /\ OneWriter /\ \A q \in Procs : Reads(q) /\ Appends(file[q]))'
    <3>1. calm /\ len = 0 /\ \A q \in Procs : ~Writing(q)
      BY <2>3 DEF Early
    <3>2. Same /\ \A q \in Procs : Reads(q)
      BY <3>1 DEF Logged
    <3>3. \A q \in Procs : Reads(q)'
      BY <1>1, <3>2 DEF Reads
    <3>4. Same' /\ OneWriter' /\ \A q \in Procs : Appends(file[q])'
      BY <1>1, <1>2, <3>1, <3>2 DEF Same, OneWriter, Appends, Writing
    <3>5. QED
      BY <3>3, <3>4
  <2>4. Logged'
    BY <2>1, <2>3 DEF Logged
  <2>5. QED
    BY <2>2, <2>4
<1>4. CASE UNCHANGED <<msg, calm>>
  <2>1. Early'
    BY <1>1, <1>2, <1>4 DEF Early
  <2>2. Logged'
    BY <1>1, <1>2, <1>4 DEF Logged, Same, OneWriter, Reads, Appends
  <2>3. QED
    BY <2>1, <2>2
<1>5. QED
  BY <1>3, <1>4 DEF ChrdevInit, ProcCreate, ProcAlloc, Unload, Unloaded, vars

LEMMA MsgInvInit == ASSUME Sizes, Init PROVE MsgInv
<1>1. Bounded
  BY BoundedInit
<1>2. \A p \in Procs : file[p].pc = "none" /\ file[p].part = {} /\ got[p] = {}
  BY DEF Init, Closed
<1>3. Same /\ OneWriter /\ \A p \in Procs : Reads(p) /\ Appends(file[p])
  BY <1>2 DEF Init, Same, OneWriter, Writing, Reads, Appends
<1>4. Early
  BY <1>2 DEF Init, Early, Writing
<1>5. QED
  BY <1>1, <1>3, <1>4 DEF MsgInv, Logged

LEMMA MsgInvStep == ASSUME Sizes, MsgInv, [Next]_vars PROVE MsgInv'
<1>1. Bounded /\ Logged /\ Early
  BY DEF MsgInv
<1>2. Bounded'
  BY <1>1, BoundedStep
<1>3. Logged' /\ Early'
  <2>1. CASE \/ ChrdevInit \/ ProcCreate \/ ProcAlloc \/ ProcClear \/ Unload \/ Unloaded
             \/ UNCHANGED vars
    BY <1>1, <2>1, ModuleLogged
  <2>2. CASE \E p \in Procs : \/ \E append \in BOOLEAN : Open(p, append)
                              \/ DeviceOpen(p) \/ Release(p)
    BY <1>1, <2>2, OpenLogged, OpenedLogged
  <2>3. CASE \E p \in Procs : \/ \E n \in 1 .. MaxCount : ReadBegin(p, n)
                              \/ ReadByte(p) \/ ReadFault(p)
    BY <1>1, <2>3, ReadBeginLogged, ReadByteLogged, ReadFaultLogged
  <2>4. CASE \E p \in Procs : \/ \E n \in 0 .. MaxCount : WriteBegin(p, n)
                              \/ WriteByte(p) \/ WriteFault(p) \/ StoreLen(p) \/ StoreZero(p)
    BY <1>1, <2>4, WriteBeginLogged, WriteByteLogged, WriteFaultLogged, StoreLenLogged, StoreZeroLogged
  <2>5. QED
    BY <2>1, <2>2, <2>3, <2>4 DEF Next
<1>4. QED
  BY <1>2, <1>3 DEF MsgInv

LEMMA MsgInvSays == ASSUME Sizes, MsgInv PROVE InBuffer /\ ReadersSeeLog
<1>1. Bounded /\ Logged
  BY DEF MsgInv
<1>2. \A p \in Procs : got[p] \cup file[p].part \subseteq (0 .. Size - 1) \X (0 .. MaxWrites)
  BY <1>1 DEF Bounded, Data, Handles
<1>3. InBuffer
  BY <1>1, <1>2 DEF InBuffer, Bounded, Data, Foreign, Sizes
<1>4. ReadersSeeLog
  BY <1>1 DEF ReadersSeeLog, Logged, Reads, Same
<1>5. QED
  BY <1>3, <1>4

\* What a process reads has been cleared or written and lies in the buffer, whatever
\* calls overlap and fail (chrdev.c:88-91, 106-115).
THEOREM ReadsAreInBuffer == Sizes /\ Spec => []InBuffer
<1>1. Sizes /\ Init => MsgInv
  BY MsgInvInit
<1>2. Sizes /\ MsgInv /\ [Next]_vars => MsgInv'
  BY MsgInvStep
<1>3. Sizes /\ MsgInv => InBuffer
  BY MsgInvSays
<1>4. CASE Sizes
  <2>1. (Init => MsgInv) /\ (MsgInv /\ [Next]_vars => MsgInv') /\ (MsgInv => InBuffer)
    BY <1>1, <1>2, <1>3, <1>4
  <2>2. QED
    BY <2>1, PTL DEF Spec
<1>5. QED
  BY <1>4

\* While the writes append, one after the other, everybody reads what was written and in
\* its place, although reads and writes overlap: len grows only after the bytes are there.
THEOREM ReadersFollowLog == Sizes /\ Spec => []ReadersSeeLog
<1>1. Sizes /\ Init => MsgInv
  BY MsgInvInit
<1>2. Sizes /\ MsgInv /\ [Next]_vars => MsgInv'
  BY MsgInvStep
<1>3. Sizes /\ MsgInv => ReadersSeeLog
  BY MsgInvSays
<1>4. CASE Sizes
  <2>1. (Init => MsgInv) /\ (MsgInv /\ [Next]_vars => MsgInv') /\ (MsgInv => ReadersSeeLog)
    BY <1>1, <1>2, <1>3, <1>4
  <2>2. QED
    BY <2>1, PTL DEF Spec
<1>5. QED
  BY <1>4

-----------------------------------------------------------------------------
\* Only a chrdev that lives counts, and only its device_open is ever about to run.
Uses ==
  /\ module \in {"out", "failed", "created", "cleared", "live", "going", "gone"}
  /\ refs \in Nat /\ alloc \in BOOLEAN /\ late \subseteq Procs
  /\ kind # "chrdev" \/ module # "live" => refs = 0
  /\ \A p \in Procs : file[p].pc = "opening" => kind = "chrdev"

LEMMA UsesBy ==
  ASSUME Uses, NEW p \in Procs, Others(p), UNCHANGED <<kind, module, refs, alloc>>,
         late' \subseteq late \cup {p}, file'[p].pc # "opening"
  PROVE  Uses'
BY DEF Uses, Others

LEMMA CallMoves ==
  ASSUME Records, NEW p \in Procs, NEW n, ~Oops(p),
         \/ ReadBegin(p, n) \/ ReadByte(p) \/ ReadFault(p)
         \/ WriteBegin(p, n) \/ WriteByte(p) \/ WriteFault(p) \/ StoreLen(p) \/ StoreZero(p)
  PROVE  Moves(p, Working)
<1>1. CASE ReadBegin(p, n)
  BY <1>1 DEF ReadBegin, Records, Moves, Working
<1>2. CASE ReadByte(p)
  <2>1. \/ /\ file' = [file EXCEPT ![p] = [file[p] EXCEPT !.k = file[p].k + 1,
                               !.part = file[p].part \cup {<<file[p].at + file[p].k,
                                                            msg[file[p].at + file[p].k]>>}]]
           /\ file[p].pc = "copyout"
        \/ file' = [file EXCEPT ![p] = [Closed EXCEPT !.pc = "idle", !.append = file[p].append,
                                                      !.off = file[p].at + file[p].n]]
    BY <1>2 DEF ReadByte
  <2>2. DOMAIN file' = Procs /\ "pc" \in DOMAIN file'[p] /\ file'[p].pc \in Working
    BY <2>1 DEF Records, Working, Closed
  <2>3. QED
    BY <2>1, <2>2 DEF Moves, Records
<1>3. CASE ReadFault(p)
  BY <1>3 DEF ReadFault, Failed, Records, Moves, Working, Closed
<1>4. CASE WriteBegin(p, n)
  <2>1. ~Missing
    BY <1>4 DEF WriteBegin
  <2>2. PICK at, todo, pc :
           /\ pc \in {"copyin", "store"}
           /\ file' = [file EXCEPT ![p] = [file[p] EXCEPT !.at = at, !.n = n, !.id = writes',
                                                         !.pc = pc, !.todo = todo]]
    BY <1>4, <2>1 DEF WriteBegin
  <2>3. QED
    BY <2>2 DEF Records, Moves, Working
<1>5. CASE WriteByte(p)
  BY <1>5 DEF WriteByte, Records, Moves, Working
<1>6. CASE WriteFault(p)
  BY <1>6 DEF WriteFault, Failed, Records, Moves, Working, Closed
<1>7. ASSUME NEW what, Stored(p, what), file[p].pc = "store" PROVE Moves(p, Working)
  BY <1>7 DEF Stored, Records, Moves, Working, Closed
<1>8. CASE StoreLen(p) \/ StoreZero(p)
  BY <1>7, <1>8 DEF StoreLen, StoreZero
<1>9. QED
  BY <1>1, <1>2, <1>3, <1>4, <1>5, <1>6, <1>8

LEMMA UsesStep ==
  ASSUME Bounded, Uses, [Next]_vars
  PROVE  Uses'
<1>1. CASE \/ ChrdevInit \/ ProcCreate \/ ProcAlloc \/ ProcClear \/ Unload \/ Unloaded
           \/ UNCHANGED vars
  BY <1>1 DEF Uses, ChrdevInit, ProcCreate, ProcAlloc, ProcClear, Unload, Unloaded, vars
<1>0. ASSUME NEW p \in Procs, NEW g, file' = [file EXCEPT ![p] = g] PROVE file'[p] = g /\ Others(p)
  BY <1>0 DEF Bounded, Data, Others
<1>2. ASSUME NEW p \in Procs, Oops(p) PROVE Uses'
  <2>1. file' = [file EXCEPT ![p] = [file[p] EXCEPT !.pc = "oops"]]
    BY <1>2 DEF Oops
  <2>2. [file[p] EXCEPT !.pc = "oops"].pc = "oops"
    BY DEF Bounded, Data, Handles
  <2>3. QED
    BY <1>0, <1>2, <2>1, <2>2, UsesBy DEF Oops
<1>3. ASSUME NEW p \in Procs, NEW append \in BOOLEAN, Open(p, append) PROVE Uses'
  <2>1. PICK g : file' = [file EXCEPT ![p] = g] /\ (g.pc = "opening" => kind = "chrdev")
    <3>1. PICK g : g = [Closed EXCEPT !.append = append,
                                      !.pc = IF kind = "chrdev" THEN "opening" ELSE "idle"]
      OBVIOUS
    <3>2. g.pc = IF kind = "chrdev" THEN "opening" ELSE "idle"
      BY <3>1 DEF Closed
    <3>3. file' = [file EXCEPT ![p] = g]
      BY <1>3, <3>1 DEF Open
    <3>4. QED
      BY <3>2, <3>3
  <2>2. file'[p] = g /\ Others(p)
    BY <1>0, <2>1
  <2>3. QED
    BY <1>3, <2>1, <2>2 DEF Uses, Open, Others
<1>4. ASSUME NEW p \in Procs, DeviceOpen(p) PROVE Uses'
  <2>1. PICK f \in Handles : f = file[p]
    BY DEF Bounded, Data
  <2>2. PICK g : file' = [file EXCEPT ![p] = g]
                 /\ (g = [f EXCEPT !.pc = "oops"] \/ g = [f EXCEPT !.pc = "idle"])
    BY <1>4, <2>1 DEF DeviceOpen
  <2>3. file'[p].pc # "opening" /\ Others(p)
    BY <1>0, <2>2 DEF Handles
  <2>4. QED
    BY <1>4, <2>3 DEF Uses, DeviceOpen, Others
<1>5. ASSUME NEW p \in Procs, Release(p), ~Missing PROVE Uses'
  <2>1. file'[p].pc # "opening" /\ Others(p)
    BY <1>0, <1>5 DEF Release, Closed
  <2>2. QED
    BY <1>5, <2>1 DEF Uses, Release, Others
<1>6. ASSUME NEW p \in Procs, ~Oops(p),
             \/ \E n \in 1 .. MaxCount : ReadBegin(p, n)
             \/ ReadByte(p) \/ ReadFault(p)
             \/ \E n \in 0 .. MaxCount : WriteBegin(p, n)
             \/ WriteByte(p) \/ WriteFault(p) \/ StoreLen(p) \/ StoreZero(p)
      PROVE  Uses'
  <2>1. UNCHANGED <<kind, module, refs, alloc>> /\ late' \subseteq late \cup {p}
    BY <1>6 DEF ReadBegin, ReadByte, ReadFault, WriteBegin, WriteByte, WriteFault, StoreLen, StoreZero
  <2>2. file[p] \in Handles
    BY DEF Bounded, Data
  <2>3. Moves(p, Working)
    <3>1. Records
      BY DEF Records, Bounded, Data, Handles
    <3>2. QED
      BY <1>6, <3>1, CallMoves
  <2>4. QED
    BY <2>1, <2>3, UsesBy DEF Moves, Others, Working
<1>7. QED
  BY <1>1, <1>2, <1>3, <1>4, <1>5, <1>6 DEF Next, Release

LEMMA TypesFrom ==
  ASSUME Sizes, IsFiniteSet(Procs), Bounded, Uses, DInv
  PROVE  TypeOK
<1>1. refs \in 0 .. Cardinality(Procs)
  <2>1. Cardinality(Procs) \in Nat
    BY FS_CardinalityType
  <2>2. CASE kind = "chrdev" /\ module = "live"
    <3>1. Holders \subseteq Procs
      BY DEF Holders
    <3>2. Cardinality(Holders) <= Cardinality(Procs)
      BY <3>1, FS_Subset
    <3>3. QED
      BY <2>1, <2>2, <3>2 DEF Uses, DInv, Counted
  <2>3. CASE ~(kind = "chrdev" /\ module = "live")
    BY <2>1, <2>3 DEF Uses
  <2>4. QED
    BY <2>2, <2>3
<1>2. (0 .. Size - 1) \X (0 .. MaxWrites) \subseteq (0 .. Size) \X Cells
  BY DEF Sizes, Cells
<1>3. \A p \in Procs : /\ file[p].pc \in Places /\ file[p].off \in 0 .. Size
                       /\ got[p] \subseteq (0 .. Size) \X Cells
  BY <1>2 DEF Bounded, Data, Handles
<1>4. QED
  BY <1>1, <1>3 DEF TypeOK, Bounded, Data, Uses

LEMMA UsesInit == ASSUME Init PROVE Uses
BY DEF Init, Uses, Closed

\* Every variable keeps its type; the message fits in the buffer, and chrdev counts no
\* more users than there are processes.
THEOREM TypeCorrect == Sizes /\ IsFiniteSet(Procs) /\ Spec => []TypeOK
<1> DEFINE TInv == MsgInv /\ Uses /\ CodeInv
<1>1. Sizes /\ Init => TInv
  BY MsgInvInit, UsesInit, CodeInit
<1>2. Sizes /\ TInv /\ [Next]_vars => TInv'
  BY MsgInvStep, UsesStep, CodeStep DEF MsgInv
<1>3. Sizes /\ IsFiniteSet(Procs) /\ TInv => TypeOK
  BY TypesFrom DEF MsgInv, CodeInv
<1> HIDE DEF TInv
<1>4. CASE Sizes /\ IsFiniteSet(Procs)
  <2>1. (Init => TInv) /\ (TInv /\ [Next]_vars => TInv') /\ (TInv => TypeOK)
    BY <1>1, <1>2, <1>3, <1>4
  <2>2. QED
    BY <2>1, PTL DEF Spec
<1>5. QED
  BY <1>4

=============================================================================
