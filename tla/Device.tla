------------------------------- MODULE Device -------------------------------
(***************************************************************************)
(* module5/lab4 (chrdev, /dev/chardev) and module5/lab2 (proc,              *)
(* /proc/myproc): kernel modules with one message buffer, which any number  *)
(* of processes read and write through the same handlers, without a lock.   *)
(* The two differ in how the buffer comes to be and in what keeps the       *)
(* module in memory: chrdev counts its open files itself, from inside open  *)
(* and release; procfs makes remove_proc_entry wait for handlers that are   *)
(* running, and lets none begin after it.                                  *)
(*                                                                         *)
(* The kernel is built with -O2: a handler loads len once.  The two stores  *)
(* that end device_write can be made in either order.  A byte is the number *)
(* of the write it comes from.  Each process has the file open for itself:  *)
(* threads or a fork that share one open file, and with it the offset that  *)
(* chrdev does not lock, are left out, and so are pread and pwrite, which   *)
(* bring an offset of their own.                                           *)
(***************************************************************************)
EXTENDS Integers, Sequences, FiniteSets

CONSTANTS
  Procs,
  Size,        \* BUF_LEN, MSG_SIZE
  MaxCount,    \* bound on the bytes of one call
  MaxWrites    \* bound on the writes accepted

VARIABLES
  kind,        \* "chrdev" or "proc"
  module,      \* where insmod and rmmod are
  refs,        \* chrdev: the module's count of users
  alloc,       \* msg points to a buffer
  msg,         \* the buffer, and the byte behind it
  len,
  file,        \* of each process: the open file and the call it is in
  got,         \* history: the bytes read through the open file, with their places
  writes,      \* the number of writes accepted
  log,         \* history: the bytes of all writes, in order ...
  calm,        \* ... while every write appends, and none overlaps another
  late         \* history: processes that came while the module was not "live"

vars == <<kind, module, refs, alloc, msg, len, file, got, writes, log, calm, late>>

Zero == 0       \* '\0', and what a static or cleared buffer holds
Foreign == -1   \* what kmalloc returned, and what lies behind the buffer

Closed == [pc |-> "none", append |-> FALSE, off |-> 0, at |-> 0, n |-> 0, k |-> 0, id |-> 0,
           part |-> {}, todo |-> {}]

Init ==
  /\ kind \in {"chrdev", "proc"}
  /\ module = "out" /\ refs = 0 /\ alloc = (kind = "chrdev")
  /\ msg = [i \in 0 .. Size |-> IF kind = "chrdev" /\ i < Size THEN Zero ELSE Foreign]
  /\ len = 0
  /\ file = [p \in Procs |-> Closed]
  /\ got = [p \in Procs |-> {}]
  /\ writes = 0 /\ log = <<>> /\ calm = TRUE /\ late = {}

Writing(p) == file[p].pc \in {"copyin", "store"}
Inside(p) == Writing(p) \/ file[p].pc \in {"copyout", "oops"}

-----------------------------------------------------------------------------
(* insmod and rmmod.                                                       *)

Named == module \in (IF kind = "chrdev" THEN {"live", "going"} ELSE {"created", "cleared", "live"})

ChrdevInit ==
  /\ kind = "chrdev" /\ module = "out"
  /\ module' \in {"live", "failed"}
  /\ UNCHANGED <<kind, refs, alloc, msg, len, file, got, writes, log, calm, late>>

ProcCreate ==
  /\ kind = "proc" /\ module = "out"
  /\ module' \in {"created", "failed"}
  /\ UNCHANGED <<kind, refs, alloc, msg, len, file, got, writes, log, calm, late>>

\* The entry has its name before its buffer; without memory it is removed again.
ProcAlloc ==
  /\ kind = "proc" /\ module = "created"
  /\ \/ module' = "cleared" /\ alloc' = TRUE
     \/ module' = "going" /\ UNCHANGED alloc
  /\ UNCHANGED <<kind, refs, msg, len, file, got, writes, log, calm, late>>

ProcClear ==
  /\ kind = "proc" /\ module = "cleared"
  /\ module' = "live"
  /\ msg' = [i \in 0 .. Size |-> IF i < Size THEN Zero ELSE msg[i]]
  /\ calm' = (writes = 0)
  /\ UNCHANGED <<kind, refs, alloc, len, file, got, writes, log, late>>

\* rmmod is refused while the module is in use; procfs does not use it.
Unload ==
  /\ module = "live" /\ refs = 0
  /\ module' = "going"
  /\ UNCHANGED <<kind, refs, alloc, msg, len, file, got, writes, log, calm, late>>

\* (Seeded fault: remove_proc_entry does not wait.)
UnloadedSoon ==
  /\ module = "going"
  /\ module' = "gone" /\ alloc' = FALSE
  /\ UNCHANGED <<kind, refs, msg, len, file, got, writes, log, calm, late>>

\* chrdev_exit ends, and the memory of the module is freed; or remove_proc_entry has
\* seen the handlers end, and msg is freed.
Unloaded ==
  /\ module = "going"
  /\ kind = "proc" => \A p \in Procs : ~Inside(p)
  /\ module' = "gone" /\ alloc' = FALSE
  /\ UNCHANGED <<kind, refs, msg, len, file, got, writes, log, calm, late>>

-----------------------------------------------------------------------------
(* open and release.                                                       *)

\* The name has been found and, in chrdev, device_open is about to be called: until it
\* runs nothing keeps the module.
Open(p, append) ==
  /\ file[p].pc = "none" /\ Named
  /\ file' = [file EXCEPT ![p] = [Closed EXCEPT !.append = append,
                                   !.pc = IF kind = "chrdev" THEN "opening" ELSE "idle"]]
  /\ got' = [got EXCEPT ![p] = {}]
  /\ late' = late \ {p}
  /\ UNCHANGED <<kind, module, refs, alloc, msg, len, writes, log, calm>>

\* p runs into code that is no longer there.
Oops(p) ==
  /\ file' = [file EXCEPT ![p].pc = "oops"]
  /\ UNCHANGED <<kind, module, refs, alloc, msg, len, got, writes, log, calm, late>>
Missing == kind = "chrdev" /\ module = "gone"

\* The result of try_module_get is ignored: it fails once rmmod has begun.
DeviceOpen(p) ==
  /\ file[p].pc = "opening"
  /\ IF Missing THEN /\ file' = [file EXCEPT ![p].pc = "oops"]
                     /\ late' = late \cup {p}
                     /\ UNCHANGED refs
     ELSE /\ file' = [file EXCEPT ![p].pc = "idle"]
          /\ \/ module = "live" /\ refs' = refs + 1 /\ UNCHANGED late
             \/ module # "live" /\ late' = late \cup {p} /\ UNCHANGED refs
  /\ UNCHANGED <<kind, module, alloc, msg, len, got, writes, log, calm>>

\* module_put does not count below zero.
Release(p) ==
  /\ file[p].pc = "idle"
  /\ \/ Missing /\ Oops(p)
     \/ /\ ~Missing
        /\ file' = [file EXCEPT ![p] = Closed]
        /\ refs' = IF kind = "chrdev" /\ refs > 0 THEN refs - 1 ELSE refs
        /\ UNCHANGED <<kind, module, alloc, msg, len, got, writes, log, calm, late>>

-----------------------------------------------------------------------------
(* device_read, read_proc.                                                 *)

\* After remove_proc_entry every call is answered with EIO.
Callable(p) == file[p].pc = "idle" /\ (kind = "proc" => module \in {"created", "cleared", "live"})

\* (Seeded fault: the count is not cut to what is left.)
CountAsAsked(n, left) == n
Count(n, left) == IF left < n THEN left ELSE n

\* At the end of the message the call returns 0 and changes nothing.
ReadBegin(p, n) ==
  LET f == file[p]
  IN  /\ Callable(p)
      /\ \/ Missing /\ Oops(p)
         \/ /\ ~Missing /\ f.off < len
            /\ file' = [file EXCEPT ![p] = [f EXCEPT !.pc = "copyout", !.at = f.off,
                                                     !.n = Count(n, len - f.off)]]
            /\ UNCHANGED <<kind, module, refs, alloc, msg, len, got, writes, log, calm, late>>

\* copy_to_user, byte by byte, and *offp after the last one.
ReadByte(p) ==
  LET f == file[p]
      part == f.part \cup {<<f.at + f.k, msg[f.at + f.k]>>}
  IN  /\ f.pc = "copyout"
      /\ \/ Missing /\ Oops(p)
         \/ /\ ~Missing
            /\ \/ /\ f.k + 1 < f.n
                  /\ file' = [file EXCEPT ![p] = [f EXCEPT !.k = f.k + 1, !.part = part]]
                  /\ UNCHANGED got
               \/ /\ f.k + 1 >= f.n
                  /\ file' = [file EXCEPT ![p] = [Closed EXCEPT !.pc = "idle", !.append = f.append,
                                                                !.off = f.at + f.n]]
                  /\ got' = [got EXCEPT ![p] = @ \cup part]
            /\ UNCHANGED <<kind, module, refs, alloc, msg, len, writes, log, calm, late>>

\* -EFAULT: the offset stays.
Failed(f) == [Closed EXCEPT !.pc = "idle", !.append = f.append, !.off = f.off]
ReadFault(p) ==
  /\ file[p].pc = "copyout" /\ ~Missing
  /\ file' = [file EXCEPT ![p] = Failed(@)]
  /\ UNCHANGED <<kind, module, refs, alloc, msg, len, got, writes, log, calm, late>>

-----------------------------------------------------------------------------
(* device_write, write_proc.                                               *)

\* (Seeded fault: a write may end one byte behind the buffer.)
FitsLoosely(at, n) == at + n <= Size + 1
Fits(at, n) == at + n <= Size

\* -ENOSPC changes nothing.
WriteBegin(p, n) ==
  LET f == file[p]
      at == IF f.append THEN len ELSE f.off
  IN  /\ Callable(p)
      /\ \/ Missing /\ Oops(p)
         \/ /\ ~Missing /\ Fits(at, n) /\ writes < MaxWrites
            /\ writes' = writes + 1
            /\ file' = [file EXCEPT ![p] = [f EXCEPT !.at = at, !.n = n, !.id = writes',
                           !.pc = IF n = 0 THEN "store" ELSE "copyin",
                           !.todo = {"len", "zero"}]]
            /\ calm' = (calm /\ f.append /\ \A q \in Procs : ~Writing(q))
            /\ late' = IF kind = "proc" /\ module # "live" THEN late \cup {p} ELSE late
            /\ UNCHANGED <<kind, module, refs, alloc, msg, len, got, log>>

\* copy_from_user, byte by byte.
WriteByte(p) ==
  LET f == file[p]
  IN  /\ f.pc = "copyin"
      /\ \/ (Missing \/ ~alloc) /\ Oops(p)
         \/ /\ ~Missing /\ alloc
            /\ msg' = [msg EXCEPT ![f.at + f.k] = f.id]
            /\ file' = [file EXCEPT ![p].k = @ + 1,
                                    ![p].pc = IF f.k + 1 = f.n THEN "store" ELSE "copyin"]
            /\ UNCHANGED <<kind, module, refs, alloc, len, got, writes, log, calm, late>>

\* copy_from_user meets a bad address: it clears the rest, len stays.
WriteFault(p) ==
  LET f == file[p]
  IN  /\ f.pc = "copyin" /\ ~Missing /\ alloc
      /\ msg' = [i \in 0 .. Size |-> IF i \in f.at + f.k .. f.at + f.n - 1 THEN Zero ELSE msg[i]]
      /\ file' = [file EXCEPT ![p] = Failed(f)]
      /\ UNCHANGED <<kind, module, refs, alloc, len, got, writes, log, calm, late>>

\* One of the two stores has been made; after both the offset is set.
Stored(p, what) ==
  LET f == file[p]
  IN  file' = [file EXCEPT ![p] =
                 IF f.todo = {what}
                 THEN [Closed EXCEPT !.pc = "idle", !.append = f.append, !.off = f.at + f.n]
                 ELSE [f EXCEPT !.todo = f.todo \ {what}]]

StoreLen(p) ==
  LET f == file[p]
  IN  /\ f.pc = "store" /\ "len" \in f.todo
      /\ \/ Missing /\ Oops(p)
         \/ /\ ~Missing
            /\ len' = f.at + f.n
            /\ log' = IF calm THEN log \o [i \in 1 .. f.n |-> f.id] ELSE <<>>
            /\ Stored(p, "len")
            /\ UNCHANGED <<kind, module, refs, alloc, msg, got, writes, calm, late>>

\* The terminator, also at the place behind a full buffer.
StoreZero(p) ==
  LET f == file[p]
  IN  /\ f.pc = "store" /\ "zero" \in f.todo
      /\ \/ (Missing \/ ~alloc) /\ Oops(p)
         \/ /\ ~Missing /\ alloc
            /\ msg' = [msg EXCEPT ![f.at + f.n] = Zero]
            /\ Stored(p, "zero")
            /\ UNCHANGED <<kind, module, refs, alloc, len, got, writes, log, calm, late>>

-----------------------------------------------------------------------------
Next ==
  \/ ChrdevInit \/ ProcCreate \/ ProcAlloc \/ ProcClear \/ Unload \/ Unloaded
  \/ \E p \in Procs :
       \/ \E append \in BOOLEAN : Open(p, append)
       \/ DeviceOpen(p) \/ Release(p)
       \/ \E n \in 1 .. MaxCount : ReadBegin(p, n)
       \/ ReadByte(p) \/ ReadFault(p)
       \/ \E n \in 0 .. MaxCount : WriteBegin(p, n)
       \/ WriteByte(p) \/ WriteFault(p) \/ StoreLen(p) \/ StoreZero(p)

Spec == Init /\ [][Next]_vars

-----------------------------------------------------------------------------
(* Properties.                                                             *)

Cells == 0 .. MaxWrites \cup {Foreign}
Places == {"none", "opening", "idle", "copyout", "copyin", "store", "oops"}

\* Every variable keeps its type; the message fits in the buffer.
TypeOK ==
  /\ module \in {"out", "failed", "created", "cleared", "live", "going", "gone"}
  /\ refs \in 0 .. Cardinality(Procs) /\ alloc \in BOOLEAN
  /\ msg \in [0 .. Size -> Cells] /\ len \in 0 .. Size
  /\ \A p \in Procs : /\ file[p].pc \in Places /\ file[p].off \in 0 .. Size
                      /\ got[p] \subseteq (0 .. Size) \X Cells
  /\ writes \in 0 .. MaxWrites /\ late \subseteq Procs

\* Whatever calls overlap and fail, a process reads only what some call has stored, not
\* what kmalloc returned or what lies behind the buffer; and no byte of a write goes
\* there, only a terminator (chrdev.c:88-91, 106-115).
InBuffer ==
  /\ \A p \in Procs : \A x \in got[p] \cup file[p].part : x[1] < Size /\ x[2] # Foreign
  /\ msg[Size] \in {Foreign, Zero}

\* As long as the writes append and do not overlap each other, everybody reads what
\* was written and in its place, although reads overlap writes: len grows only after
\* the bytes are there, and a failed write leaves the message as it was.
ReadersSeeLog ==
  calm => \A p \in Procs : \A x \in got[p] : x[1] < Len(log) /\ x[2] = log[x[1] + 1]

\* Nobody runs into freed code or memory, except in two windows: a device_open that
\* began before rmmod and ran after it, so that its try_module_get failed
\* (chrdev.c:71), and a write to the proc entry that came before its buffer
\* (proc.c:78-85).  While the module lives its count is the number of open files.
CodeThere ==
  /\ \A p \in Procs : file[p].pc = "oops" => p \in late
  /\ kind = "chrdev" /\ module = "live" =>
       refs = Cardinality({p \in Procs : file[p].pc \notin {"none", "opening"}})

=============================================================================
