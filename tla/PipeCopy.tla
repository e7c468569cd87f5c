------------------------------ MODULE PipeCopy ------------------------------
(***************************************************************************)
(* module3/01: a parent sends the files named on its command line through  *)
(* a data pipe to a child, which writes a copy of each; through a second   *)
(* pipe the child says 'R' when it is ready for the next file.  Each file  *)
(* is one record of metadata (name and size) and then its contents in      *)
(* buffers of 32 bytes.  The channel is a pair of unnamed pipes or, with   *)
(* -p, a pair of FIFOs that both processes hold open for reading and        *)
(* writing, so that neither ever meets the end of the other's input.       *)
(*                                                                         *)
(* The data pipe is a sequence of whole metadata records and single bytes; *)
(* a byte is known by its file and its place.  A write of up to PIPE_BUF   *)
(* bytes is atomic.                                                        *)
(***************************************************************************)
EXTENDS Integers, Sequences, SequencesExt

CONSTANTS
  Files,
  MaxArgs,      \* bound on the number of files on the command line
  MaxSize,      \* bound on the size of a file, in bytes
  BufferSize,   \* BUFFER_SIZE (32 in the code)
  PipeSize,     \* what the data pipe holds, in records and bytes
  MaxEdits      \* bound on how often somebody else changes a file meanwhile

VARIABLES
  type,       \* PIPE or MKFIFO
  args,       \* the files on the command line
  present,    \* the files that exist
  size,       \* the present size of each file
  pipe,       \* the data pipe
  ready,      \* how many 'R' the other one holds
  ppc, arg, rpos, buf,   \* the parent: where it is, i, how far it has read, buffer
  stat,       \* st.st_size
  cpc, meta, left,       \* the child: where it is, metadata, bytes_left
  known,      \* metadata has been read at least once
  copy,       \* copy[f]: the bytes in f.copy
  edits       \* how often a file was changed while it was copied

parent == <<ppc, arg, rpos, buf, stat>>
child == <<cpc, meta, left, known, copy>>
vars == <<type, args, present, size, pipe, ready, parent, child, edits>>

NoFile == [file |-> "0", size |-> -1]

Init ==
  /\ type \in {"PIPE", "MKFIFO"}
  /\ args \in UNION {[1 .. n -> Files] : n \in 0 .. MaxArgs}
  /\ present \in SUBSET Files
  /\ size \in [Files -> 0 .. MaxSize]
  /\ pipe = <<>> /\ ready = 0
  /\ ppc = "open" /\ arg = 1 /\ rpos = 0 /\ buf = <<>> /\ stat = 0
  /\ cpc = "signal" /\ meta = NoFile /\ left = 0 /\ known = FALSE
  /\ copy = [f \in Files |-> <<>>]
  /\ edits = 0

ParentOver == ppc \in {"done", "failed", "killed"}
ChildOver == cpc \in {"done", "failed", "killed"}

\* The other end of an unnamed pipe is gone: a read returns 0, a write is fatal.
\* The parent closes its ends before it waits for the child.
NoWriter == type = "PIPE" /\ (ParentOver \/ ppc = "wait")
NoReader == type = "PIPE" /\ ChildOver

-----------------------------------------------------------------------------
(* The parent.                                                             *)

File == args[arg]
Bytes(f, from, to) == [k \in 1 .. to - from |-> [of |-> f, at |-> from + k]]
Least(a, b) == IF a < b THEN a ELSE b

POpen ==
  /\ ppc = "open"
  /\ \/ arg > Len(args) /\ ppc' = "lastready"
     \/ arg <= Len(args) /\ File \in present /\ ppc' = "ready"
     \/ arg <= Len(args) /\ File \notin present /\ ppc' = "failed"
  /\ UNCHANGED <<type, args, present, size, pipe, ready, arg, rpos, buf, stat, child, edits>>

\* At the end of the sync pipe read returns 0 and answer still holds an 'R'.
PReady ==
  /\ ppc \in {"ready", "lastready"}
  /\ \/ ready > 0 /\ ready' = ready - 1
     \/ ready = 0 /\ NoReader /\ UNCHANGED ready
  /\ ppc' = IF ppc = "ready" THEN "stat" ELSE "end"
  /\ UNCHANGED <<type, args, present, size, pipe, arg, rpos, buf, stat, child, edits>>

PStat ==
  /\ ppc = "stat"
  /\ stat' = size[File]
  /\ ppc' = "meta"
  /\ UNCHANGED <<type, args, present, size, pipe, ready, arg, rpos, buf, child, edits>>

\* A write to the data pipe: it waits for room, or SIGPIPE kills the writer.
Send(items, next) ==
  \/ /\ ~NoReader /\ Len(pipe) + Len(items) <= PipeSize
     /\ pipe' = pipe \o items
     /\ ppc' = next
  \/ NoReader /\ ppc' = "killed" /\ UNCHANGED pipe

PMeta ==
  /\ ppc = "meta"
  /\ Send(<<[file |-> File, size |-> stat]>>, "read")
  /\ UNCHANGED <<type, args, present, size, ready, arg, rpos, buf, stat, child, edits>>

\* The next buffer of the file; at its end, the next argument.
PRead ==
  /\ ppc = "read"
  /\ \/ /\ rpos < size[File]
        /\ LET upto == Least(rpos + BufferSize, size[File])
           IN  buf' = Bytes(File, rpos, upto) /\ rpos' = upto
        /\ ppc' = "write"
        /\ UNCHANGED arg
     \/ /\ rpos >= size[File]
        /\ rpos' = 0 /\ arg' = arg + 1
        /\ ppc' = "open"
        /\ UNCHANGED buf
  /\ UNCHANGED <<type, args, present, size, pipe, ready, stat, child, edits>>

PWrite ==
  /\ ppc = "write"
  /\ Send(buf, "read")
  /\ buf' = <<>>
  /\ UNCHANGED <<type, args, present, size, ready, arg, rpos, stat, child, edits>>

\* (Seeded fault: curFile is sent again instead of the end record.)
PEndReuses ==
  /\ ppc = "end"
  /\ Send(<<IF arg = 1 THEN NoFile ELSE [file |-> args[arg - 1], size |-> stat]>>, "wait")
  /\ UNCHANGED <<type, args, present, size, ready, arg, rpos, buf, stat, child, edits>>

\* (Seeded fault: no end record.)
PEndNot ==
  /\ ppc = "end"
  /\ ppc' = "wait"
  /\ UNCHANGED <<type, args, present, size, pipe, ready, arg, rpos, buf, stat, child, edits>>

PEnd ==
  /\ ppc = "end"
  /\ Send(<<NoFile>>, "wait")
  /\ UNCHANGED <<type, args, present, size, ready, arg, rpos, buf, stat, child, edits>>

PWait ==
  /\ ppc = "wait" /\ ChildOver
  /\ ppc' = "done"
  /\ UNCHANGED <<type, args, present, size, pipe, ready, arg, rpos, buf, stat, child, edits>>

-----------------------------------------------------------------------------
(* The child.                                                              *)

CSignal ==
  /\ cpc = "signal"
  /\ \/ ~NoWriter /\ ready' = ready + 1 /\ cpc' = "meta"
     \/ NoWriter /\ cpc' = "killed" /\ UNCHANGED ready
  /\ UNCHANGED <<type, args, present, size, pipe, parent, meta, left, known, copy, edits>>

IsMeta(x) == "size" \in DOMAIN x

\* What the child does with the record in metadata.  The copy may fail to open.
Start(m) ==
  /\ meta' = m /\ known' = TRUE
  /\ \/ /\ m.size = -1
        /\ cpc' = "done"
        /\ UNCHANGED <<left, copy>>
     \/ /\ m.size # -1
        /\ copy' = [copy EXCEPT ![m.file] = <<>>]
        /\ left' = m.size
        /\ cpc' = IF m.size = 0 THEN "signal" ELSE "chunk"
     \/ /\ m.size # -1
        /\ cpc' = "failed"
        /\ UNCHANGED <<left, copy>>

\* Contents taken for metadata: anything may follow.
Garble == cpc' = "garbled" /\ UNCHANGED <<meta, known, left, copy>>

\* The next record.  At the end of the pipe read returns 0, which is not noticed:
\* the child goes on with the record of the file before, or, at the first
\* file, with what the stack holds: then it ends in one of three ways.
CMeta ==
  /\ cpc = "meta"
  /\ \/ /\ pipe # <<>> /\ IsMeta(Head(pipe))
        /\ pipe' = Tail(pipe)
        /\ Start(Head(pipe))
     \/ /\ pipe # <<>> /\ ~IsMeta(Head(pipe))
        /\ pipe' = <<>> /\ Garble
     \/ /\ pipe = <<>> /\ NoWriter /\ known
        /\ Start(meta)
        /\ UNCHANGED pipe
     \/ /\ pipe = <<>> /\ NoWriter /\ ~known
        /\ cpc' \in {"done", "failed", "killed"}
        /\ UNCHANGED <<pipe, meta, known, left, copy>>
  /\ UNCHANGED <<type, args, present, size, ready, parent, edits>>

\* (Seeded fault: the child asks for a whole buffer also at the end of the file.)
WantedWhole == BufferSize
Wanted == Least(BufferSize, left)

\* A buffer, or what there is of it; bytes_left is reduced by what was asked for.
CChunk ==
  /\ cpc = "chunk"
  /\ \/ /\ pipe # <<>>
        /\ LET n == Least(Wanted, Len(pipe))
           IN  /\ copy' = [copy EXCEPT ![meta.file] = @ \o SubSeq(pipe, 1, n)]
               /\ pipe' = SubSeq(pipe, n + 1, Len(pipe))
        /\ left' = left - Wanted
        /\ cpc' = IF left > Wanted THEN "chunk" ELSE "signal"
     \/ /\ pipe = <<>> /\ NoWriter
        /\ cpc' = "failed"
        /\ UNCHANGED <<copy, pipe, left>>
  /\ UNCHANGED <<type, args, present, size, ready, parent, meta, known, edits>>

-----------------------------------------------------------------------------
\* Somebody else makes a file longer or shorter while the copying goes on.
Edit(f) ==
  /\ edits < MaxEdits /\ ~ParentOver /\ f \in present
  /\ edits' = edits + 1
  /\ \E n \in 0 .. MaxSize : size' = [size EXCEPT ![f] = n]
  /\ UNCHANGED <<type, args, present, pipe, ready, parent, child>>

Parent == POpen \/ PReady \/ PStat \/ PMeta \/ PRead \/ PWrite \/ PEnd \/ PWait
Child == CSignal \/ CMeta \/ CChunk

Next == Parent \/ Child \/ \E f \in Files : Edit(f)

Spec == Init /\ [][Next]_vars
FairSpec == Spec /\ WF_vars(Parent) /\ WF_vars(Child)

-----------------------------------------------------------------------------
(* Properties.                                                             *)

\* Every variable keeps its type; the pipe is never overfull, and at most one 'R'
\* is under way.
TypeOK ==
  /\ type \in {"PIPE", "MKFIFO"} /\ args \in Seq(Files) /\ present \subseteq Files
  /\ size \in [Files -> 0 .. MaxSize] /\ stat \in 0 .. MaxSize
  /\ Len(pipe) <= PipeSize /\ ready \in 0 .. 1
  /\ ppc \in {"open", "ready", "lastready", "stat", "meta", "read", "write", "end", "wait",
              "done", "failed", "killed"}
  /\ arg \in 1 .. Len(args) + 1 /\ rpos \in 0 .. MaxSize /\ Len(buf) <= BufferSize
  /\ cpc \in {"signal", "meta", "chunk", "garbled", "done", "failed", "killed"}
  /\ left \in 0 .. MaxSize /\ known \in BOOLEAN
  /\ \A f \in Files : Len(copy[f]) <= MaxSize
  /\ edits \in 0 .. MaxEdits

Whole(f) == copy[f] = Bytes(f, 0, size[f])

\* When both processes report success, every file on the command line was copied
\* byte by byte, unless somebody changed a file meanwhile.
CopiesExact ==
  ppc = "done" /\ cpc = "done" /\ edits = 0 =>
    \A i \in DOMAIN args : Whole(args[i])

Repeated(f) == \E i, j \in DOMAIN args : i # j /\ args[i] = f /\ args[j] = f

\* A complete copy is not destroyed again, unless its file is named twice or the
\* parent stopped at a later file that does not exist: then the child takes the
\* end of the pipe for one more record of the same file (main.c:125-139).
CopyKept ==
  [][\A f \in Files :
       copy[f] # <<>> /\ Whole(f) /\ copy'[f] = <<>> /\ edits = 0
       => Repeated(f) \/ ppc = "failed"]_vars

\* Both processes end, whatever files are missing or cannot be written, unless a file
\* was changed or one of them failed while FIFOs keep the other one waiting.
BothEnd ==
  <>(\/ ParentOver /\ ChildOver
     \/ edits > 0
     \/ type = "MKFIFO" /\ "failed" \in {ppc, cpc})

=============================================================================
