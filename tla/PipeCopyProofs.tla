--------------------------- MODULE PipeCopyProofs ---------------------------
(***************************************************************************)
(* Theorems about PipeCopy, for any files and command lines, any sizes,     *)
(* buffers and pipes, in both kinds of channel.  What both processes report *)
(* as copied is copied byte by byte: the code would lose bytes after a read *)
(* that comes back short, and the theorem shows that none does.  Then, for  *)
(* every order in which files are missing, are changed and one process      *)
(* outlives the other: at most one R and one record are under way, and no   *)
(* copy is emptied again.                                                  *)
(***************************************************************************)
EXTENDS PipeCopy, TLAPS, SequenceTheorems

PipeAssumption ==
  /\ MaxArgs \in Nat /\ MaxSize \in Nat /\ BufferSize \in Nat \ {0}
  /\ PipeSize \in Nat /\ MaxEdits \in Nat

\* The ends of whole buffers.
Mark(c) == \E k \in Nat : c = k * BufferSize

Typed ==
  /\ args \in Seq(Files) /\ size \in [Files -> Nat] /\ DOMAIN copy = Files /\ edits \in Nat

\* The child waits for a record, its R is answered, and q is in the pipe.
Waiting(q) == cpc = "meta" /\ ready = 0 /\ pipe = q

\* The child has nothing to do, and its R is about to be sent or lies in the pipe.
Idle == pipe = <<>> /\ <<cpc, ready>> \in {<<"signal", 0>>, <<"meta", 1>>}

\* The child has c bytes of f, and the next ones up to w are in the pipe.
Copying(f, c, w) ==
  /\ cpc = "chunk" /\ ready = 0 /\ meta.file = f
  /\ Mark(c) /\ c < size[f] /\ c <= w /\ left = size[f] - c
  /\ copy[f] = Bytes(f, 0, c) /\ pipe = Bytes(f, c, w)

\* The parent has sent the record of f and w bytes, which end with a whole buffer or the file.
OnTheWay(f, w) ==
  /\ w \in 0 .. size[f] /\ (w = size[f] \/ Mark(w))
  /\ \/ Waiting(<<[file |-> f, size |-> size[f]]>> \o Bytes(f, 0, w))
     \/ \E c \in Nat : Copying(f, c, w)
     \/ w = size[f] /\ Whole(f) /\ Idle

WholeUpTo(n) == \A i \in 1 .. n : Whole(args[i])

\* The same while f, which may be named twice, is written anew.
WholeBut(n, f) == \A i \in 1 .. n : Whole(args[i]) \/ args[i] = f

\* The parent has sent everything of the file before arg.
Between ==
  ppc \in {"open", "ready", "lastready"} =>
    /\ arg \in 1 .. Len(args) + 1 /\ rpos = 0
    /\ ppc = "ready" => arg <= Len(args)
    /\ ppc = "lastready" => arg = Len(args) + 1
    /\ arg = 1 => Idle
    /\ arg > 1 => /\ WholeBut(arg - 1, args[arg - 1])
                  /\ OnTheWay(args[arg - 1], size[args[arg - 1]])

\* The child has asked for the file arg.
Asked ==
  ppc \in {"stat", "meta"} =>
    /\ arg \in 1 .. Len(args) /\ rpos = 0 /\ (ppc = "meta" => stat = size[File])
    /\ WholeUpTo(arg - 1) /\ Waiting(<<>>)

\* The parent has sent the record of arg and the bytes up to rpos, but for those in buf.
Sending ==
  ppc \in {"read", "write"} =>
    /\ arg \in 1 .. Len(args) /\ WholeBut(arg, File)
    /\ ppc = "read" => OnTheWay(File, rpos)
    /\ ppc = "write" => \E w \in Nat : /\ OnTheWay(File, w) /\ w < size[File]
                                       /\ rpos = Least(w + BufferSize, size[File])
                                       /\ buf = Bytes(File, w, rpos)

Closing ==
  ppc \in {"end", "wait", "done"} =>
    /\ WholeUpTo(Len(args))
    /\ ppc = "end" => Waiting(<<>>)
    /\ ppc = "wait" => Waiting(<<NoFile>>) \/ cpc = "done"
    /\ ppc = "done" => cpc = "done"

Going == ppc \notin {"failed", "killed"} /\ cpc # "failed" /\ edits = 0

CInv ==
  /\ Typed
  /\ Going => /\ ppc \in {"open", "ready", "lastready", "stat", "meta", "read", "write", "end",
                          "wait", "done"}
              /\ Between /\ Asked /\ Sending /\ Closing

-----------------------------------------------------------------------------
(* Marks and bytes.                                                        *)

LEMMA Marks ==
  ASSUME PipeAssumption
  PROVE  /\ Mark(0)
         /\ \A c : Mark(c) => c \in Nat /\ Mark(c + BufferSize)
         /\ \A c, w : Mark(c) /\ Mark(w) /\ c < w => c + BufferSize <= w
<1>1. Mark(0)
  <2>1. 0 = 0 * BufferSize
    BY DEF PipeAssumption
  <2>2. QED
    BY <2>1 DEF Mark
<1>2. ASSUME NEW c, Mark(c) PROVE c \in Nat /\ Mark(c + BufferSize)
  <2>1. PICK k \in Nat : c = k * BufferSize
    BY <1>2 DEF Mark
  <2>2. c \in Nat /\ c + BufferSize = (k + 1) * BufferSize
    BY <2>1 DEF PipeAssumption
  <2>3. k + 1 \in Nat
    OBVIOUS
  <2>4. QED
    BY <2>2, <2>3 DEF Mark
<1>3. ASSUME NEW c, NEW w, Mark(c), Mark(w), c < w PROVE c + BufferSize <= w
  <2>1. PICK k \in Nat : c = k * BufferSize
    BY <1>3 DEF Mark
  <2>2. PICK j \in Nat : w = j * BufferSize
    BY <1>3 DEF Mark
  <2>3. k < j
    BY <1>3, <2>1, <2>2 DEF PipeAssumption
  <2>4. PICK d \in Nat : j = k + 1 + d
    <3>1. j - k - 1 \in Nat /\ j = k + 1 + (j - k - 1)
      BY <2>3
    <3>2. QED
      BY <3>1
  <2>5. w = c + BufferSize + d * BufferSize /\ d * BufferSize >= 0 /\ c \in Nat
    BY <2>1, <2>2, <2>4 DEF PipeAssumption
  <2>6. d * BufferSize \in Nat
    BY DEF PipeAssumption
  <2>7. QED
    BY <2>5, <2>6 DEF PipeAssumption
<1>4. QED
  BY <1>1, <1>2, <1>3

LEMMA BytesTyped ==
  ASSUME NEW f, NEW a \in Nat, NEW b \in Nat, a <= b
  PROVE  /\ Bytes(f, a, b) \in Seq([of : {f}, at : Nat])
         /\ Len(Bytes(f, a, b)) = b - a
         /\ \A k \in 1 .. b - a : Bytes(f, a, b)[k] = [of |-> f, at |-> a + k]
BY DEF Bytes

LEMMA BytesEqual ==
  ASSUME NEW f, NEW a \in Nat, NEW b \in Nat, a <= b, NEW S, NEW s \in Seq(S),
         Len(s) = b - a, \A k \in 1 .. b - a : s[k] = [of |-> f, at |-> a + k]
  PROVE  s = Bytes(f, a, b)
<1>1. /\ s = [k \in DOMAIN s |-> s[k]] /\ DOMAIN s = 1 .. Len(s)
  BY LenProperties
<1>2. s = [k \in 1 .. b - a |-> s[k]]
  BY <1>1
<1>3. [k \in 1 .. b - a |-> s[k]] = [k \in 1 .. b - a |-> [of |-> f, at |-> a + k]]
  OBVIOUS
<1>4. QED
  BY <1>2, <1>3 DEF Bytes

LEMMA BytesEmpty ==
  ASSUME NEW f, NEW a \in Nat
  PROVE  Bytes(f, a, a) = <<>>
<1>1. <<>> \in Seq({}) /\ Len(<<>>) = a - a /\ a <= a /\ 1 .. a - a = {}
  OBVIOUS
<1>2. QED
  BY <1>1, BytesEqual

LEMMA BytesConcat ==
  ASSUME NEW f, NEW a \in Nat, NEW b \in Nat, NEW c \in Nat, a <= b, b <= c
  PROVE  Bytes(f, a, b) \o Bytes(f, b, c) = Bytes(f, a, c)
<1> DEFINE s == Bytes(f, a, b)
           t == Bytes(f, b, c)
           S == [of : {f}, at : Nat]
<1>1. /\ s \in Seq(S) /\ Len(s) = b - a /\ \A k \in 1 .. b - a : s[k] = [of |-> f, at |-> a + k]
      /\ t \in Seq(S) /\ Len(t) = c - b /\ \A k \in 1 .. c - b : t[k] = [of |-> f, at |-> b + k]
  BY BytesTyped
<1> HIDE DEF s, t, S
<1>2. /\ s \o t \in Seq(S) /\ Len(s \o t) = Len(s) + Len(t)
      /\ \A i \in 1 .. Len(s) + Len(t) :
           (s \o t)[i] = IF i <= Len(s) THEN s[i] ELSE t[i - Len(s)]
  BY <1>1, ConcatProperties
<1>3. \A k \in 1 .. c - a : (s \o t)[k] = [of |-> f, at |-> a + k]
  <2> TAKE k \in 1 .. c - a
  <2>1. CASE k <= b - a
    <3>1. k \in 1 .. b - a /\ k \in 1 .. Len(s) + Len(t) /\ k <= Len(s)
      BY <1>1, <2>1
    <3>2. QED
      BY <1>1, <1>2, <3>1
  <2>2. CASE k > b - a
    <3>1. k - (b - a) \in 1 .. c - b /\ b + (k - (b - a)) = a + k
      BY <2>2
    <3>2. k \in 1 .. Len(s) + Len(t) /\ ~(k <= Len(s)) /\ k - Len(s) = k - (b - a)
      BY <1>1, <2>2
    <3>3. (s \o t)[k] = t[k - (b - a)]
      BY <1>2, <3>2
    <3>4. QED
      BY <1>1, <3>1, <3>3
  <2>3. k <= b - a \/ k > b - a
    OBVIOUS
  <2>4. QED
    BY <2>1, <2>2, <2>3
<1>4. s \o t = Bytes(f, a, c)
  <2>1. Len(s \o t) = c - a /\ a <= c
    BY <1>1, <1>2
  <2>2. QED
    BY <1>2, <1>3, <2>1, BytesEqual
<1>5. QED
  BY <1>4 DEF s, t

\* What a read of m - a bytes takes, and what it leaves.
LEMMA BytesCut ==
  ASSUME NEW f, NEW a \in Nat, NEW m \in Nat, NEW b \in Nat, a < m, m <= b
  PROVE  /\ SubSeq(Bytes(f, a, b), 1, m - a) = Bytes(f, a, m)
         /\ SubSeq(Bytes(f, a, b), m - a + 1, Len(Bytes(f, a, b))) = Bytes(f, m, b)
<1>0. PICK n \in Nat : n = m - a /\ 1 <= n /\ a + n = m
  <2>1. m - a \in Nat /\ 1 <= m - a /\ a + (m - a) = m
    OBVIOUS
  <2>2. QED
    BY <2>1
<1> DEFINE s == Bytes(f, a, b)
           S == [of : {f}, at : Nat]
           first == SubSeq(s, 1, n)
           rest == SubSeq(s, n + 1, Len(s))
<1>1. /\ s \in Seq(S) /\ Len(s) = b - a
      /\ \A k \in 1 .. b - a : s[k] = [of |-> f, at |-> a + k] /\ s[k] \in S
  <2>1. \A k \in 1 .. b - a : [of |-> f, at |-> a + k] \in S
    OBVIOUS
  <2>2. a <= b
    OBVIOUS
  <2>3. /\ s \in Seq(S) /\ Len(s) = b - a
        /\ \A k \in 1 .. b - a : s[k] = [of |-> f, at |-> a + k]
    BY <2>2, BytesTyped
  <2>4. QED
    BY <2>1, <2>3
<1> HIDE DEF s, S
<1>2. /\ first \in Seq(S) /\ Len(first) = (IF 1 <= n THEN n - 1 + 1 ELSE 0)
      /\ \A i \in 1 .. n - 1 + 1 : first[i] = s[1 + i - 1]
  <2>1. \A i \in 1 .. n : s[i] \in S
    BY <1>0, <1>1
  <2>2. QED
    BY <2>1, SubSeqProperties
<1>3. /\ rest \in Seq(S) /\ Len(rest) = (IF n + 1 <= Len(s) THEN Len(s) - (n + 1) + 1 ELSE 0)
      /\ \A i \in 1 .. Len(s) - (n + 1) + 1 : rest[i] = s[n + 1 + i - 1]
  <2>1. \A i \in n + 1 .. Len(s) : s[i] \in S
    BY <1>1
  <2>2. n + 1 \in Int /\ Len(s) \in Int
    BY <1>1
  <2>3. QED
    BY <2>1, <2>2, SubSeqProperties
<1> HIDE DEF first, rest
<1>4. Len(first) = n /\ \A k \in 1 .. n : first[k] = [of |-> f, at |-> a + k]
  <2>1. Len(first) = n
    BY <1>2
  <2>2. ASSUME NEW k \in 1 .. n PROVE first[k] = [of |-> f, at |-> a + k]
    <3>1. k \in 1 .. n - 1 + 1 /\ 1 + k - 1 = k /\ k \in 1 .. b - a
      BY <1>0
    <3>2. first[k] = s[k]
      BY <1>2, <3>1
    <3>3. QED
      BY <1>1, <3>1, <3>2
  <2>3. QED
    BY <2>1, <2>2
<1>5. Len(rest) = b - m /\ \A k \in 1 .. b - m : rest[k] = [of |-> f, at |-> m + k]
  <2>1. Len(rest) = b - m
    BY <1>0, <1>1, <1>3
  <2>2. ASSUME NEW k \in 1 .. b - m PROVE rest[k] = [of |-> f, at |-> m + k]
    <3>1. k \in 1 .. Len(s) - (n + 1) + 1 /\ n + 1 + k - 1 \in 1 .. b - a /\ n + 1 + k - 1 = n + k
      BY <1>0, <1>1
    <3>2. rest[k] = s[n + k]
      BY <1>3, <3>1
    <3>3. s[n + k] = [of |-> f, at |-> a + (n + k)] /\ a + (n + k) = m + k
      BY <1>0, <1>1, <3>1
    <3>4. QED
      BY <3>2, <3>3
  <2>3. QED
    BY <2>1, <2>2
<1>6. first = Bytes(f, a, m)
  <2>1. Len(first) = m - a /\ a <= m /\ \A k \in 1 .. m - a : first[k] = [of |-> f, at |-> a + k]
    BY <1>0, <1>4
  <2>2. QED
    BY <1>2, <2>1, BytesEqual
<1>7. rest = Bytes(f, m, b)
  <2>1. Len(rest) = b - m /\ m <= b /\ \A k \in 1 .. b - m : rest[k] = [of |-> f, at |-> m + k]
    BY <1>5
  <2>2. rest \in Seq(S)
    BY <1>3
  <2>3. QED
    BY <2>1, <2>2, BytesEqual
<1>8. QED
  BY <1>0, <1>6, <1>7 DEF first, rest, s

-----------------------------------------------------------------------------
(* The child.                                                              *)

\* Nothing of the parent and of the files changes, the end of the pipe is not met, and the
\* copy opens.
ChildStep == Child /\ ~NoWriter /\ cpc' # "failed"

\* A record in the pipe is taken for the record it is.
LEMMA RecordTaken ==
  ASSUME Typed, NEW f \in Files, NEW w \in 0 .. size[f], w = size[f] \/ Mark(w), PipeAssumption,
         Waiting(<<[file |-> f, size |-> size[f]]>> \o Bytes(f, 0, w)), ChildStep
  PROVE  OnTheWay(f, w)' /\ \A g \in Files : g # f => copy'[g] = copy[g]
<1> DEFINE r == [file |-> f, size |-> size[f]]
           bytes == Bytes(f, 0, w)
<1>0. size[f] \in Nat /\ w \in Nat /\ r.size = size[f] /\ r.file = f /\ IsMeta(r) /\ r.size # -1
  BY DEF Typed, IsMeta
<1>1. pipe # <<>> /\ Head(pipe) = r /\ Tail(pipe) = bytes
  <2>1. bytes \in Seq([of : {f}, at : Nat])
    BY <1>0, BytesTyped
  <2> HIDE DEF r, bytes
  <2>2. pipe = <<r>> \o bytes
    BY DEF Waiting, r, bytes
  <2>3. QED
    BY <2>1, <2>2
<1>2. /\ pipe' = bytes /\ meta' = r /\ copy' = [copy EXCEPT ![f] = <<>>] /\ left' = size[f]
      /\ cpc' = IF size[f] = 0 THEN "signal" ELSE "chunk"
      /\ UNCHANGED <<type, args, present, size, ready, parent, edits>>
  <2>1. CMeta
    BY DEF Child, ChildStep, CSignal, CChunk, Waiting
  <2> HIDE DEF r, bytes
  <2>2. Start(r) /\ pipe' = bytes /\ UNCHANGED <<type, args, present, size, ready, parent, edits>>
    BY <1>0, <1>1, <2>1 DEF CMeta, ChildStep
  <2>3. QED
    BY <1>0, <2>2 DEF Start, ChildStep
<1>3. copy'[f] = <<>> /\ \A g \in Files : g # f => copy'[g] = copy[g]
  BY <1>2 DEF Typed
<1>4. Bytes(f, 0, 0) = <<>>
  BY BytesEmpty
<1>5. CASE size[f] = 0
  <2>1. w = 0 /\ pipe' = <<>> /\ cpc' = "signal" /\ ready' = 0
    BY <1>0, <1>2, <1>4, <1>5 DEF Waiting
  <2>2. size'[f] = 0
    BY <1>2, <1>5
  <2>3. Whole(f)'
    BY <1>3, <1>4, <2>2 DEF Whole
  <2>4. Idle'
    BY <2>1 DEF Idle
  <2>5. QED
    BY <1>3, <2>1, <2>2, <2>3, <2>4 DEF OnTheWay
<1>6. CASE size[f] # 0
  <2>1. Copying(f, 0, w)'
    BY <1>0, <1>2, <1>3, <1>4, <1>6, Marks DEF Copying, Waiting, Bytes, Mark
  <2>2. QED
    BY <1>0, <1>2, <1>3, <2>1 DEF OnTheWay, Mark
<1>7. QED
  BY <1>5, <1>6

\* The read for a buffer gets a buffer: what is in the pipe ends with a buffer or the file.
LEMMA ChunkWhole ==
  ASSUME Typed, NEW f \in Files, NEW w \in 0 .. size[f], w = size[f] \/ Mark(w), PipeAssumption,
         NEW c \in Nat, Copying(f, c, w), ChildStep
  PROVE  OnTheWay(f, w)' /\ \A g \in Files : g # f => copy'[g] = copy[g]
<1>0. size[f] \in Nat /\ w \in Nat /\ c < size[f] /\ c <= w /\ left = size[f] - c /\ Mark(c)
  BY DEF Typed, Copying
<1>1. CChunk /\ pipe # <<>>
  BY DEF Child, ChildStep, CSignal, CMeta, CChunk, Copying
<1>2. Len(pipe) = w - c /\ c < w
  <2>1. pipe = Bytes(f, c, w) /\ Len(pipe) = w - c
    <3>1. Len(Bytes(f, c, w)) = w - c
      BY <1>0, BytesTyped
    <3>2. QED
      BY <3>1 DEF Copying
  <2>2. c # w
    BY <1>0, <1>1, <2>1, BytesEmpty
  <2>3. QED
    BY <1>0, <2>1, <2>2
<1>a. PICK n : n = Wanted
  OBVIOUS
<1>3. /\ n \in Nat /\ 1 <= n /\ c + n <= w /\ n <= left /\ Least(n, Len(pipe)) = n
      /\ left > n => n = BufferSize
  <2>1. n = Least(BufferSize, left) /\ BufferSize \in Nat /\ BufferSize > 0
    BY <1>a DEF Wanted, PipeAssumption
  <2>2. n \in Nat /\ 1 <= n /\ n <= left /\ n <= BufferSize /\ (left > n => n = BufferSize)
    BY <1>0, <2>1 DEF Least
  <2>3. c + n <= w
    <3>1. CASE w = size[f]
      BY <1>0, <2>2, <3>1
    <3>2. CASE Mark(w)
      <4>1. c + BufferSize <= w
        BY <1>0, <1>2, <3>2, Marks
      <4>2. QED
        BY <1>0, <2>1, <2>2, <4>1
    <3>3. QED
      BY <3>1, <3>2
  <2>4. QED
    BY <1>0, <1>2, <2>2, <2>3 DEF Least
<1>4. /\ copy' = [copy EXCEPT ![f] = copy[f] \o SubSeq(pipe, 1, n)]
      /\ pipe' = SubSeq(pipe, n + 1, Len(pipe))
      /\ left' = left - n /\ cpc' = IF left > n THEN "chunk" ELSE "signal"
      /\ UNCHANGED <<type, args, present, size, ready, parent, meta, known, edits>>
  BY <1>1, <1>3, <1>a DEF CChunk, Copying
<1>5. copy'[f] = copy[f] \o SubSeq(pipe, 1, n) /\ \A g \in Files : g # f => copy'[g] = copy[g]
  BY <1>4 DEF Typed
<1>6. copy'[f] = Bytes(f, 0, c + n) /\ pipe' = Bytes(f, c + n, w)
  <2>1. pipe = Bytes(f, c, w)
    BY DEF Copying
  <2>a. /\ SubSeq(Bytes(f, c, w), 1, n) = Bytes(f, c, c + n)
        /\ SubSeq(Bytes(f, c, w), n + 1, Len(Bytes(f, c, w))) = Bytes(f, c + n, w)
    <3>1. PICK m \in Nat : m = c + n /\ m - c = n /\ c < m /\ m <= w
      <4>1. c + n \in Nat /\ (c + n) - c = n /\ c < c + n
        BY <1>3
      <4>2. QED
        BY <1>3, <4>1
    <3>2. w \in Nat
      BY <1>0
    <3>3. /\ SubSeq(Bytes(f, c, w), 1, m - c) = Bytes(f, c, m)
          /\ SubSeq(Bytes(f, c, w), m - c + 1, Len(Bytes(f, c, w))) = Bytes(f, m, w)
      <4>1. c \in Nat /\ m \in Nat /\ w \in Nat /\ c < m /\ m <= w
        BY <3>1, <3>2
      <4>2. QED
        BY ONLY <4>1, BytesCut, ZenonT(40)
    <3>4. QED
      BY <3>1, <3>3
  <2>2. 0 \in Nat /\ c + n \in Nat /\ 0 <= c /\ c <= c + n
    BY <1>3
  <2>3. Bytes(f, 0, c) \o Bytes(f, c, c + n) = Bytes(f, 0, c + n)
    BY <2>2, BytesConcat
  <2>4. QED
    BY <1>4, <1>5, <2>1, <2>a, <2>3 DEF Copying
<1>7. CASE left > n
  <2>1. Mark(c + BufferSize)
    BY <1>0, Marks
  <2>2. n = BufferSize
    BY <1>3, <1>7
  <2>3. c + n < size[f] /\ left' = size[f] - (c + n)
    BY <1>0, <1>3, <1>4, <1>7
  <2>4. Mark(c + n) /\ c + n \in Nat
    BY <1>3, <2>1, <2>2
  <2>5. UNCHANGED <<size, ready, meta>> /\ cpc' = "chunk"
    BY <1>4, <1>7
  <2>6. Copying(f, c + n, w)'
    BY <1>3, <1>6, <2>3, <2>4, <2>5 DEF Copying, Mark
  <2>7. (w \in 0 .. size[f] /\ (w = size[f] \/ Mark(w)))'
    BY <2>5 DEF Mark
  <2>8. QED
    BY <1>5, <2>4, <2>6, <2>7 DEF OnTheWay
<1>8. CASE ~(left > n)
  <2>1. c + n = size[f] /\ w = size[f]
    BY <1>0, <1>3, <1>8
  <2>2. pipe' = <<>>
    BY <1>0, <1>6, <2>1, BytesEmpty
  <2>3. Whole(f)' /\ Idle'
    <3>1. UNCHANGED <<size, ready>> /\ cpc' = "signal" /\ ready = 0
      BY <1>4, <1>8 DEF Copying
    <3>2. QED
      BY <1>6, <2>1, <2>2, <3>1 DEF Whole, Idle
  <2>4. QED
    BY <1>0, <1>4, <1>5, <2>1, <2>3 DEF OnTheWay
<1>9. QED
  BY <1>7, <1>8

\* With nothing in the pipe the child can only ask for more.
LEMMA IdleStep ==
  ASSUME Idle, ChildStep
  PROVE  Idle' /\ copy' = copy
BY DEF Idle, ChildStep, Child, CSignal, CMeta, CChunk

LEMMA ChildOnTheWay ==
  ASSUME Typed, NEW f \in Files, NEW w, OnTheWay(f, w), PipeAssumption, ChildStep
  PROVE  OnTheWay(f, w)' /\ \A g \in Files : g # f => copy'[g] = copy[g]
<1>1. w \in 0 .. size[f] /\ (w = size[f] \/ Mark(w)) /\ size' = size
  BY DEF OnTheWay, ChildStep, Child, CSignal, CMeta, CChunk
<1>2. CASE Waiting(<<[file |-> f, size |-> size[f]]>> \o Bytes(f, 0, w))
  BY <1>1, <1>2, RecordTaken
<1>3. CASE \E c \in Nat : Copying(f, c, w)
  BY <1>1, <1>3, ChunkWhole
<1>4. CASE w = size[f] /\ Whole(f) /\ Idle
  BY <1>1, <1>4, IdleStep DEF OnTheWay, Whole, Bytes
<1>5. QED
  BY <1>2, <1>3, <1>4 DEF OnTheWay

-----------------------------------------------------------------------------
(* The steps.                                                              *)

\* While the parent waits the child can only take the record of the end.
LEMMA LastRecord ==
  ASSUME CInv, Going, ppc = "wait", Child
  PROVE  CInv'
<1>1. cpc = "meta" /\ pipe = <<NoFile>> /\ CMeta
  BY DEF CInv, Closing, Waiting, Child, CSignal, CMeta, CChunk
<1>2. Head(pipe) = NoFile /\ IsMeta(NoFile) /\ NoFile.size = -1
  BY <1>1 DEF IsMeta, NoFile
<1>3. Start(NoFile) /\ UNCHANGED <<type, args, present, size, ready, parent, edits>>
  BY <1>1, <1>2 DEF CMeta
<1>4. cpc' = "done" /\ copy' = copy
  BY <1>2, <1>3 DEF Start
<1>5. ppc' = "wait" /\ args' = args /\ size' = size
  BY <1>3 DEF parent
<1>6. Typed'
  BY <1>3, <1>4, <1>5 DEF CInv, Typed
<1>7. Closing'
  BY <1>4, <1>5 DEF CInv, Closing, WholeUpTo, Whole, Bytes
<1>8. QED
  BY <1>5, <1>6, <1>7 DEF CInv, Between, Asked, Sending

LEMMA ChildKeeps ==
  ASSUME PipeAssumption, CInv, Child
  PROVE  CInv'
<1>1. /\ UNCHANGED <<type, args, present, size, parent, edits>>
      /\ DOMAIN copy' = DOMAIN copy
  BY DEF Child, CSignal, CMeta, CChunk, Start, Garble
<1>2. Typed'
  BY <1>1 DEF CInv, Typed
<1>3. SUFFICES ASSUME Going, Going', ppc # "wait" PROVE (Between /\ Asked /\ Sending /\ Closing)'
  <2>1. Going' => Going
    BY <1>1 DEF Going, parent, Child, CSignal, CMeta, CChunk
  <2>2. Going' => CInv' \/ ppc # "wait"
    BY <2>1, LastRecord
  <2>3. ppc' = ppc
    BY <1>1 DEF parent
  <2>4. QED
    BY <1>2, <2>1, <2>2, <2>3 DEF CInv
<1>4. ppc = "done" => cpc = "done"
  BY <1>3 DEF CInv, Closing
<1>5. ChildStep
  BY <1>3, <1>4 DEF ChildStep, Child, CSignal, CMeta, CChunk, NoWriter, ParentOver, Going
<1>6. parent' = parent /\ args' = args /\ size' = size /\ File' = File /\ ppc' = ppc /\ arg' = arg
  BY <1>1 DEF parent, File
<1>7. ASSUME NEW n, NEW f \in Files, NEW w, WholeBut(n, f), OnTheWay(f, w), n \in 0 .. Len(args)
      PROVE  WholeBut(n, f)' /\ OnTheWay(f, w)'
  <2>1. OnTheWay(f, w)' /\ \A g \in Files : g # f => copy'[g] = copy[g]
    BY <1>5, <1>7, ChildOnTheWay DEF CInv
  <2>2. \A i \in 1 .. n : args[i] \in Files
    BY <1>7, ElementOfSeq, LenProperties DEF CInv, Typed
  <2>3. ASSUME NEW i \in 1 .. n PROVE Whole(args[i])' \/ args'[i] = f
    BY <1>6, <1>7, <2>1, <2>2, <2>3 DEF WholeBut, Whole
  <2>4. QED
    BY <2>1, <2>3 DEF WholeBut
<1>8. ASSUME NEW i \in 1 .. Len(args) PROVE args[i] \in Files
  BY ElementOfSeq, LenProperties DEF CInv, Typed
<1>9. Between'
  <2>1. SUFFICES ASSUME ppc \in {"open", "ready", "lastready"} PROVE Between'
    BY <1>6 DEF Between
  <2>2. CASE arg = 1
    <3>1. Idle'
      BY <1>3, <1>5, <2>1, <2>2, IdleStep DEF CInv, Between
    <3>2. QED
      BY <1>1, <1>3, <2>1, <2>2, <3>1 DEF CInv, Between, parent
  <2>3. CASE arg # 1
    <3>1. PICK n \in Nat : n = arg - 1 /\ n \in 1 .. Len(args)
      BY <1>3, <2>1, <2>3, LenProperties DEF CInv, Between, Typed
    <3>2. PICK f \in Files : f = args[n]
      BY <1>8, <3>1
    <3>3. PICK w : w = size[f]
      OBVIOUS
    <3>4. WholeBut(n, f) /\ OnTheWay(f, w)
      BY <1>3, <2>1, <2>3, <3>1, <3>2, <3>3 DEF CInv, Between
    <3>5. WholeBut(n, f)' /\ OnTheWay(f, w)'
      BY <1>7, <3>1, <3>4
    <3>6. n = arg' - 1 /\ f = args'[arg' - 1] /\ w = size'[args'[arg' - 1]]
      BY <1>6, <3>1, <3>2, <3>3
    <3>7. WholeBut(arg - 1, args[arg - 1])' /\ OnTheWay(args[arg - 1], size[args[arg - 1]])'
      BY <3>5, <3>6
    <3>8. QED
      BY <1>1, <1>3, <2>1, <2>3, <3>7 DEF CInv, Between, parent
  <2>4. QED
    BY <2>2, <2>3
<1>10. Asked'
  BY <1>3, <1>5, <1>6 DEF CInv, Asked, Waiting, ChildStep, Child, CSignal, CMeta, CChunk
<1>11. Sending'
  <2>1. SUFFICES ASSUME ppc \in {"read", "write"} PROVE Sending'
    BY <1>6 DEF Sending
  <2>2. PICK n \in 1 .. Len(args) : n = arg /\ WholeBut(arg, File)
    BY <1>3, <2>1 DEF CInv, Sending
  <2>3. PICK f \in Files : f = File
    BY <1>8, <2>2 DEF File
  <2>4. PICK w : OnTheWay(f, w) /\ (ppc = "read" => w = rpos)
                 /\ (ppc = "write" => /\ w \in Nat /\ w < size[File]
                                      /\ rpos = Least(w + BufferSize, size[File])
                                      /\ buf = Bytes(File, w, rpos))
    BY <1>3, <2>1, <2>3 DEF CInv, Sending
  <2>5. n \in 0 .. Len(args) /\ WholeBut(n, f)
    BY <2>2, <2>3
  <2>6. WholeBut(n, f)' /\ OnTheWay(f, w)'
    BY <1>7, <2>4, <2>5
  <2>7. WholeBut(arg, File)' /\ OnTheWay(File, w)'
    BY <1>6, <2>2, <2>3, <2>6
  <2>8. rpos' = rpos /\ buf' = buf /\ arg' \in 1 .. Len(args')
    BY <1>1, <1>6, <2>2 DEF parent
  <2>9. QED
    BY <1>6, <2>1, <2>4, <2>7, <2>8 DEF Sending
<1>12. Closing'
  <2>1. ppc \notin {"end", "done"}
    BY <1>3, <1>5 DEF CInv, Closing, Waiting, ChildStep, Child, CSignal, CMeta, CChunk
  <2>2. QED
    BY <1>3, <1>6, <2>1 DEF Closing
<1>13. QED
  BY <1>9, <1>10, <1>11, <1>12

\* The parent meets no child that has ended before it sent the end record.
LEMMA ChildLives ==
  ASSUME CInv, Going, ppc \notin {"wait", "done"}
  PROVE  ~NoReader /\ cpc \in {"signal", "meta", "chunk"}
<1>1. cpc \in {"signal", "meta", "chunk"}
  <2>1. CASE ppc \in {"open", "ready", "lastready"}
    <3>1. arg \in 1 .. Len(args) + 1 /\ (arg = 1 \/ arg > 1)
      BY <2>1, LenProperties DEF CInv, Between, Typed
    <3>2. QED
      BY <2>1, <3>1 DEF CInv, Between, Idle, OnTheWay, Waiting, Copying
  <2>2. CASE ppc \in {"stat", "meta", "end"}
    BY <2>2 DEF CInv, Asked, Closing, Waiting
  <2>3. CASE ppc \in {"read", "write"}
    BY <2>3 DEF CInv, Sending, OnTheWay, Waiting, Copying, Idle
  <2>4. QED
    BY <2>1, <2>2, <2>3 DEF CInv, Going
<1>2. QED
  BY <1>1 DEF NoReader, ChildOver

\* The next bytes follow those under way.
LEMMA BytesSent ==
  ASSUME PipeAssumption, Typed, NEW f \in Files, NEW w \in Nat, NEW v \in Nat, OnTheWay(f, w),
         w < size[f], v = Least(w + BufferSize, size[f]), pipe' = pipe \o Bytes(f, w, v),
         UNCHANGED <<size, ready, child>>
  PROVE  OnTheWay(f, v)'
<1>0. size[f] \in Nat /\ BufferSize \in Nat /\ BufferSize > 0
  BY DEF Typed, PipeAssumption
<1>1. w < v /\ v <= size[f]
  BY <1>0 DEF Least
<1>2. v = size[f] \/ Mark(v)
  <2>1. Mark(w)
    BY <1>0 DEF OnTheWay
  <2>2. QED
    BY <1>0, <2>1, Marks DEF Least
<1>3. size' = size /\ ready' = ready /\ cpc' = cpc /\ meta' = meta /\ left' = left /\ copy' = copy
  BY DEF child
<1>4. CASE Waiting(<<[file |-> f, size |-> size[f]]>> \o Bytes(f, 0, w))
  <2>1. PICK r : r = [file |-> f, size |-> size[f]]
    OBVIOUS
  <2>2. PICK S : S = [of : {f}, at : Nat] \cup {r}
    OBVIOUS
  <2>3. <<r>> \in Seq(S) /\ Bytes(f, 0, w) \in Seq(S) /\ Bytes(f, w, v) \in Seq(S)
    <3>1. Bytes(f, 0, w) \in Seq([of : {f}, at : Nat])
      BY BytesTyped
    <3>2. Bytes(f, w, v) \in Seq([of : {f}, at : Nat])
      <4>1. w <= v
        BY <1>1
      <4>2. QED
        BY <4>1, BytesTyped
    <3>3. [of : {f}, at : Nat] \subseteq S /\ r \in S
      BY <2>2
    <3>4. ASSUME NEW q \in Seq([of : {f}, at : Nat]) PROVE q \in Seq(S)
      BY <3>3, <3>4, SeqMonotonic
    <3>5. <<r>> \in Seq(S)
      BY <3>3
    <3>6. QED
      BY <3>1, <3>2, <3>4, <3>5
  <2>4. (<<r>> \o Bytes(f, 0, w)) \o Bytes(f, w, v) = <<r>> \o Bytes(f, 0, v)
    <3>1. (<<r>> \o Bytes(f, 0, w)) \o Bytes(f, w, v) = <<r>> \o (Bytes(f, 0, w) \o Bytes(f, w, v))
      BY <2>3, ConcatAssociative
    <3>2. 0 \in Nat /\ 0 <= w /\ w <= v
      BY <1>1
    <3>3. Bytes(f, 0, w) \o Bytes(f, w, v) = Bytes(f, 0, v)
      BY <3>2, BytesConcat
    <3>4. QED
      BY <3>1, <3>3
  <2>5. pipe' = <<r>> \o Bytes(f, 0, v)
    BY <1>4, <2>1, <2>4 DEF Waiting
  <2>6. Waiting(<<[file |-> f, size |-> size[f]]>> \o Bytes(f, 0, v))'
    BY <1>3, <1>4, <2>1, <2>5 DEF Waiting
  <2>7. QED
    BY <1>1, <1>2, <1>3, <2>6 DEF OnTheWay, Mark
<1>5. CASE \E c \in Nat : Copying(f, c, w)
  <2>1. PICK c \in Nat : Copying(f, c, w)
    BY <1>5
  <2>2. Bytes(f, c, w) \o Bytes(f, w, v) = Bytes(f, c, v)
    <3>1. c <= w /\ w <= v
      BY <1>1, <2>1 DEF Copying
    <3>2. QED
      BY <3>1, BytesConcat
  <2>3. pipe' = Bytes(f, c, v) /\ c <= v
    BY <1>1, <2>1, <2>2 DEF Copying
  <2>4. Copying(f, c, v)'
    BY <1>3, <2>1, <2>3 DEF Copying, Mark
  <2>5. QED
    BY <1>1, <1>2, <1>3, <2>4 DEF OnTheWay, Mark
<1>6. QED
  BY <1>0, <1>4, <1>5 DEF OnTheWay

\* A step of the parent that sends nothing leaves what is under way.
LEMMA WayKept ==
  ASSUME NEW f, NEW w, UNCHANGED <<size, pipe, ready, child>>
  PROVE  OnTheWay(f, w)' = OnTheWay(f, w) /\ Idle' = Idle
<1>1. size' = size /\ pipe' = pipe /\ ready' = ready /\ cpc' = cpc /\ meta' = meta /\ left' = left
      /\ copy' = copy
  BY DEF child
<1>2. Idle' = Idle
  BY <1>1 DEF Idle
<1>3. OnTheWay(f, w)' = OnTheWay(f, w)
  BY <1>1 DEF OnTheWay, Waiting, Copying, Whole, Idle
<1>4. QED
  BY <1>2, <1>3

LEMMA AnswerKeeps ==
  ASSUME PipeAssumption, CInv, Going, POpen \/ PReady \/ PStat
  PROVE  CInv'
<1>1. UNCHANGED <<args, size, edits, pipe, arg, rpos, buf, child>>
  BY DEF POpen, PReady, PStat
<1>2. Typed' /\ copy' = copy /\ cpc' = cpc
  BY <1>1 DEF CInv, Typed, child
<1>3. Len(args) \in Nat
  BY LenProperties DEF CInv, Typed
<1>4. ASSUME NEW n PROVE WholeUpTo(n)' = WholeUpTo(n) /\ \A f : WholeBut(n, f)' = WholeBut(n, f)
  BY <1>1, <1>2 DEF WholeUpTo, WholeBut, Whole
<1>5. CASE POpen
  <2>1. ready' = ready /\ arg \in 1 .. Len(args) + 1 /\ rpos = 0 /\ ppc = "open"
    BY <1>5 DEF POpen, CInv, Going, Between
  <2>2. CASE arg = 1
    <3>1. Idle'
      BY <1>1, <2>1, <2>2 DEF CInv, Going, Between, Idle, child
    <3>2. QED
      BY <1>1, <1>2, <1>3, <1>5, <2>1, <2>2, <3>1
         DEF POpen, CInv, Going, Between, Asked, Sending, Closing
  <2>3. CASE arg # 1
    <3>1. PICK f : f = args[arg - 1]
      OBVIOUS
    <3>2. PICK w : w = size[f]
      OBVIOUS
    <3>3. PICK n : n = arg - 1
      OBVIOUS
    <3>4. WholeBut(n, f) /\ OnTheWay(f, w)
      BY <2>1, <2>3, <3>1, <3>2, <3>3 DEF CInv, Going, Between
    <3>5. WholeBut(n, f)' /\ OnTheWay(f, w)'
      BY <1>1, <1>4, <2>1, <3>4, WayKept
    <3>6. WholeBut(arg - 1, args[arg - 1])' /\ OnTheWay(args[arg - 1], size[args[arg - 1]])'
      BY <1>1, <3>1, <3>2, <3>3, <3>5
    <3>7. QED
      BY <1>1, <1>2, <1>3, <1>5, <2>1, <2>3, <3>6
         DEF POpen, CInv, Going, Between, Asked, Sending, Closing
  <2>4. QED
    BY <2>2, <2>3
<1>6. CASE PReady
  <2>1. ready > 0 /\ ready' = ready - 1
    BY <1>6, ChildLives DEF PReady
  <2>2. arg \in 1 .. Len(args) + 1 /\ rpos = 0
    BY <1>6 DEF PReady, CInv, Going, Between
  <2>3. Idle /\ WholeUpTo(arg - 1)
    <3>1. CASE arg = 1
      BY <1>6, <3>1 DEF PReady, CInv, Going, Between, WholeUpTo
    <3>2. CASE arg # 1
      <4>1. arg > 1 /\ ppc \in {"open", "ready", "lastready"}
        BY <1>6, <2>2, <3>2 DEF PReady
      <4>2. Whole(args[arg - 1]) /\ Idle /\ WholeBut(arg - 1, args[arg - 1])
        BY <2>1, <4>1 DEF CInv, Going, Between, OnTheWay, Waiting, Copying
      <4>3. QED
        BY <4>2 DEF WholeBut, WholeUpTo
    <3>3. QED
      BY <3>1, <3>2
  <2>4. Waiting(<<>>)'
    BY <1>1, <1>2, <2>1, <2>3 DEF Idle, Waiting
  <2>5. WholeUpTo(arg - 1)'
    BY <1>1, <1>2, <2>3 DEF WholeUpTo, Whole
  <2>6. CASE ppc = "ready"
    BY <1>1, <1>2, <1>6, <2>2, <2>4, <2>5, <2>6
       DEF PReady, CInv, Going, Between, Asked, Sending, Closing
  <2>7. CASE ppc = "lastready"
    <3>1. arg - 1 = Len(args) /\ ppc' = "end"
      BY <1>3, <1>6, <2>7 DEF PReady, CInv, Going, Between
    <3>2. WholeUpTo(Len(args))'
      BY <1>1, <2>5, <3>1
    <3>3. QED
      BY <1>1, <1>2, <2>4, <3>1, <3>2 DEF CInv, Going, Between, Asked, Sending, Closing
  <2>8. QED
    BY <1>6, <2>6, <2>7 DEF PReady
<1>7. CASE PStat
  <2>1. Waiting(<<>>)'
    BY <1>1, <1>2, <1>7 DEF PStat, CInv, Going, Asked, Waiting
  <2>2. WholeUpTo(arg - 1)'
    BY <1>1, <1>2, <1>7 DEF PStat, CInv, Going, Asked, WholeUpTo, Whole
  <2>3. QED
    BY <1>1, <1>2, <1>7, <2>1, <2>2
       DEF PStat, CInv, Going, Between, Asked, Sending, Closing, File
<1>8. QED
  BY <1>5, <1>6, <1>7

LEMMA SendKeeps ==
  ASSUME PipeAssumption, CInv, Going, PMeta \/ PRead \/ PWrite
  PROVE  CInv'
<1>1. UNCHANGED <<args, size, edits, ready, child>>
  BY DEF PMeta, PRead, PWrite
<1>2. Typed' /\ copy' = copy /\ cpc' = cpc
  BY <1>1 DEF CInv, Typed, child
<1>3. Len(args) \in Nat /\ \A i \in 1 .. Len(args) : args[i] \in Files
  BY ElementOfSeq, LenProperties DEF CInv, Typed
<1>4. arg \in 1 .. Len(args)
  BY DEF PMeta, PRead, PWrite, CInv, Going, Asked, Sending
<1>5. PICK f \in Files : f = File
  BY <1>3, <1>4 DEF File
<1>6. PICK s \in Nat : s = size[f]
  BY DEF CInv, Typed
<1>7. CASE PMeta
  <2>1. pipe' = pipe \o <<[file |-> f, size |-> s]>> /\ ppc' = "read" /\ arg' = arg /\ rpos' = rpos
    BY <1>5, <1>6, <1>7, ChildLives DEF PMeta, Send, CInv, Going, Asked
  <2>2. WholeUpTo(arg - 1) /\ Waiting(<<>>) /\ rpos = 0
    BY <1>7 DEF PMeta, CInv, Going, Asked
  <2>3. PICK r : r = [file |-> f, size |-> s]
    OBVIOUS
  <2>4. pipe' = <<r>> /\ <<r>> \o <<>> = <<r>> /\ Bytes(f, 0, 0) = <<>>
    BY <2>1, <2>2, <2>3, BytesEmpty DEF Waiting
  <2>5. Waiting(<<[file |-> f, size |-> size[f]]>> \o Bytes(f, 0, 0))'
    BY <1>1, <1>2, <1>6, <2>2, <2>3, <2>4 DEF Waiting
  <2>6. OnTheWay(f, 0)'
    BY <1>1, <1>6, <2>5, Marks DEF OnTheWay, Mark
  <2>7. File' = f /\ WholeBut(arg, File)'
    BY <1>1, <1>2, <1>4, <1>5, <2>1, <2>2 DEF File, WholeUpTo, WholeBut, Whole
  <2>8. Sending'
    BY <1>1, <1>4, <2>1, <2>2, <2>6, <2>7 DEF Sending
  <2>9. QED
    BY <1>1, <1>2, <2>1, <2>8 DEF CInv, Going, Between, Asked, Closing
<1>8. CASE PRead
  <2>1. pipe' = pipe /\ WholeBut(arg, f) /\ ppc = "read"
    BY <1>5, <1>8 DEF PRead, CInv, Going, Sending
  <2>2. PICK w \in 0 .. s : w = rpos /\ OnTheWay(f, w)
    BY <1>5, <1>6, <1>8 DEF PRead, CInv, Going, Sending, OnTheWay
  <2>3. OnTheWay(f, w)'
    BY <1>1, <2>1, <2>2, WayKept
  <2>4. PICK n : n = arg
    OBVIOUS
  <2>5. WholeBut(n, f)'
    BY <1>1, <1>2, <2>1, <2>4 DEF WholeBut, Whole
  <2>6. CASE w < s
    <3>1. /\ rpos' = Least(w + BufferSize, s) /\ buf' = Bytes(f, w, rpos')
          /\ ppc' = "write" /\ arg' = arg
      BY <1>5, <1>6, <1>8, <2>2, <2>6 DEF PRead
    <3>2. File' = f /\ size'[f] = s
      BY <1>1, <1>5, <1>6, <3>1 DEF File
    <3>3. WholeBut(arg, File)'
      BY <2>4, <2>5, <3>1, <3>2
    <3>4. Sending'
      BY <1>1, <1>4, <2>2, <2>3, <2>6, <3>1, <3>2, <3>3 DEF Sending
    <3>5. QED
      BY <1>1, <1>2, <3>1, <3>4 DEF CInv, Going, Between, Asked, Closing
  <2>7. CASE ~(w < s)
    <3>1. rpos' = 0 /\ arg' = arg + 1 /\ ppc' = "open" /\ w = s
      BY <1>5, <1>6, <1>8, <2>2, <2>7 DEF PRead
    <3>2. arg' - 1 = n /\ args'[arg' - 1] = f /\ size'[f] = w /\ arg' \in 1 .. Len(args') + 1 /\ arg' > 1
      BY <1>1, <1>4, <1>5, <1>6, <2>4, <3>1 DEF File
    <3>3. WholeBut(arg - 1, args[arg - 1])' /\ OnTheWay(args[arg - 1], size[args[arg - 1]])'
      BY <2>3, <2>5, <3>2
    <3>4. QED
      BY <1>1, <1>2, <3>1, <3>2, <3>3 DEF CInv, Going, Between, Asked, Sending, Closing
  <2>8. QED
    BY <2>6, <2>7
<1>9. CASE PWrite
  <2>1. PICK w \in Nat : /\ OnTheWay(f, w) /\ w < s /\ rpos = Least(w + BufferSize, s)
                         /\ buf = Bytes(f, w, rpos)
    BY <1>5, <1>6, <1>9 DEF PWrite, CInv, Going, Sending
  <2>2. PICK v \in Nat : v = rpos
    BY <2>1 DEF Least, PipeAssumption
  <2>3. pipe' = pipe \o Bytes(f, w, v) /\ ppc' = "read" /\ arg' = arg /\ rpos' = v
    BY <1>9, <2>1, <2>2, ChildLives DEF PWrite, Send
  <2>4. OnTheWay(f, v)'
    BY <1>1, <1>6, <2>1, <2>2, <2>3, BytesSent DEF CInv
  <2>5. File' = f /\ WholeBut(arg, File)'
    BY <1>1, <1>2, <1>5, <1>9, <2>3 DEF PWrite, CInv, Going, Sending, File, WholeBut, Whole
  <2>6. Sending'
    BY <1>1, <1>4, <2>3, <2>4, <2>5 DEF Sending
  <2>7. QED
    BY <1>1, <1>2, <2>3, <2>6 DEF CInv, Going, Between, Asked, Closing
<1>10. QED
  BY <1>7, <1>8, <1>9

LEMMA EndKeeps ==
  ASSUME PipeAssumption, CInv, Going, PEnd \/ PWait
  PROVE  CInv'
<1>1. UNCHANGED <<args, size, edits, ready, child>>
  BY DEF PEnd, PWait
<1>2. Typed' /\ copy' = copy /\ cpc' = cpc
  BY <1>1 DEF CInv, Typed, child
<1>3. WholeUpTo(Len(args))'
  BY <1>1, <1>2 DEF PEnd, PWait, CInv, Going, Closing, WholeUpTo, Whole
<1>4. CASE PEnd
  <2>1. pipe' = pipe \o <<NoFile>> /\ ppc' = "wait" /\ Waiting(<<>>)
    BY <1>4, ChildLives DEF PEnd, Send, CInv, Going, Closing
  <2>2. Waiting(<<NoFile>>)'
    BY <1>1, <1>2, <2>1 DEF Waiting
  <2>3. QED
    BY <1>1, <1>2, <1>3, <2>1, <2>2 DEF CInv, Going, Between, Asked, Sending, Closing
<1>5. CASE PWait
  <2>1. cpc = "done" /\ ppc' = "done"
    BY <1>5 DEF PWait, CInv, Going, Closing, Waiting, ChildOver
  <2>2. QED
    BY <1>1, <1>2, <1>3, <2>1 DEF CInv, Going, Between, Asked, Sending, Closing
<1>6. QED
  BY <1>4, <1>5

-----------------------------------------------------------------------------
\* Whatever the sizes and the timing, no read of the child comes back short and no record is
\* mixed with contents: what both processes report as copied is copied byte by byte, unless
\* somebody changed a file meanwhile (main.c:159-165).
THEOREM CopiesAreExact == PipeAssumption => (Spec => []CopiesExact)
<1> SUFFICES ASSUME PipeAssumption PROVE Spec => []CopiesExact
  OBVIOUS
<1>1. Init => CInv
  <2> SUFFICES ASSUME Init PROVE CInv
    OBVIOUS
  <2>1. PICK n \in 0 .. MaxArgs : args \in [1 .. n -> Files]
    BY DEF Init
  <2>2. n \in Nat /\ args \in Seq(Files) /\ Len(args) \in Nat
    BY <2>1, LenProperties DEF PipeAssumption
  <2>3. Typed
    BY <2>2 DEF Init, Typed, PipeAssumption
  <2>4. Idle
    BY DEF Init, Idle
  <2>5. QED
    BY <2>2, <2>3, <2>4 DEF Init, CInv, Between, Asked, Sending, Closing
<1>2. CInv /\ [Next]_vars => CInv'
  <2> SUFFICES ASSUME CInv, [Next]_vars PROVE CInv'
    OBVIOUS
  <2>1. CASE Child
    BY <2>1, ChildKeeps
  <2>2. CASE Parent /\ Going
    BY <2>2, AnswerKeeps, SendKeeps, EndKeeps DEF Parent
  <2>3. CASE Parent /\ ~Going
    <3>1. UNCHANGED <<args, size, child, edits>> /\ ~Going'
      BY <2>3 DEF Parent, POpen, PReady, PStat, PMeta, PRead, PWrite, PEnd, PWait, Going, child
    <3>2. QED
      BY <3>1 DEF CInv, Typed, child
  <2>4. ASSUME NEW f \in Files, Edit(f) PROVE CInv'
    <3>1. /\ UNCHANGED <<args, child>> /\ edits' = edits + 1
          /\ \E n \in 0 .. MaxSize : size' = [size EXCEPT ![f] = n]
      BY <2>4 DEF Edit
    <3>2. Typed' /\ edits' # 0
      BY <3>1 DEF CInv, Typed, child, PipeAssumption
    <3>3. QED
      BY <3>2 DEF CInv, Going
  <2>5. CASE UNCHANGED vars
    <3>1. \A f, w : OnTheWay(f, w)' = OnTheWay(f, w) /\ Idle' = Idle
      BY <2>5, WayKept DEF vars
    <3>2. QED
      BY <2>5, <3>1 DEF vars, parent, child, CInv, Typed, Going, Between, Asked, Sending, Closing,
                        File, Waiting, WholeBut, WholeUpTo, Whole
  <2>6. QED
    BY <2>1, <2>2, <2>3, <2>4, <2>5 DEF Next
<1>3. CInv => CopiesExact
  <2> SUFFICES ASSUME CInv, ppc = "done", cpc = "done", edits = 0, NEW i \in DOMAIN args PROVE Whole(args[i])
    BY DEF CopiesExact
  <2>1. i \in 1 .. Len(args)
    BY LenProperties DEF CInv, Typed
  <2>2. QED
    BY <2>1 DEF CInv, Going, Closing, WholeUpTo
<1>4. QED
  BY <1>1, <1>2, <1>3, PTL DEF Spec

-----------------------------------------------------------------------------
(* Types, and what is under way when the child asks.                       *)

Records == [file : Files, size : 0 .. MaxSize]
Contents == [of : Files, at : Nat]
Items == Records \cup {NoFile} \cup Contents

ParentPlaces == {"open", "ready", "lastready", "stat", "meta", "read", "write", "end", "wait",
                 "done", "failed", "killed"}
ChildPlaces == {"signal", "meta", "chunk", "garbled", "done", "failed", "killed"}

PTypes ==
  /\ type \in {"PIPE", "MKFIFO"} /\ args \in Seq(Files) /\ present \subseteq Files
  /\ size \in [Files -> 0 .. MaxSize] /\ stat \in 0 .. MaxSize
  /\ pipe \in Seq(Items) /\ Len(pipe) <= PipeSize /\ ready \in 0 .. 1
  /\ ppc \in ParentPlaces /\ arg \in 1 .. Len(args) + 1 /\ rpos \in 0 .. MaxSize
  /\ buf \in Seq(Contents) /\ Len(buf) <= BufferSize
  /\ cpc \in ChildPlaces /\ meta \in Records \cup {NoFile}
  /\ left \in 0 .. MaxSize /\ known \in BOOLEAN
  /\ copy \in [Files -> Seq(Items)] /\ edits \in 0 .. MaxEdits

\* The parent is at a file while it works on one.
AtFile == ppc \in {"ready", "stat", "meta", "read", "write"} => arg <= Len(args)

\* What the child has of a file and what it waits for fit into the largest file.
RoomInCopy ==
  /\ \A f \in Files : Len(copy[f]) <= MaxSize
  /\ cpc = "chunk" => meta \in Records /\ Len(copy[meta.file]) + left <= MaxSize

\* No record is in the pipe.
Bare == \A i \in 1 .. Len(pipe) : ~IsMeta(pipe[i])

\* The record of the end is in the pipe.
EndSent == \E i \in 1 .. Len(pipe) : pipe[i] = NoFile

\* One R and one record: the parent sends a record only to a child that has asked and has not got
\* one, unless there was nobody left to send to, and a child asks again only after its record.
OneRecord ==
  /\ ppc \in {"stat", "meta", "end"} =>
       cpc \notin {"signal", "chunk"} /\ (cpc = "meta" => Bare /\ ready = 0)
  /\ cpc \in {"signal", "chunk"} => Bare /\ (ready = 0 \/ NoWriter)
  /\ cpc = "meta" => /\ ready = 1 => Bare
                     /\ \A i, j \in 1 .. Len(pipe) : i < j => ~IsMeta(pipe[i]) \/ ~IsMeta(pipe[j])
  /\ ppc = "wait" => cpc \notin {"signal", "chunk"} /\ (cpc = "meta" => EndSent)

\* How many arguments the parent has sent the record of.
Begun == IF ppc \in {"read", "write"} THEN arg ELSE arg - 1

\* A copy belongs to a file whose record was sent, and if that of the last one is still
\* in the pipe, to one before.
Given(f, n) == \E i \in 1 .. n : args[i] = f
CopiesGiven ==
  cpc \in {"signal", "meta", "chunk"} =>
    /\ \A f \in Files : copy[f] # <<>> => Given(f, Begun)
    /\ meta = NoFile \/ Given(meta.file, Begun)
    /\ ppc \notin {"done", "killed"}
    /\ \A i \in 1 .. Len(pipe) : IsMeta(pipe[i]) /\ pipe[i] # NoFile =>
         /\ Begun \in 1 .. Len(args) /\ pipe[i].file = args[Begun]
         /\ \A f \in Files : copy[f] # <<>> => Given(f, Begun - 1)

PInv == PTypes /\ AtFile /\ RoomInCopy /\ OneRecord /\ CopiesGiven

\* A record in the pipe, the record of the end and contents.
LEMMA ItemKinds ==
  ASSUME PipeAssumption, NEW x \in Items
  PROVE  /\ IsMeta(x) => x \in Records \cup {NoFile}
         /\ x \in Records => /\ IsMeta(x) /\ x # NoFile
                             /\ x.file \in Files /\ x.size \in 0 .. MaxSize /\ x.size # -1
         /\ x \in Contents => ~IsMeta(x)
         /\ IsMeta(NoFile) /\ NoFile.size = -1
<1>1. NoFile.size = -1 /\ IsMeta(NoFile)
  BY DEF NoFile, IsMeta
<1>2. ASSUME x \in Records
      PROVE  IsMeta(x) /\ x.file \in Files /\ x.size \in 0 .. MaxSize
  BY <1>2 DEF Records, IsMeta
<1>3. ASSUME x \in Contents PROVE ~IsMeta(x)
  BY <1>3 DEF Contents, IsMeta
<1>4. ASSUME x \in Records PROVE x # NoFile /\ x.size # -1
  BY <1>1, <1>2, <1>4 DEF PipeAssumption
<1>5. QED
  BY <1>1, <1>2, <1>3, <1>4 DEF Items

\* The file the parent is at.
LEMMA FileAt ==
  ASSUME PInv, ppc \in {"ready", "stat", "meta", "read", "write"}
  PROVE  arg \in 1 .. Len(args) /\ File \in Files /\ Len(args) \in Nat /\ size[File] \in 0 .. MaxSize
<1>1. Len(args) \in Nat /\ arg \in 1 .. Len(args)
  BY LenProperties DEF PInv, PTypes, AtFile
<1>2. File \in Files
  BY <1>1, ElementOfSeq DEF PInv, PTypes, File
<1>3. QED
  BY <1>1, <1>2 DEF PInv, PTypes

LEMMA StepsOfOpen ==
  ASSUME PipeAssumption, PInv, POpen \/ PReady \/ PStat
  PROVE  PInv'
<1>1. UNCHANGED <<type, args, present, size, pipe, arg, rpos, buf, cpc, meta, left, known, copy,
                  edits>>
  BY DEF POpen, PReady, PStat, child
<1>2. AtFile' /\ Begun' = Begun /\ ~ParentOver /\ ppc # "wait" /\ ppc' # "wait"
  BY <1>1 DEF POpen, PReady, PStat, PInv, AtFile, Begun, ParentOver
<1>3. PTypes'
  <2>1. ppc' \in ParentPlaces
    BY DEF POpen, PReady, PStat, ParentPlaces
  <2>2. ready' \in 0 .. 1
    BY DEF POpen, PReady, PStat, PInv, PTypes
  <2>3. stat' \in 0 .. MaxSize
    BY FileAt DEF POpen, PReady, PStat, PInv, PTypes
  <2>4. QED
    BY <1>1, <2>1, <2>2, <2>3 DEF PInv, PTypes
<1>4. RoomInCopy'
  BY <1>1 DEF PInv, RoomInCopy
<1>5. OneRecord'
  <2>1. Bare' = Bare
    BY <1>1 DEF Bare
  <2>2. CASE POpen
    BY <1>1, <1>2, <2>1, <2>2 DEF POpen, PInv, OneRecord, NoWriter
  <2>3. CASE PReady
    <3>1. ready' = 0 /\ (ready = 1 \/ NoReader) /\ ~NoWriter
      BY <1>2, <2>3 DEF PReady, PInv, PTypes, NoWriter
    <3>2. cpc \notin {"signal", "chunk"} /\ (cpc = "meta" => Bare)
      BY <3>1 DEF PInv, OneRecord, NoReader, ChildOver
    <3>3. QED
      BY <1>1, <1>2, <2>1, <3>1, <3>2 DEF PInv, OneRecord
  <2>4. CASE PStat
    BY <1>1, <1>2, <2>1, <2>4 DEF PStat, PInv, OneRecord, NoWriter, ParentOver
  <2>5. QED
    BY <2>2, <2>3, <2>4
<1>6. CopiesGiven'
  <2>1. ppc' \notin {"done", "killed"}
    BY DEF POpen, PReady, PStat
  <2>2. \A f, n : Given(f, n)' = Given(f, n)
    BY <1>1 DEF Given
  <2>3. QED
    BY <1>1, <1>2, <2>1, <2>2 DEF PInv, CopiesGiven
<1>7. QED
  BY <1>2, <1>3, <1>4, <1>5, <1>6 DEF PInv

\* What is sent is behind what is in the pipe.
LEMMA PipeGrows ==
  ASSUME NEW s \in Seq(Items), NEW t \in Seq(Items)
  PROVE  /\ s \o t \in Seq(Items) /\ Len(s \o t) = Len(s) + Len(t)
         /\ Len(s) \in Nat /\ Len(t) \in Nat
         /\ \A i \in 1 .. Len(s) : (s \o t)[i] = s[i]
         /\ \A i \in 1 .. Len(s \o t) :
              i \notin 1 .. Len(s) => i - Len(s) \in 1 .. Len(t) /\ (s \o t)[i] = t[i - Len(s)]
<1>1. s \o t \in Seq(Items) /\ Len(s \o t) = Len(s) + Len(t) /\ Len(s) \in Nat /\ Len(t) \in Nat
  BY ConcatProperties, LenProperties
<1>2. \A i \in 1 .. Len(s \o t) : (s \o t)[i] = IF i <= Len(s) THEN s[i] ELSE t[i - Len(s)]
  BY <1>1, ConcatProperties
<1>3. QED
  BY <1>1, <1>2

LEMMA StepsOfSend ==
  ASSUME PipeAssumption, PInv, PMeta \/ PWrite \/ PEnd
  PROVE  PInv'
<1> DEFINE r == [file |-> File, size |-> stat]
<1>1. UNCHANGED <<type, args, present, size, ready, arg, rpos, stat, cpc, meta, left, known, copy,
                  edits>>
  BY DEF PMeta, PWrite, PEnd, child
<1>2. Len(args) \in Nat /\ (ppc # "end" => arg \in 1 .. Len(args) /\ File \in Files) /\ ~ParentOver
  BY FileAt, LenProperties DEF PMeta, PWrite, PEnd, PInv, PTypes, ParentOver
<1>3. AtFile' /\ ppc' \in {"read", "wait", "killed"} /\ (ppc' = "wait" => ppc = "end")
  BY <1>1, <1>2 DEF PMeta, PWrite, PEnd, Send, AtFile
<1>4. buf' \in Seq(Contents) /\ Len(buf') <= BufferSize
  <2>1. <<>> \in Seq(Contents) /\ Len(<<>>) <= BufferSize
    BY DEF PipeAssumption
  <2>2. buf' = buf \/ buf' = <<>>
    BY DEF PMeta, PWrite, PEnd
  <2>3. QED
    BY <2>1, <2>2 DEF PInv, PTypes
<1>5. RoomInCopy' /\ \A f, n : Given(f, n)' = Given(f, n)
  BY <1>1 DEF PInv, RoomInCopy, Given
<1>6. CASE NoReader
  <2>1. UNCHANGED pipe /\ ppc' = "killed" /\ ChildOver
    BY <1>6 DEF PMeta, PWrite, PEnd, Send, NoReader
  <2>2. PTypes'
    BY <1>1, <1>4, <2>1 DEF PInv, PTypes, ParentPlaces
  <2>3. OneRecord' /\ CopiesGiven'
    BY <1>1, <2>1 DEF ChildOver, OneRecord, CopiesGiven
  <2>4. QED
    BY <1>3, <1>5, <2>2, <2>3 DEF PInv
<1>7. CASE ~NoReader
  <2>1. PICK s : s = IF ppc = "meta" THEN <<r>> ELSE IF ppc = "write" THEN buf ELSE <<NoFile>>
    OBVIOUS
  <2>2. /\ pipe' = pipe \o s /\ Len(pipe) + Len(s) <= PipeSize
        /\ ppc' = IF ppc = "end" THEN "wait" ELSE "read"
    BY <1>7, <2>1 DEF PMeta, PWrite, PEnd, Send
  <2>3. /\ ppc = "meta" => s \in Seq(Items) /\ Len(s) = 1 /\ s[1] = r /\ r \in Records
        /\ ppc = "end" => s \in Seq(Items) /\ Len(s) = 1 /\ s[1] = NoFile
        /\ ppc = "write" => s \in Seq(Items) /\ \A i \in 1 .. Len(s) : s[i] \in Contents
        /\ ppc \in {"meta", "write", "end"}
    <3>1. CASE ppc = "meta"
      <4>1. r \in Records
        BY <1>2, <3>1 DEF PInv, PTypes, Records
      <4>2. QED
        BY <2>1, <3>1, <4>1 DEF Items
    <3>2. CASE ppc = "end"
      BY <2>1, <3>2 DEF Items
    <3>3. CASE ppc = "write"
      <4>1. s \in Seq(Contents) /\ Contents \subseteq Items
        BY <2>1, <3>3 DEF PInv, PTypes, Items
      <4>2. s \in Seq(Items)
        BY <4>1, SeqMonotonic
      <4>3. QED
        BY <3>3, <4>1, <4>2, ElementOfSeq
    <3>4. QED
      BY <3>1, <3>2, <3>3 DEF PMeta, PWrite, PEnd
  <2>4. /\ pipe \in Seq(Items) /\ s \in Seq(Items)
        /\ pipe' \in Seq(Items) /\ Len(pipe') = Len(pipe) + Len(s) /\ Len(pipe) \in Nat
        /\ \A i \in 1 .. Len(pipe) : pipe'[i] = pipe[i]
        /\ \A i \in 1 .. Len(pipe') :
             i \notin 1 .. Len(pipe) => i - Len(pipe) \in 1 .. Len(s) /\ pipe'[i] = s[i - Len(pipe)]
    <3>1. pipe \in Seq(Items) /\ s \in Seq(Items)
      BY <2>3 DEF PInv, PTypes
    <3>2. QED
      BY <2>2, <3>1, PipeGrows
  <2>5. PTypes'
    BY <1>1, <1>4, <2>2, <2>4 DEF PInv, PTypes, ParentPlaces
  <2>6. ASSUME cpc \in {"signal", "meta", "chunk"}, ppc \in {"meta", "end"}
        PROVE  cpc = "meta" /\ Bare /\ ready = 0
    BY <2>6 DEF PInv, OneRecord
  <2>7. ASSUME ppc \in {"meta", "end"}, cpc \in {"signal", "meta", "chunk"},
               NEW i \in 1 .. Len(pipe'), IsMeta(pipe'[i])
        PROVE  i = Len(pipe') /\ pipe'[i] = s[1]
    <3>1. i \notin 1 .. Len(pipe)
      BY <2>4, <2>6, <2>7 DEF Bare
    <3>2. Len(s) = 1
      BY <2>3, <2>7
    <3>3. i - Len(pipe) \in 1 .. Len(s) /\ pipe'[i] = s[i - Len(pipe)]
      BY <2>4, <2>7, <3>1
    <3>4. i - Len(pipe) = 1
      BY <3>2, <3>3
    <3>5. QED
      BY <2>4, <2>7, <3>2, <3>3, <3>4
  <2>8. ASSUME ppc = "write", NEW i \in 1 .. Len(pipe'), IsMeta(pipe'[i])
        PROVE  i \in 1 .. Len(pipe) /\ pipe'[i] = pipe[i]
    <3>1. CASE i \notin 1 .. Len(pipe)
      <4>1. pipe'[i] \in Contents
        BY <2>3, <2>4, <2>8, <3>1
      <4>2. pipe'[i] \in Items
        BY <4>1 DEF Items
      <4>3. QED
        BY <2>8, <4>1, <4>2, ItemKinds
    <3>2. QED
      BY <2>4, <3>1
  <2>9. OneRecord'
    <3>1. CASE cpc \in {"signal", "chunk"}
      <4>1. ppc = "write" /\ Bare /\ (ready = 0 \/ NoWriter)
        BY <2>3, <2>6, <3>1 DEF PInv, OneRecord
      <4>2. Bare' /\ ~NoWriter
        BY <1>2, <2>8, <4>1 DEF Bare, NoWriter
      <4>3. QED
        BY <1>1, <2>2, <3>1, <4>1, <4>2 DEF OneRecord
    <3>2. CASE cpc = "meta" /\ ppc \in {"meta", "end"}
      <4>1. \A i, j \in 1 .. Len(pipe') : i < j => ~IsMeta(pipe'[i]) \/ ~IsMeta(pipe'[j])
        BY <2>4, <2>7, <3>2
      <4>2. ready' = 0
        BY <1>1, <2>6, <3>2
      <4>3. CASE ppc = "end"
        <5>1. Len(s) = 1 /\ s[1] = NoFile
          BY <2>3, <4>3
        <5>2. Len(pipe') \in 1 .. Len(pipe') /\ Len(pipe') \notin 1 .. Len(pipe)
          BY <2>4, <5>1
        <5>3. pipe'[Len(pipe')] = NoFile
          BY <2>4, <5>1, <5>2
        <5>4. EndSent'
          BY <5>2, <5>3 DEF EndSent
        <5>5. QED
          BY <1>1, <1>3, <3>2, <4>1, <4>2, <4>3, <5>4 DEF OneRecord
      <4>4. CASE ppc = "meta"
        BY <1>1, <1>3, <3>2, <4>1, <4>2, <4>4 DEF OneRecord
      <4>5. QED
        BY <3>2, <4>3, <4>4
    <3>3. CASE cpc = "meta" /\ ppc = "write"
      <4>1. \A i, j \in 1 .. Len(pipe') : i < j => ~IsMeta(pipe'[i]) \/ ~IsMeta(pipe'[j])
        BY <2>8, <3>3 DEF PInv, OneRecord
      <4>2. ready' = 1 => Bare'
        BY <1>1, <2>8, <3>3 DEF PInv, OneRecord, Bare
      <4>3. QED
        BY <1>1, <1>3, <3>3, <4>1, <4>2 DEF OneRecord
    <3>4. QED
      BY <1>1, <1>3, <2>3, <3>1, <3>2, <3>3 DEF OneRecord
  <2>10. CopiesGiven'
    <3> SUFFICES ASSUME cpc \in {"signal", "meta", "chunk"} PROVE CopiesGiven'
      BY <1>1 DEF CopiesGiven
    <3>1. /\ Begun \in Int /\ Begun' \in {Begun, Begun + 1}
          /\ ppc = "meta" => Begun' = arg /\ Begun = arg - 1
          /\ ppc # "meta" => Begun' = Begun
      BY <1>1, <2>2, <2>3 DEF Begun, PInv, PTypes
    <3>2. \A f : Given(f, Begun) => Given(f, Begun')
      BY <3>1 DEF Given
    <3>3. (\A f \in Files : copy[f] # <<>> => Given(f, Begun)) /\ (meta = NoFile \/ Given(meta.file, Begun))
      BY DEF PInv, CopiesGiven
    <3>4. ASSUME NEW i \in 1 .. Len(pipe'), IsMeta(pipe'[i]), pipe'[i] # NoFile
          PROVE  /\ Begun' \in 1 .. Len(args) /\ pipe'[i].file = args[Begun']
                 /\ \A f \in Files : copy[f] # <<>> => Given(f, Begun' - 1)
      <4>1. CASE ppc = "meta"
        BY <1>2, <2>3, <2>7, <3>1, <3>3, <3>4, <4>1 DEF File
      <4>2. CASE ppc = "end"
        BY <2>3, <2>7, <3>4, <4>2
      <4>3. CASE ppc = "write"
        BY <2>8, <3>1, <3>4, <4>3 DEF PInv, CopiesGiven
      <4>4. QED
        BY <2>3, <4>1, <4>2, <4>3
    <3>5. ppc' \notin {"done", "killed"}
      BY <2>2
    <3>6. \A f, n : Given(f, n)' <=> Given(f, n)
      BY <1>1 DEF Given
    <3>7. \A f \in Files : copy'[f] # <<>> => Given(f, Begun)'
      BY <1>1, <3>2, <3>3 DEF Given
    <3>8. meta' = NoFile \/ Given(meta.file, Begun)'
      BY <1>1, <3>2, <3>3 DEF Given
    <3>9. ASSUME NEW i \in 1 .. Len(pipe'), IsMeta(pipe'[i]), pipe'[i] # NoFile
          PROVE  /\ Begun' \in 1 .. Len(args') /\ pipe'[i].file = args'[Begun']
                 /\ \A f \in Files : copy'[f] # <<>> => Given(f, Begun - 1)'
      BY <1>1, <3>4, <3>9 DEF Given
    <3>10. QED
      BY <3>5, <3>7, <3>8, <3>9 DEF CopiesGiven, IsMeta
  <2>11. QED
    BY <1>3, <1>5, <2>5, <2>9, <2>10 DEF PInv
<1>8. QED
  BY <1>6, <1>7

LEMMA StepsOfRead ==
  ASSUME PipeAssumption, PInv, PRead \/ PWait
  PROVE  PInv'
<1>1. UNCHANGED <<type, args, present, size, pipe, ready, stat, cpc, meta, left, known, copy, edits>>
  BY DEF PRead, PWait, child
<1>2. RoomInCopy' /\ (\A f, n : Given(f, n)' = Given(f, n)) /\ Bare' = Bare
  BY <1>1 DEF PInv, RoomInCopy, Given, Bare
<1>3. CASE PWait
  <2>1. PTypes' /\ AtFile'
    BY <1>1, <1>3 DEF PWait, PInv, PTypes, AtFile, ParentPlaces
  <2>2. OneRecord' /\ CopiesGiven'
    BY <1>1, <1>3 DEF PWait, ChildOver, OneRecord, CopiesGiven
  <2>3. QED
    BY <1>2, <2>1, <2>2 DEF PInv
<1>4. CASE PRead
  <2>1. arg \in 1 .. Len(args) /\ File \in Files /\ Len(args) \in Nat /\ size[File] \in 0 .. MaxSize
    BY <1>4, FileAt DEF PRead
  <2>2. ppc = "read" /\ rpos \in 0 .. MaxSize
    BY <1>4 DEF PRead, PInv, PTypes
  <2>3. CASE rpos < size[File]
    <3>1. PICK upto : upto = Least(rpos + BufferSize, size[File])
      OBVIOUS
    <3>2. upto \in 0 .. MaxSize /\ rpos <= upto /\ upto - rpos <= BufferSize /\ upto \in Nat
      BY <2>1, <2>2, <2>3, <3>1 DEF Least, PipeAssumption
    <3>3. buf' = Bytes(File, rpos, upto) /\ rpos' = upto /\ ppc' = "write" /\ arg' = arg
      BY <1>4, <2>1, <2>2, <2>3, <3>1 DEF PRead, PipeAssumption
    <3>4. buf' \in Seq(Contents) /\ Len(buf') <= BufferSize
      <4>1. buf' \in Seq([of : {File}, at : Nat]) /\ Len(buf') = upto - rpos
        <5>1. rpos \in Nat
          BY <2>2 DEF PipeAssumption
        <5>2. QED
          BY <3>2, <3>3, <5>1, BytesTyped
      <4>2. [of : {File}, at : Nat] \subseteq Contents
        BY <2>1 DEF Contents
      <4>3. buf' \in Seq(Contents)
        BY <4>1, <4>2, SeqMonotonic
      <4>4. QED
        BY <3>2, <4>1, <4>3
    <3>5. PTypes'
      BY <1>1, <3>2, <3>3, <3>4 DEF PInv, PTypes, ParentPlaces
    <3>6. AtFile' /\ Begun' = Begun
      BY <1>1, <2>1, <2>2, <3>3 DEF AtFile, Begun
    <3>7. OneRecord'
      BY <1>1, <1>2, <2>2, <3>3 DEF PInv, OneRecord, NoWriter, ParentOver
    <3>8. CopiesGiven'
      BY <1>1, <1>2, <3>3, <3>6 DEF PInv, CopiesGiven
    <3>9. QED
      BY <1>2, <3>5, <3>6, <3>7, <3>8 DEF PInv
  <2>4. CASE ~(rpos < size[File])
    <3>1. rpos' = 0 /\ arg' = arg + 1 /\ ppc' = "open" /\ buf' = buf
      BY <1>4, <2>4 DEF PRead
    <3>2. PTypes'
      <4>1. rpos' \in 0 .. MaxSize /\ arg' \in 1 .. Len(args') + 1
        BY <1>1, <2>1, <3>1 DEF PipeAssumption
      <4>2. QED
        BY <1>1, <3>1, <4>1 DEF PInv, PTypes, ParentPlaces
    <3>3. AtFile' /\ Begun' = Begun
      BY <1>1, <2>1, <2>2, <3>1 DEF AtFile, Begun
    <3>4. OneRecord'
      BY <1>1, <1>2, <2>2, <3>1 DEF PInv, OneRecord, NoWriter, ParentOver
    <3>5. CopiesGiven'
      BY <1>1, <1>2, <3>1, <3>3 DEF PInv, CopiesGiven
    <3>6. QED
      BY <1>2, <3>2, <3>3, <3>4, <3>5 DEF PInv
  <2>5. QED
    BY <2>3, <2>4
<1>5. QED
  BY <1>3, <1>4

LEMMA StepsOfSignal ==
  ASSUME PipeAssumption, PInv, CSignal
  PROVE  PInv'
<1>1. /\ UNCHANGED <<type, args, present, size, pipe, ppc, arg, rpos, buf, stat, meta, left, known,
                     copy, edits>>
      /\ cpc = "signal"
  BY DEF CSignal, parent
<1>2. (\A f, n : Given(f, n)' = Given(f, n)) /\ Bare' = Bare /\ Begun' = Begun /\ AtFile'
  BY <1>1 DEF PInv, Given, Bare, Begun, AtFile
<1>3. CASE ~NoWriter
  <2>1. /\ ready = 0 /\ ready' = 1 /\ cpc' = "meta" /\ Bare
        /\ ppc \notin {"stat", "meta", "end", "wait"}
    BY <1>1, <1>3 DEF CSignal, PInv, OneRecord
  <2>2. PTypes' /\ RoomInCopy'
    BY <1>1, <2>1 DEF PInv, PTypes, RoomInCopy, ChildPlaces
  <2>3. OneRecord'
    <3>1. \A i, j \in 1 .. Len(pipe') : i < j => ~IsMeta(pipe'[i]) \/ ~IsMeta(pipe'[j])
      BY <1>1, <2>1 DEF Bare
    <3>2. QED
      BY <1>1, <1>2, <2>1, <3>1 DEF OneRecord
  <2>4. CopiesGiven'
    BY <1>1, <1>2, <2>1 DEF PInv, CopiesGiven
  <2>5. QED
    BY <1>2, <2>2, <2>3, <2>4 DEF PInv
<1>4. CASE NoWriter
  <2>1. cpc' = "killed" /\ ready' = ready
    BY <1>4 DEF CSignal
  <2>2. PTypes' /\ RoomInCopy'
    BY <1>1, <2>1 DEF PInv, PTypes, RoomInCopy, ChildPlaces
  <2>3. OneRecord' /\ CopiesGiven'
    BY <1>1, <2>1 DEF OneRecord, CopiesGiven
  <2>4. QED
    BY <1>2, <2>2, <2>3 DEF PInv
<1>5. QED
  BY <1>3, <1>4

\* Which record the child goes on with.
Taken(m) ==
  \/ pipe # <<>> /\ IsMeta(Head(pipe)) /\ m = Head(pipe) /\ pipe' = Tail(pipe)
  \/ pipe = <<>> /\ NoWriter /\ m = meta /\ pipe' = pipe

LEMMA Heads ==
  ASSUME NEW S, NEW s \in Seq(S), s # <<>>
  PROVE  /\ Len(s) \in Nat /\ Len(s) >= 1 /\ Head(s) = s[1] /\ Head(s) \in S
         /\ Tail(s) \in Seq(S) /\ Len(Tail(s)) = Len(s) - 1
         /\ \A i \in 1 .. Len(Tail(s)) : Tail(s)[i] = s[i + 1]
<1>1. Len(s) \in Nat /\ Len(s) >= 1
  BY EmptySeq, LenProperties
<1>2. QED
  BY <1>1, HeadTailProperties, ElementOfSeq

\* A step of the child that ends it.
LEMMA ChildEnds ==
  ASSUME PipeAssumption, PInv, cpc' \in {"done", "failed", "killed", "garbled"},
         UNCHANGED <<type, args, present, size, ppc, arg, rpos, buf, stat, ready, left, copy, edits>>,
         meta' \in Records \cup {NoFile}, known' \in BOOLEAN, pipe' \in Seq(Items),
         Len(pipe') <= PipeSize
  PROVE  PInv'
<1>1. PTypes'
  BY DEF PInv, PTypes, ChildPlaces
<1>2. AtFile' /\ RoomInCopy'
  BY DEF PInv, AtFile, RoomInCopy
<1>3. OneRecord' /\ CopiesGiven'
  BY DEF OneRecord, CopiesGiven
<1>4. QED
  BY <1>1, <1>2, <1>3 DEF PInv

\* What Start does to the copies, and to which of them.
LEMMA Taking ==
  ASSUME PipeAssumption, PInv, NEW m, Taken(m), cpc = "meta", m.size # -1
  PROVE  /\ m \in Records
         /\ pipe' \in Seq(Items) /\ Len(pipe') <= PipeSize /\ Bare' /\ (ready = 0 \/ NoWriter)
         /\ Given(m.file, Begun) /\ ppc \notin {"done", "killed", "stat", "meta", "end", "wait"}
         /\ copy[m.file] # <<>> => ppc = "failed" \/ (Begun \in 1 .. Len(args) /\ m.file = args[Begun] /\ Given(m.file, Begun - 1))
<1>1. pipe \in Seq(Items) /\ Len(pipe) <= PipeSize /\ Len(pipe) \in Nat
  BY LenProperties DEF PInv, PTypes
<1>2. NoFile.size = -1
  BY DEF NoFile
<1>3. ppc \notin {"done", "killed"}
  BY DEF PInv, CopiesGiven
<1>4. CASE pipe # <<>> /\ IsMeta(Head(pipe)) /\ m = Head(pipe) /\ pipe' = Tail(pipe)
  <2>1. /\ Len(pipe) >= 1 /\ m = pipe[1] /\ m \in Items
        /\ pipe' \in Seq(Items) /\ Len(pipe') = Len(pipe) - 1
        /\ \A i \in 1 .. Len(pipe') : pipe'[i] = pipe[i + 1]
    BY <1>1, <1>4, Heads
  <2>2. m \in Records /\ m # NoFile /\ m.file \in Files
    BY <1>2, <1>4, <2>1, ItemKinds
  <2>3. 1 \in 1 .. Len(pipe) /\ IsMeta(pipe[1])
    BY <1>1, <1>4, <2>1
  <2>4. ASSUME NEW i \in 1 .. Len(pipe') PROVE ~IsMeta(pipe'[i])
    <3>1. i + 1 \in 1 .. Len(pipe) /\ 1 < i + 1 /\ pipe'[i] = pipe[i + 1]
      BY <1>1, <2>1
    <3>2. ~IsMeta(pipe[i + 1])
      BY <2>3, <3>1 DEF PInv, OneRecord
    <3>3. QED
      BY <3>1, <3>2
  <2>5. Bare' /\ ~Bare
    BY <2>3, <2>4 DEF Bare, IsMeta
  <2>6. ready = 0 /\ ppc \notin {"stat", "meta", "end"}
    BY <2>5 DEF PInv, OneRecord, PTypes
  <2>9. ppc # "wait"
    <3>1. SUFFICES ASSUME ppc = "wait" PROVE FALSE
      OBVIOUS
    <3>2. PICK i \in 1 .. Len(pipe) : pipe[i] = NoFile
      BY <3>1 DEF PInv, OneRecord, EndSent
    <3>3. IsMeta(pipe[i]) /\ i # 1
      BY <2>1, <2>2, <3>2 DEF IsMeta, NoFile
    <3>4. 1 < i
      BY <1>1, <3>3
    <3>5. QED
      BY <2>3, <3>3, <3>4 DEF PInv, OneRecord
  <2>7. /\ Begun \in 1 .. Len(args) /\ m.file = args[Begun]
        /\ \A f \in Files : copy[f] # <<>> => Given(f, Begun - 1)
    BY <2>1, <2>2, <2>3 DEF PInv, CopiesGiven
  <2>8. QED
    <3>1. Begun \in 1 .. Begun
      BY <2>7
    <3>2. Given(m.file, Begun)
      BY <2>7, <3>1 DEF Given
    <3>3. Len(pipe') <= PipeSize
      BY <1>1, <2>1 DEF PipeAssumption
    <3>4. QED
      BY <1>3, <2>1, <2>2, <2>5, <2>6, <2>7, <2>9, <3>2, <3>3
<1>5. CASE pipe = <<>> /\ NoWriter /\ m = meta /\ pipe' = pipe
  <2>1. m \in Records /\ m # NoFile
    BY <1>2, <1>5 DEF PInv, PTypes
  <2>2. Given(m.file, Begun) /\ ppc = "failed"
    <3>1. ~EndSent
      BY <1>5 DEF EndSent
    <3>2. ppc # "wait"
      BY <3>1 DEF PInv, OneRecord
    <3>3. QED
      BY <1>3, <1>5, <2>1, <3>2 DEF PInv, CopiesGiven, NoWriter, ParentOver
  <2>3. Bare'
    BY <1>5 DEF Bare
  <2>4. QED
    BY <1>1, <1>5, <2>1, <2>2, <2>3
<1>6. QED
  BY <1>4, <1>5 DEF Taken

LEMMA StartKeeps ==
  ASSUME PipeAssumption, PInv, NEW m, Taken(m), Start(m), cpc = "meta",
         UNCHANGED <<type, args, present, size, ready, ppc, arg, rpos, buf, stat, edits>>
  PROVE  PInv'
<1>1. CASE m.size = -1
  <2>1. pipe' \in Seq(Items) /\ Len(pipe') <= PipeSize /\ m \in Records \cup {NoFile}
    <3>1. CASE pipe # <<>> /\ IsMeta(Head(pipe)) /\ m = Head(pipe) /\ pipe' = Tail(pipe)
      <4>1. pipe \in Seq(Items) /\ Len(pipe) <= PipeSize
        BY DEF PInv, PTypes
      <4>2. m \in Items /\ pipe' \in Seq(Items) /\ Len(pipe) \in Nat /\ Len(pipe') = Len(pipe) - 1
        BY <3>1, <4>1, Heads
      <4>3. QED
        BY <3>1, <4>1, <4>2, ItemKinds DEF PipeAssumption
    <3>2. CASE pipe = <<>> /\ m = meta /\ pipe' = pipe
      BY <3>2 DEF PInv, PTypes
    <3>3. QED
      BY <3>1, <3>2 DEF Taken
  <2>2. meta' = m /\ known' = TRUE /\ cpc' = "done" /\ UNCHANGED <<left, copy>>
    BY <1>1 DEF Start
  <2>3. QED
    BY <2>1, <2>2, ChildEnds
<1>2. CASE m.size # -1 /\ cpc' # "failed"
  <2>1. /\ m \in Records
        /\ pipe' \in Seq(Items) /\ Len(pipe') <= PipeSize /\ Bare' /\ (ready = 0 \/ NoWriter)
        /\ Given(m.file, Begun) /\ ppc \notin {"done", "killed", "stat", "meta", "end", "wait"}
    BY <1>2, Taking
  <2>2. m.file \in Files /\ m.size \in 0 .. MaxSize
    BY <2>1 DEF Records
  <2>3. /\ meta' = m /\ known' = TRUE /\ left' = m.size
        /\ copy' = [copy EXCEPT ![m.file] = <<>>] /\ cpc' \in {"signal", "chunk"}
    BY <1>2 DEF Start
  <2>4. /\ copy' \in [Files -> Seq(Items)] /\ copy'[m.file] = <<>>
        /\ \A f \in Files : f # m.file => copy'[f] = copy[f]
    BY <2>2, <2>3 DEF PInv, PTypes
  <2>5. PTypes'
    BY <2>1, <2>2, <2>3, <2>4 DEF PInv, PTypes, ChildPlaces
  <2>6. AtFile' /\ Begun' = Begun /\ NoWriter' = NoWriter /\ \A f, n : Given(f, n)' = Given(f, n)
    BY DEF PInv, AtFile, Begun, Given, NoWriter, ParentOver
  <2>7. RoomInCopy'
    <3>1. \A f \in Files : Len(copy'[f]) <= MaxSize
      BY <2>4 DEF PInv, RoomInCopy, PipeAssumption
    <3>2. meta' \in Records /\ Len(copy'[meta'.file]) + left' <= MaxSize
      BY <2>1, <2>2, <2>3, <2>4 DEF PipeAssumption
    <3>3. QED
      BY <3>1, <3>2 DEF RoomInCopy, Records
  <2>8. OneRecord'
    BY <2>1, <2>3, <2>6 DEF OneRecord
  <2>9. CopiesGiven'
    <3>1. \A f \in Files : copy'[f] # <<>> => Given(f, Begun)
      BY <2>4 DEF PInv, CopiesGiven
    <3>2. \A f \in Files : copy'[f] # <<>> => Given(f, Begun)'
      BY <3>1, <2>6 DEF Given
    <3>3. Given(meta.file, Begun)'
      BY <2>1, <2>3, <2>6 DEF Given
    <3>4. \A i \in 1 .. Len(pipe') : ~IsMeta(pipe'[i])
      BY <2>1 DEF Bare, IsMeta
    <3>5. QED
      BY <2>1, <3>2, <3>3, <3>4 DEF CopiesGiven, IsMeta
  <2>10. QED
    BY <2>5, <2>6, <2>7, <2>8, <2>9 DEF PInv
<1>3. CASE m.size # -1 /\ cpc' = "failed"
  <2>1. m \in Records /\ pipe' \in Seq(Items) /\ Len(pipe') <= PipeSize
    BY <1>3, Taking
  <2>2. meta' = m /\ known' = TRUE /\ UNCHANGED <<left, copy>>
    BY <1>3 DEF Start
  <2>3. QED
    BY <1>3, <2>1, <2>2, ChildEnds
<1>4. QED
  BY <1>1, <1>2, <1>3

LEMMA StepsOfMeta ==
  ASSUME PipeAssumption, PInv, CMeta
  PROVE  PInv'
<1>1. /\ UNCHANGED <<type, args, present, size, ready, ppc, arg, rpos, buf, stat, edits>>
      /\ cpc = "meta"
  BY DEF CMeta, parent
<1>2. CASE pipe # <<>> /\ IsMeta(Head(pipe)) /\ pipe' = Tail(pipe) /\ Start(Head(pipe))
  BY <1>1, <1>2, StartKeeps DEF Taken
<1>3. CASE pipe = <<>> /\ NoWriter /\ Start(meta) /\ pipe' = pipe
  BY <1>1, <1>3, StartKeeps DEF Taken
<1>4. CASE pipe' = <<>> /\ Garble
  <2>1. /\ cpc' = "garbled" /\ UNCHANGED <<meta, known, left, copy>>
        /\ pipe' \in Seq(Items) /\ Len(pipe') <= PipeSize
    BY <1>4 DEF Garble, PipeAssumption
  <2>2. QED
    BY <1>1, <2>1, ChildEnds DEF PInv, PTypes
<1>5. CASE cpc' \in {"done", "failed", "killed"} /\ UNCHANGED <<pipe, meta, known, left, copy>>
  BY <1>1, <1>5, ChildEnds DEF PInv, PTypes
<1>6. QED
  BY <1>2, <1>3, <1>4, <1>5 DEF CMeta

LEMMA StepsOfChunk ==
  ASSUME PipeAssumption, PInv, CChunk
  PROVE  PInv'
<1>1. /\ UNCHANGED <<type, args, present, size, ready, ppc, arg, rpos, buf, stat, meta, known, edits>>
      /\ cpc = "chunk"
  BY DEF CChunk, parent
<1>2. CASE pipe = <<>> /\ cpc' = "failed" /\ UNCHANGED <<copy, pipe, left>>
  BY <1>1, <1>2, ChildEnds DEF PInv, PTypes
<1>3. CASE pipe # <<>>
  <2>1. pipe \in Seq(Items) /\ Len(pipe) \in Nat /\ Len(pipe) <= PipeSize /\ left \in 0 .. MaxSize
    BY LenProperties DEF PInv, PTypes
  <2>2. PICK n : n = Least(Wanted, Len(pipe))
    OBVIOUS
  <2>3. n \in 0 .. Len(pipe) /\ n <= Wanted /\ Wanted \in 0 .. left
    BY <2>1, <2>2 DEF Least, Wanted, PipeAssumption
  <2>4. /\ copy' = [copy EXCEPT ![meta.file] = @ \o SubSeq(pipe, 1, n)]
        /\ pipe' = SubSeq(pipe, n + 1, Len(pipe))
        /\ left' = left - Wanted /\ cpc' \in {"chunk", "signal"}
    BY <1>3, <2>2 DEF CChunk
  <2>5. /\ SubSeq(pipe, 1, n) \in Seq(Items) /\ Len(SubSeq(pipe, 1, n)) = n
        /\ pipe' \in Seq(Items) /\ Len(pipe') = Len(pipe) - n
        /\ \A i \in 1 .. Len(pipe') : pipe'[i] = pipe[n + i]
    <3>1. \A i \in 1 .. n : i \in 1 .. Len(pipe)
      BY <2>1, <2>3
    <3>2. \A i \in n + 1 .. Len(pipe) : i \in 1 .. Len(pipe)
      BY <2>1, <2>3
    <3>3. SubSeq(pipe, 1, n) \in Seq(Items) /\ Len(SubSeq(pipe, 1, n)) = n
      BY <2>1, <2>3, SubSeqProperties
    <3>4. SubSeq(pipe, n + 1, Len(pipe)) \in Seq(Items) /\ Len(SubSeq(pipe, n + 1, Len(pipe))) = Len(pipe) - n
      BY <2>1, <2>3, SubSeqProperties
    <3>5. \A i \in 1 .. Len(pipe) - n : SubSeq(pipe, n + 1, Len(pipe))[i] = pipe[n + i]
      BY <2>1, <2>3, SubSeqProperties
    <3>6. QED
      BY <2>4, <3>3, <3>4, <3>5
  <2>6. meta \in Records /\ meta.file \in Files /\ meta # NoFile
    <3>1. meta \in Records
      BY <1>1 DEF PInv, RoomInCopy
    <3>2. meta \in Items
      BY <3>1 DEF Items
    <3>3. QED
      BY <3>1, <3>2, ItemKinds
  <2>7. PICK q \in Seq(Items) : q = copy[meta.file] \o SubSeq(pipe, 1, n) /\ Len(q) = Len(copy[meta.file]) + n
    <3>1. copy[meta.file] \in Seq(Items)
      BY <2>6 DEF PInv, PTypes
    <3>2. /\ copy[meta.file] \o SubSeq(pipe, 1, n) \in Seq(Items)
          /\ Len(copy[meta.file] \o SubSeq(pipe, 1, n))
               = Len(copy[meta.file]) + Len(SubSeq(pipe, 1, n))
      BY <2>5, <3>1, ConcatProperties
    <3>3. QED
      BY <2>5, <3>2
  <2>8. /\ copy' \in [Files -> Seq(Items)] /\ copy'[meta.file] = q
        /\ \A f \in Files : f # meta.file => copy'[f] = copy[f]
    BY <2>4, <2>6, <2>7 DEF PInv, PTypes
  <2>9. PTypes'
    <3>1. left' \in 0 .. MaxSize /\ Len(pipe') <= PipeSize
      BY <2>1, <2>3, <2>4, <2>5 DEF PipeAssumption
    <3>2. QED
      BY <1>1, <2>4, <2>5, <2>8, <3>1 DEF PInv, PTypes, ChildPlaces
  <2>10. AtFile' /\ Begun' = Begun /\ NoWriter' = NoWriter /\ \A f, k : Given(f, k)' = Given(f, k)
    BY <1>1 DEF PInv, AtFile, Begun, Given, NoWriter, ParentOver
  <2>11. RoomInCopy'
    <3>1. Len(copy[meta.file]) + left <= MaxSize /\ Len(copy[meta.file]) \in Nat
      BY <1>1, <2>6, LenProperties DEF PInv, RoomInCopy, PTypes
    <3>2. Len(q) <= MaxSize /\ Len(q) + left' <= MaxSize
      <4>1. PICK k \in Nat : k = Len(copy[meta.file])
        BY <3>1
      <4>2. k + left <= MaxSize /\ Len(q) = k + n
        BY <2>7, <3>1, <4>1
      <4>3. PICK w \in Nat : w = Wanted /\ w <= left /\ n <= w /\ left' = left - w
        BY <2>1, <2>3, <2>4
      <4>4. MaxSize \in Nat /\ left \in Nat /\ n \in Nat
        BY <2>1, <2>3 DEF PipeAssumption
      <4>5. k + n <= MaxSize /\ (k + n) + (left - w) <= MaxSize
        BY <4>2, <4>3, <4>4
      <4>6. QED
        BY <4>2, <4>3, <4>5
    <3>3. \A f \in Files : Len(copy'[f]) <= MaxSize
      BY <2>8, <3>2 DEF PInv, RoomInCopy
    <3>4. QED
      BY <1>1, <2>6, <2>8, <3>2, <3>3 DEF RoomInCopy, Records
  <2>12. ASSUME NEW i \in 1 .. Len(pipe') PROVE ~IsMeta(pipe'[i])
    <3>1. n + i \in 1 .. Len(pipe) /\ pipe'[i] = pipe[n + i]
      BY <2>1, <2>3, <2>5
    <3>2. QED
      BY <1>1, <3>1 DEF PInv, OneRecord, Bare
  <2>13. OneRecord'
    <3>1. Bare'
      BY <2>12 DEF Bare, IsMeta
    <3>2. (ready = 0 \/ NoWriter) /\ ppc \notin {"stat", "meta", "end", "wait"}
      BY <1>1 DEF PInv, OneRecord
    <3>3. QED
      BY <1>1, <2>4, <2>10, <3>1, <3>2 DEF OneRecord
  <2>14. CopiesGiven'
    <3>1. Given(meta.file, Begun) /\ ppc \notin {"done", "killed"}
      BY <1>1, <2>6 DEF PInv, CopiesGiven
    <3>2. \A f \in Files : copy'[f] # <<>> => Given(f, Begun)
      BY <1>1, <2>8, <3>1 DEF PInv, CopiesGiven
    <3>3. \A f \in Files : copy'[f] # <<>> => Given(f, Begun)'
      BY <3>2, <2>10 DEF Given
    <3>4. Given(meta.file, Begun)'
      BY <1>1, <2>10, <3>1 DEF Given
    <3>5. QED
      BY <1>1, <2>12, <3>1, <3>3, <3>4 DEF CopiesGiven, IsMeta
  <2>15. QED
    BY <2>9, <2>10, <2>11, <2>13, <2>14 DEF PInv
<1>4. QED
  BY <1>2, <1>3 DEF CChunk

LEMMA StepsOfOthers ==
  ASSUME PipeAssumption, PInv, (\E f \in Files : Edit(f)) \/ UNCHANGED vars
  PROVE  PInv'
<1>1. UNCHANGED <<type, args, present, pipe, ready, ppc, arg, rpos, buf, stat, cpc, meta, left,
                  known, copy>>
  BY DEF Edit, vars, parent, child
<1>2. size' \in [Files -> 0 .. MaxSize] /\ edits' \in 0 .. MaxEdits
  <2>1. size \in [Files -> 0 .. MaxSize] /\ edits \in 0 .. MaxEdits
    BY DEF PInv, PTypes
  <2>2. ASSUME NEW f \in Files, Edit(f)
        PROVE  size' \in [Files -> 0 .. MaxSize] /\ edits' \in 0 .. MaxEdits
    <3>1. PICK n \in 0 .. MaxSize : size' = [size EXCEPT ![f] = n]
      BY <2>2 DEF Edit
    <3>2. edits' = edits + 1 /\ edits < MaxEdits
      BY <2>2 DEF Edit
    <3>3. QED
      BY <2>1, <3>1, <3>2 DEF PipeAssumption
  <2>3. QED
    BY <2>1, <2>2 DEF vars
<1>3. PTypes'
  BY <1>1, <1>2 DEF PInv, PTypes
<1>4. AtFile' /\ RoomInCopy' /\ OneRecord'
  BY <1>1 DEF PInv, AtFile, RoomInCopy, OneRecord, Bare, EndSent, NoWriter, ParentOver
<1>5. CopiesGiven'
  BY <1>1 DEF PInv, CopiesGiven, Given, Begun
<1>6. QED
  BY <1>3, <1>4, <1>5 DEF PInv

LEMMA PInvHolds == PipeAssumption => (Spec => []PInv)
<1> SUFFICES ASSUME PipeAssumption PROVE Spec => []PInv
  OBVIOUS
<1>1. Init => PInv
  <2> SUFFICES ASSUME Init PROVE PInv
    OBVIOUS
  <2>1. PICK n \in 0 .. MaxArgs : args \in [1 .. n -> Files]
    BY DEF Init
  <2>2. args \in Seq(Files) /\ Len(args) \in Nat
    BY <2>1, LenProperties DEF PipeAssumption
  <2>3. <<>> \in Seq(Items) /\ <<>> \in Seq(Contents) /\ Len(<<>>) = 0
    OBVIOUS
  <2>4. copy \in [Files -> Seq(Items)]
    BY <2>3 DEF Init
  <2>5. PTypes
    <3>1. arg \in 1 .. Len(args) + 1
      BY <2>2 DEF Init
    <3>2. /\ stat \in 0 .. MaxSize /\ rpos \in 0 .. MaxSize /\ left \in 0 .. MaxSize
          /\ edits \in 0 .. MaxEdits /\ ready \in 0 .. 1
      BY DEF Init, PipeAssumption
    <3>3. ppc \in ParentPlaces /\ cpc \in ChildPlaces
      BY DEF Init, ParentPlaces, ChildPlaces
    <3>4. pipe \in Seq(Items) /\ Len(pipe) <= PipeSize /\ buf \in Seq(Contents) /\ Len(buf) <= BufferSize
      BY <2>3 DEF Init, PipeAssumption
    <3>5. meta \in Records \cup {NoFile} /\ known \in BOOLEAN /\ present \subseteq Files
      BY DEF Init
    <3>6. type \in {"PIPE", "MKFIFO"} /\ size \in [Files -> 0 .. MaxSize]
      BY DEF Init
    <3>7. QED
      BY <2>2, <2>4, <3>1, <3>2, <3>3, <3>4, <3>5, <3>6 DEF PTypes
  <2>6. AtFile /\ RoomInCopy /\ OneRecord /\ CopiesGiven
    BY <2>3 DEF Init, AtFile, RoomInCopy, OneRecord, CopiesGiven, Bare, PipeAssumption
  <2>7. QED
    BY <2>5, <2>6 DEF PInv
<1>2. PInv /\ [Next]_vars => PInv'
  BY StepsOfOpen, StepsOfSend, StepsOfRead, StepsOfSignal, StepsOfMeta, StepsOfChunk, StepsOfOthers
     DEF Next, Parent, Child
<1>3. QED
  BY <1>1, <1>2, PTL DEF Spec

\* The pipe is never overfull, at most one R is under way and no copy grows beyond the largest
\* file, in both kinds of channel, whatever is missing and whoever stops first.
THEOREM TypeCorrect == PipeAssumption => (Spec => []TypeOK)
<1> SUFFICES ASSUME PipeAssumption PROVE Spec => []TypeOK
  OBVIOUS
<1>1. PInv => TypeOK
  BY DEF PInv, PTypes, RoomInCopy, TypeOK, ParentPlaces, ChildPlaces
<1>2. QED
  BY <1>1, PInvHolds, PTL

\* A step that empties a copy takes the record of its file.
LEMMA Emptied ==
  ASSUME PipeAssumption, PInv, [Next]_vars, NEW f \in Files, copy[f] # <<>>, copy'[f] = <<>>
  PROVE  Repeated(f) \/ ppc = "failed"
<1>1. CMeta \/ CChunk
  BY DEF Next, Parent, Child, vars, POpen, PReady, PStat, PMeta, PRead, PWrite, PEnd, PWait, CSignal,
         Edit, child
<1>2. PICK q \in Seq(Items) : q = copy[f] /\ Len(q) \in Nat /\ Len(q) >= 1
  BY EmptySeq, LenProperties DEF PInv, PTypes
<1>3. ~CChunk
  <2> SUFFICES ASSUME CChunk PROVE FALSE
    OBVIOUS
  <2>1. PICK n : n = Least(Wanted, Len(pipe))
    OBVIOUS
  <2>2. /\ copy' = [copy EXCEPT ![meta.file] = @ \o SubSeq(pipe, 1, n)] /\ cpc = "chunk" /\ pipe # <<>>
    BY <2>1 DEF CChunk
  <2>3. meta.file = f /\ copy'[f] = q \o SubSeq(pipe, 1, n)
    BY <1>2, <2>2 DEF PInv, PTypes
  <2>4. pipe \in Seq(Items) /\ Len(pipe) \in Nat /\ left \in 0 .. MaxSize
    BY LenProperties DEF PInv, PTypes
  <2>5. n \in 0 .. Len(pipe)
    BY <2>1, <2>4 DEF Least, Wanted, PipeAssumption
  <2>6. SubSeq(pipe, 1, n) \in Seq(Items) /\ Len(SubSeq(pipe, 1, n)) = n
    <3>1. \A i \in 1 .. n : i \in 1 .. Len(pipe)
      BY <2>4, <2>5
    <3>2. QED
      BY <2>4, <2>5, SubSeqProperties
  <2>7. Len(copy'[f]) = Len(q) + n
    BY <1>2, <2>3, <2>6, ConcatProperties
  <2>8. QED
    BY <1>2, <2>5, <2>7
<1>4. PICK m : Taken(m) /\ Start(m)
  <2>1. UNCHANGED copy \/ \E m : Taken(m) /\ Start(m)
    BY <1>1, <1>3 DEF CMeta, Taken, Garble
  <2>2. QED
    BY <2>1
<1>5. cpc = "meta" /\ m.size # -1 /\ m.file = f
  BY <1>1, <1>3, <1>4 DEF CMeta, Start, PInv, PTypes
<1>6. ppc = "failed" \/ (Begun \in 1 .. Len(args) /\ f = args[Begun] /\ Given(f, Begun - 1))
  BY <1>4, <1>5, Taking
<1>7. DOMAIN args = 1 .. Len(args) /\ Len(args) \in Nat
  BY LenProperties DEF PInv, PTypes
<1>8. ASSUME Begun \in 1 .. Len(args), f = args[Begun], Given(f, Begun - 1) PROVE Repeated(f)
  <2>1. PICK k \in 1 .. Begun - 1 : args[k] = f
    BY <1>8 DEF Given
  <2>2. k \in 1 .. Len(args) /\ k # Begun
    BY <1>7, <1>8
  <2>3. QED
    BY <1>7, <1>8, <2>1, <2>2 DEF Repeated
<1>9. QED
  BY <1>6, <1>8

\* No copy is destroyed again, complete or not and whatever somebody changes meanwhile, unless its
\* file is named twice or the parent stopped at a missing file (main.c:125-139).
THEOREM CopiesStay == PipeAssumption => (Spec => CopyKept)
<1> SUFFICES ASSUME PipeAssumption PROVE Spec => CopyKept
  OBVIOUS
<1>1. PInv /\ [Next]_vars =>
        [\A f \in Files :
           copy[f] # <<>> /\ Whole(f) /\ copy'[f] = <<>> /\ edits = 0
           => Repeated(f) \/ ppc = "failed"]_vars
  BY Emptied
<1>2. QED
  BY <1>1, PInvHolds, PTL DEF Spec, CopyKept

=============================================================================
