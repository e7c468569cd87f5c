---------------------------- MODULE Module2Proofs ----------------------------
(***************************************************************************)
(* Theorems about the menu programs of module2, for any number of nodes,    *)
(* items, ids, names and plugins and any sequence of operations: the queue  *)
(* pops the first item that suits, the doubly linked phonebooks and the     *)
(* array phonebook stay sorted and lose nobody, the calculators' menus have *)
(* the libraries they show, and the chmod simulator agrees with chmod(1).   *)
(*                                                                         *)
(* Each program has an inductive invariant of its own, in the section of    *)
(* that program; ProgramsInv puts them together.  A list is described by    *)
(* the sequence of what a walk along it meets: the links are those of the   *)
(* sequence, and an operation on the links is shown to be one on it.        *)
(***************************************************************************)
EXTENDS MCModule2, TLAPS, SequenceTheorems, FiniteSetTheorems, FunctionTheorems, WellFoundedInduction

\* What Min chooses: every nonempty set of natural numbers has a least one.
LEMMA MinIsLeast ==
  ASSUME NEW T, T \subseteq Nat, T # {}
  PROVE  /\ List!Min(T) \in T /\ \A n \in T : List!Min(T) <= n
         /\ Array!Min(T) \in T /\ \A n \in T : Array!Min(T) <= n
         /\ Queue!Min(T) \in T /\ \A n \in T : Queue!Min(T) <= n
         /\ \E m \in T : \A n \in T : m <= n
<1> DEFINE Less == OpToRel(<, Nat)
<1>a. IsWellFoundedOn(Less, Nat)
  BY NatLessThanWellFounded
<1>b. \A x, y \in Nat : y < x => <<y, x>> \in Less
  BY DEF OpToRel
<1> HIDE DEF Less
<1>1. PICK x \in T : \A y \in T : ~(<<y, x>> \in Less)
  BY <1>a, WFMin
<1>2. \A y \in T : x <= y
  <2> TAKE y \in T
  <2>1. x \in Nat /\ y \in Nat /\ ~(y < x)
    BY <1>1, <1>b
  <2>2. QED
    BY <2>1
<1>3. List!Min(T) \in T /\ \A n \in T : List!Min(T) <= n
  BY <1>2 DEF List!Min
<1>4. Array!Min(T) \in T /\ \A n \in T : Array!Min(T) <= n
  BY <1>2 DEF Array!Min
<1>5. Queue!Min(T) \in T /\ \A n \in T : Queue!Min(T) <= n
  BY <1>2 DEF Queue!Min
<1>6. QED
  BY <1>2, <1>3, <1>4, <1>5

\* Cardinality is one operator, whichever instance it is taken from.
LEMMA SameCount ==
  ASSUME NEW S
  PROVE  /\ List!Cardinality(S) = Cardinality(S) /\ Array!Cardinality(S) = Cardinality(S)
         /\ Queue!Cardinality(S) = Cardinality(S)
BY DEF List!Cardinality, Queue!Cardinality, Array!Cardinality, Cardinality

-----------------------------------------------------------------------------
(* Sequences without repetition, which are what a walk along a list meets.  *)

\* Nothing is met twice.
Distinct(s) == \A x, j \in 1 .. Len(s) : s[x] = s[j] => x = j

\* A sequence without repetition is no longer than the set of what it may hold is large.
LEMMA NoLonger ==
  ASSUME NEW S, IsFiniteSet(S), NEW s \in Seq(S), Distinct(s)
  PROVE  Len(s) \in 0 .. Cardinality(S) /\ Cardinality(S) \in Nat
<1>1. PICK n \in Nat : n = Len(s)
  BY LenProperties
<1>2. IsFiniteSet(1 .. n) /\ Cardinality(1 .. n) = n
  BY FS_Interval
<1>3. s \in Injection(1 .. n, S)
  BY <1>1, LenProperties DEF Injection, IsInjective, Distinct
<1>4. Cardinality(1 .. n) <= Cardinality(S) /\ Cardinality(S) \in Nat
  BY <1>3, FS_Injection, FS_CardinalityType
<1>5. QED
  BY <1>1, <1>2, <1>4

\* A walk from root on, for C steps, and what it meets if that is s: then NULL.
Walk(C, root, link, f) ==
  f = [k \in 0 .. C |-> IF k = 0 THEN root ELSE IF f[k - 1] = NULL THEN NULL ELSE link[f[k - 1]]]
Linked(s, root, link) ==
  /\ root = IF Len(s) = 0 THEN NULL ELSE s[1]
  /\ \A x \in 1 .. Len(s) : link[s[x]] = IF x = Len(s) THEN NULL ELSE s[x + 1]
Meets(s, C) == [k \in 0 .. C |-> IF k < Len(s) THEN s[k + 1] ELSE NULL]

LEMMA Walked ==
  ASSUME NEW S, NULL \notin S, NEW s \in Seq(S), NEW C \in Nat, Len(s) \in 0 .. C,
         NEW root, NEW link, Linked(s, root, link)
  PROVE  /\ Walk(C, root, link, Meets(s, C))
         /\ \A h : Walk(C, root, link, h) =>
              /\ {k \in 0 .. C : h[k] # NULL} = 0 .. Len(s) - 1
              /\ [k \in 1 .. Len(s) |-> h[k - 1]] = s
<1> DEFINE E(f) == [k \in 0 .. C |-> IF k = 0 THEN root
                                     ELSE IF f[k - 1] = NULL THEN NULL ELSE link[f[k - 1]]]
<1>1. PICK n \in Nat : n = Len(s)
  BY LenProperties
<1>2. n \in 0 .. C /\ C \in Nat
  BY <1>1
<1>3. PICK g : g = [k \in 0 .. C |-> IF k < n THEN s[k + 1] ELSE NULL]
  OBVIOUS
<1>4. \A k \in 1 .. n : s[k] \in S /\ s[k] # NULL
  BY <1>1, ElementOfSeq
<1>5. g = E(g)
  <2>1. g[0] = root
    BY <1>1, <1>2, <1>3 DEF Linked
  <2>2. ASSUME NEW k \in 1 .. C PROVE g[k] = IF g[k - 1] = NULL THEN NULL ELSE link[g[k - 1]]
    <3>1. CASE k - 1 < n
      <4>1. g[k - 1] = s[k] /\ k \in 1 .. n
        BY <1>2, <1>3, <2>2, <3>1
      <4>2. link[s[k]] = IF k = n THEN NULL ELSE s[k + 1]
        BY <1>1, <4>1 DEF Linked
      <4>3. g[k] = IF k = n THEN NULL ELSE s[k + 1]
        BY <1>2, <1>3, <2>2, <4>1
      <4>4. QED
        BY <1>4, <4>1, <4>2, <4>3
    <3>2. CASE ~(k - 1 < n)
      BY <1>2, <1>3, <2>2, <3>2
    <3>3. QED
      BY <3>1, <3>2
  <2>3. \A k \in 0 .. C : g[k] = E(g)[k]
    BY <1>2, <2>1, <2>2
  <2>4. QED
    BY <1>3, <2>3
<1>6. ASSUME NEW h, Walk(C, root, link, h) PROVE g = h
  <2>0. h = E(h)
    BY <1>6 DEF Walk
  <2>01. DOMAIN h = 0 .. C
    BY <2>0
  <2>1. SUFFICES ASSUME g # h PROVE FALSE
    OBVIOUS
  <2>2. PICK k \in 0 .. C : g[k] # h[k]
    BY <1>3, <2>0, <2>1
  <2> DEFINE T == {k2 \in 0 .. C : g[k2] # h[k2]}
  <2>3. T \subseteq Nat /\ T # {}
    BY <2>2
  <2>4. PICK m \in T : \A k2 \in T : m <= k2
    <3> HIDE DEF T
    <3> QED
      BY <2>3, MinIsLeast
  <2>5. m # 0
    BY <1>2, <1>5, <2>0, <2>4
  <2>6. g[m - 1] = h[m - 1]
    BY <1>2, <2>4, <2>5
  <2>7. m \in 1 .. C /\ g[m] # h[m]
    BY <1>2, <2>4, <2>5
  <2>8. g[m] = IF g[m - 1] = NULL THEN NULL ELSE link[g[m - 1]]
    BY <1>5, <2>7
  <2>9. h[m] = IF h[m - 1] = NULL THEN NULL ELSE link[h[m - 1]]
    BY <2>0, <2>7
  <2>10. QED
    BY <2>6, <2>7, <2>8, <2>9
<1>10. {k \in 0 .. C : g[k] # NULL} = 0 .. n - 1
  BY <1>2, <1>3, <1>4
<1>12. [k \in 1 .. n |-> g[k - 1]] = s
  <2>1. \A k \in 1 .. n : g[k - 1] = s[k]
    BY <1>2, <1>3
  <2>2. [k \in 1 .. n |-> g[k - 1]] = [k \in 1 .. n |-> s[k]]
    BY <2>1
  <2>3. QED
    BY <1>1, <2>2, SeqDef, LenProperties
<1>13. QED
  <2>1. g = Meets(s, C) /\ Walk(C, root, link, g)
    BY <1>1, <1>3, <1>5 DEF Meets, Walk
  <2>2. QED
    BY <1>1, <1>6, <1>10, <1>12, <2>1

\* Entry k of s is missing in t; n is at place k of t, the others are those of s.
Misses(S, s, k, t) ==
  /\ t \in Seq(S) /\ Len(t) = Len(s) - 1 /\ Distinct(t) /\ List!Range(t) = List!Range(s) \ {s[k]}
  /\ \A x \in 1 .. Len(s) - 1 : t[x] = IF x < k THEN s[x] ELSE s[x + 1]
Holds(S, s, k, n, t) ==
  /\ t \in Seq(S) /\ Len(t) = Len(s) + 1 /\ Distinct(t) /\ List!Range(t) = List!Range(s) \cup {n}
  /\ \A x \in 1 .. Len(s) + 1 : t[x] = IF x < k THEN s[x] ELSE IF x = k THEN n ELSE s[x - 1]

Without(s, k) == [x \in 1 .. Len(s) - 1 |-> IF x < k THEN s[x] ELSE s[x + 1]]
With(s, k, n) == [x \in 1 .. Len(s) + 1 |-> IF x < k THEN s[x] ELSE IF x = k THEN n ELSE s[x - 1]]

LEMMA WithoutIs ==
  ASSUME NEW S, NEW s \in Seq(S), Distinct(s),
         NEW k \in 1 .. Len(s), NEW t, t = Without(s, k)
  PROVE  Misses(S, s, k, t)
<1>1. PICK n \in Nat : n = Len(s) /\ n > 0 /\ DOMAIN s = 1 .. n
  BY LenProperties
<1>3. t = [x \in 1 .. n - 1 |-> IF x < k THEN s[x] ELSE s[x + 1]]
  BY <1>1 DEF Without
<1>4. \A x \in 1 .. n : s[x] \in S
  BY <1>1, ElementOfSeq
<1>5. t \in Seq(S) /\ Len(t) = n - 1
  <2>1. t \in [1 .. n - 1 -> S] /\ n - 1 \in Nat
    BY <1>1, <1>3, <1>4
  <2>2. QED
    BY <2>1, SeqDef, LenProperties
<1>6. Distinct(t)
  BY <1>1, <1>3, <1>5 DEF Distinct
<1>7. List!Range(t) = List!Range(s) \ {s[k]}
  <2>1. List!Range(t) = {t[x] : x \in 1 .. n - 1} /\ List!Range(s) = {s[x] : x \in 1 .. n}
    BY <1>1, <1>3 DEF List!Range
  <2>2. ASSUME NEW x \in 1 .. n - 1 PROVE t[x] \in List!Range(s) \ {s[k]}
    BY <1>1, <1>3, <2>1 DEF Distinct
  <2>3. ASSUME NEW x \in 1 .. n, x # k PROVE s[x] \in List!Range(t)
    <3>1. CASE x < k
      <4>1. x \in 1 .. n - 1 /\ t[x] = s[x]
        BY <1>1, <1>3, <3>1
      <4>2. QED
        BY <2>1, <4>1
    <3>2. CASE ~(x < k)
      <4>1. x - 1 \in 1 .. n - 1 /\ t[x - 1] = s[x]
        BY <1>1, <1>3, <2>3, <3>2
      <4>2. QED
        BY <2>1, <4>1
    <3>3. QED
      BY <3>1, <3>2
  <2>4. List!Range(t) \subseteq List!Range(s) \ {s[k]}
    BY <2>1, <2>2
  <2>5. List!Range(s) \ {s[k]} \subseteq List!Range(t)
    BY <2>1, <2>3
  <2>6. QED
    BY <2>4, <2>5
<1>8. QED
  BY <1>1, <1>3, <1>5, <1>6, <1>7 DEF Misses

LEMMA WithIs ==
  ASSUME NEW S, NEW s \in Seq(S), Distinct(s),
         NEW k \in 1 .. Len(s) + 1, NEW n \in S \ List!Range(s),
         NEW t, t = With(s, k, n)
  PROVE  Holds(S, s, k, n, t)
<1>1. PICK m \in Nat : m = Len(s) /\ DOMAIN s = 1 .. m
  BY LenProperties
<1>3. t = [x \in 1 .. m + 1 |-> IF x < k THEN s[x] ELSE IF x = k THEN n ELSE s[x - 1]]
  BY <1>1 DEF With
<1>4. \A x \in 1 .. m : s[x] \in S /\ s[x] # n
  BY <1>1, ElementOfSeq DEF List!Range
<1>5. t \in Seq(S) /\ Len(t) = m + 1
  <2>1. t \in [1 .. m + 1 -> S] /\ m + 1 \in Nat
    BY <1>1, <1>3, <1>4
  <2>2. QED
    BY <2>1, SeqDef, LenProperties
<1>6. Distinct(t)
  BY <1>1, <1>3, <1>4, <1>5 DEF Distinct
<1>7. List!Range(t) = List!Range(s) \cup {n}
  <2>1. List!Range(t) = {t[x] : x \in 1 .. m + 1} /\ List!Range(s) = {s[x] : x \in 1 .. m}
    BY <1>1, <1>3 DEF List!Range
  <2>2. ASSUME NEW x \in 1 .. m + 1 PROVE t[x] \in List!Range(s) \cup {n}
    BY <1>1, <1>3, <2>1
  <2>3. ASSUME NEW x \in 1 .. m PROVE s[x] \in List!Range(t)
    <3>1. CASE x < k
      <4>1. x \in 1 .. m + 1 /\ t[x] = s[x]
        BY <1>1, <1>3, <3>1
      <4>2. QED
        BY <2>1, <4>1
    <3>2. CASE ~(x < k)
      <4>1. x + 1 \in 1 .. m + 1 /\ t[x + 1] = s[x]
        BY <1>1, <1>3, <2>3, <3>2
      <4>2. QED
        BY <2>1, <4>1
    <3>3. QED
      BY <3>1, <3>2
  <2>4. k \in 1 .. m + 1 /\ t[k] = n
    BY <1>1, <1>3
  <2>5. n \in List!Range(t)
    BY <2>1, <2>4
  <2>6. List!Range(t) \subseteq List!Range(s) \cup {n} /\ List!Range(s) \subseteq List!Range(t)
    BY <2>1, <2>2, <2>3
  <2>7. QED
    BY <2>5, <2>6
<1>8. QED
  BY <1>1, <1>3, <1>5, <1>6, <1>7 DEF Holds

-----------------------------------------------------------------------------
(* The priority queue.                                                     *)

ItemAssumption == NULL \notin Items /\ IsFiniteSet(Items) /\ MaxPriority \in Nat

\* m is more important than n, or as important and came first.
Ahead(c, p, m, n) ==
  \/ p[m] < p[n]
  \/ p[m] = p[n] /\ \E x, y \in 1 .. Len(c) : x < y /\ c[x] = m /\ c[y] = n

\* s are the items of the list, in the order in which they must leave.
Line(s) ==
  /\ s \in Seq(Items) /\ Distinct(s) /\ Linked(s, begin, next) /\ List!Range(s) = List!Range(came)
  /\ \A x, y \in 1 .. Len(s) : x < y => Ahead(came, priority, s[x], s[y])

QInv ==
  /\ next \in [Items -> Items \cup {NULL}] /\ priority \in [Items -> Nat]
  /\ queue = "up" => came \in Seq(Items) /\ Distinct(came) /\ \E s : Line(s)

LEMMA LineFacts ==
  ASSUME ItemAssumption, QInv, NEW s, Line(s)
  PROVE  /\ s \in Seq(Items) /\ Len(s) \in Nat /\ DOMAIN s = 1 .. Len(s)
         /\ \A x \in 1 .. Len(s) : s[x] \in Items /\ s[x] # NULL /\ priority[s[x]] \in Nat
         /\ List!Range(s) = {s[x] : x \in 1 .. Len(s)}
         /\ (begin = NULL <=> Len(s) = 0) /\ (Len(s) # 0 => begin = s[1])
<1>1. s \in Seq(Items) /\ Len(s) \in Nat /\ DOMAIN s = 1 .. Len(s)
  BY LenProperties DEF Line
<1>2. \A x \in 1 .. Len(s) : s[x] \in Items
  BY <1>1, ElementOfSeq
<1>3. \A x \in 1 .. Len(s) : s[x] # NULL /\ priority[s[x]] \in Nat
  BY <1>2 DEF QInv, ItemAssumption
<1>4. List!Range(s) = {s[x] : x \in 1 .. Len(s)}
  BY <1>1 DEF List!Range
<1>5. (begin = NULL <=> Len(s) = 0) /\ (Len(s) # 0 => begin = s[1])
  <2>1. Linked(s, begin, next)
    BY DEF Line
  <2>2. Len(s) # 0 => s[1] # NULL
    BY <1>1, <1>3
  <2>3. QED
    BY <2>1, <2>2 DEF Linked
<1>6. QED
  BY <1>1, <1>2, <1>3, <1>4, <1>5

\* The walk along the list meets s.
LEMMA QueueChain ==
  ASSUME ItemAssumption, NEW s, Line(s)
  PROVE  Queue!Chain = s
<1> DEFINE C == Queue!Cardinality(Items)
<1>1. PICK n \in Nat : n = Len(s)
  BY LenProperties DEF Line
<1>2. n \in 0 .. C /\ C \in Nat
  BY <1>1, NoLonger, SameCount DEF Line, ItemAssumption
<1>3. PICK h : h = CHOOSE f : f = [k \in 0 .. C |-> IF k = 0 THEN begin
                                          ELSE IF f[k - 1] = NULL THEN NULL ELSE next[f[k - 1]]]
  OBVIOUS
<1>4. Queue!Chain = [k \in 1 .. Queue!Cardinality({j \in 0 .. C : h[j] # NULL}) |-> h[k - 1]]
  BY <1>3 DEF Queue!Chain, C
<1> HIDE DEF C
<1>5. {k \in 0 .. C : h[k] # NULL} = 0 .. n - 1 /\ [k \in 1 .. n |-> h[k - 1]] = s
  <2>1. h = CHOOSE f : Walk(C, begin, next, f)
    BY <1>3 DEF Walk
  <2>2. Linked(s, begin, next) /\ s \in Seq(Items) /\ NULL \notin Items
    BY DEF Line, ItemAssumption
  <2>3. /\ Walk(C, begin, next, Meets(s, C))
        /\ Walk(C, begin, next, h) =>
             {k \in 0 .. C : h[k] # NULL} = 0 .. n - 1 /\ [k \in 1 .. n |-> h[k - 1]] = s
    BY <1>1, <1>2, <2>2, Walked
  <2>4. QED
    BY <2>1, <2>3
<1>6. Queue!Cardinality(0 .. n - 1) = n
  BY FS_Interval, SameCount
<1>7. QED
  BY <1>4, <1>5, <1>6

\* The arrival of an item is its place among those that came.
LEMMA ArrivalIs ==
  ASSUME came \in Seq(Items), Distinct(came), NEW x \in 1 .. Len(came)
  PROVE  Queue!Arrival(came[x]) = x
<1>1. PICK I : I = {y \in 1 .. Len(came) : came[y] = came[x]}
  OBVIOUS
<1>2. Queue!Arrival(came[x]) = IF I # {} THEN Queue!Min(I) ELSE 0
  BY <1>1 DEF Queue!Arrival, Queue!SelectInSeq
<1>3. Len(came) \in Nat
  BY LenProperties
<1>4. I = {x}
  BY <1>1, <1>3 DEF Distinct
<1>5. Queue!Min(I) \in I
  BY <1>3, <1>4, MinIsLeast
<1>6. QED
  BY <1>2, <1>4, <1>5

LEMMA BeforeIs ==
  ASSUME came \in Seq(Items), Distinct(came), NEW m \in List!Range(came), NEW n \in List!Range(came),
         Ahead(came, priority, m, n)
  PROVE  Queue!Before(m, n)
<1>1. CASE priority[m] < priority[n]
  BY <1>1 DEF Queue!Before
<1>2. CASE priority[m] = priority[n] /\ \E x, y \in 1 .. Len(came) : x < y /\ came[x] = m /\ came[y] = n
  <2>1. PICK x, y \in 1 .. Len(came) : x < y /\ came[x] = m /\ came[y] = n
    BY <1>2
  <2>2. Queue!Arrival(m) = x /\ Queue!Arrival(n) = y
    BY <2>1, ArrivalIs
  <2>3. QED
    BY <1>2, <2>1, <2>2 DEF Queue!Before
<1>3. QED
  BY <1>1, <1>2 DEF Ahead

-----------------------------------------------------------------------------
(* Items leave the queue.                                                  *)

LEMMA RemovedAt ==
  ASSUME NEW c \in Seq(Items), NEW k \in 1 .. Len(c)
  PROVE  Queue!RemoveAt(c, k) = Without(c, k)
<1>1. PICK n \in Nat : n = Len(c) /\ DOMAIN c = 1 .. n
  BY LenProperties
<1>2. \A x \in 1 .. n : c[x] \in Items
  BY <1>1, ElementOfSeq
<1>3. PICK u : u = SubSeq(c, 1, k - 1)
  OBVIOUS
<1>4. PICK v : v = SubSeq(c, k + 1, n)
  OBVIOUS
<1>5. u \in Seq(Items) /\ Len(u) = k - 1 /\ \A x \in 1 .. k - 1 : u[x] = c[x]
  <2>1. 1 \in Int /\ k - 1 \in Int /\ \A x \in 1 .. k - 1 : c[x] \in Items
    BY <1>1, <1>2
  <2>2. /\ u \in Seq(Items) /\ Len(u) = (IF 1 <= k - 1 THEN (k - 1) - 1 + 1 ELSE 0)
        /\ \A x \in 1 .. (k - 1) - 1 + 1 : u[x] = c[1 + x - 1]
    BY <1>3, <2>1, SubSeqProperties
  <2>3. (k - 1) - 1 + 1 = k - 1 /\ (~(1 <= k - 1) => k - 1 = 0)
    BY <1>1
  <2>4. \A x \in 1 .. k - 1 : 1 + x - 1 = x
    BY <1>1
  <2>5. \A x \in 1 .. k - 1 : u[x] = c[x]
    BY <2>2, <2>3, <2>4
  <2>6. QED
    BY <2>2, <2>3, <2>5
<1>6. v \in Seq(Items) /\ Len(v) = n - k /\ \A x \in 1 .. n - k : v[x] = c[x + k]
  <2>1. k + 1 \in Int /\ n \in Int /\ \A x \in k + 1 .. n : c[x] \in Items
    BY <1>1, <1>2
  <2>2. /\ v \in Seq(Items) /\ Len(v) = (IF k + 1 <= n THEN n - (k + 1) + 1 ELSE 0)
        /\ \A x \in 1 .. n - (k + 1) + 1 : v[x] = c[(k + 1) + x - 1]
    BY <1>4, <2>1, SubSeqProperties
  <2>3. n - (k + 1) + 1 = n - k /\ (k + 1 <= n <=> 0 < n - k) /\ (~(k + 1 <= n) => n - k = 0)
    BY <1>1
  <2>4. \A x \in 1 .. n - k : (k + 1) + x - 1 = x + k
    BY <1>1
  <2>5. \A x \in 1 .. n - k : v[x] = c[x + k]
    BY <2>2, <2>3, <2>4
  <2>6. QED
    BY <2>2, <2>3, <2>5
<1>7. PICK w : w = u \o v
  OBVIOUS
<1>8. /\ w \in Seq(Items) /\ Len(w) = n - 1
      /\ \A x \in 1 .. n - 1 : w[x] = IF x <= k - 1 THEN u[x] ELSE v[x - (k - 1)]
  <2>1. /\ w \in Seq(Items) /\ Len(w) = Len(u) + Len(v)
        /\ \A x \in 1 .. Len(u) + Len(v) : w[x] = IF x <= Len(u) THEN u[x] ELSE v[x - Len(u)]
    BY <1>5, <1>6, <1>7, ConcatProperties
  <2>2. Len(u) + Len(v) = n - 1
    BY <1>1, <1>5, <1>6
  <2>3. QED
    BY <1>5, <2>1, <2>2
<1>9. \A x \in 1 .. n - 1 : w[x] = IF x < k THEN c[x] ELSE c[x + 1]
  <2> TAKE x \in 1 .. n - 1
  <2>1. CASE x < k
    <3>1. x \in 1 .. k - 1 /\ x <= k - 1
      BY <1>1, <2>1
    <3>2. QED
      BY <1>5, <1>8, <2>1, <3>1
  <2>2. CASE ~(x < k)
    <3>1. x - (k - 1) \in 1 .. n - k /\ x - (k - 1) + k = x + 1
      BY <1>1, <2>2
    <3>2. QED
      BY <1>1, <1>6, <1>8, <2>2, <3>1
  <2>3. QED
    BY <2>1, <2>2
<1>10. w = [x \in 1 .. n - 1 |-> IF x < k THEN c[x] ELSE c[x + 1]]
  BY <1>8, <1>9, LenProperties, SeqDef
<1>11. QED
  BY <1>1, <1>3, <1>4, <1>7, <1>10 DEF Queue!RemoveAt, Without

\* Who stays keeps his place before others.
LEMMA AheadStays ==
  ASSUME NEW c \in Seq(Items), NEW k \in 1 .. Len(c), NEW p, NEW m, NEW n, m # c[k], n # c[k],
         Ahead(c, p, m, n), NEW d, Misses(Items, c, k, d)
  PROVE  Ahead(d, p, m, n)
<1>1. PICK l \in Nat : l = Len(c)
  BY LenProperties
<1>2. Len(d) = l - 1 /\ \A x \in 1 .. l - 1 : d[x] = IF x < k THEN c[x] ELSE c[x + 1]
  BY <1>1 DEF Misses
<1>3. ASSUME NEW x \in 1 .. l, NEW y \in 1 .. l, x < y, c[x] = m, c[y] = n
      PROVE  \E a, b \in 1 .. Len(d) : a < b /\ d[a] = m /\ d[b] = n
  <2>1. PICK a : a = IF x < k THEN x ELSE x - 1
    OBVIOUS
  <2>2. PICK b : b = IF y < k THEN y ELSE y - 1
    OBVIOUS
  <2>3. x # k /\ y # k
    BY <1>3
  <2>4. a \in 1 .. l - 1 /\ d[a] = m
    BY <1>1, <1>2, <1>3, <2>1, <2>3
  <2>5. b \in 1 .. l - 1 /\ d[b] = n
    BY <1>1, <1>2, <1>3, <2>2, <2>3
  <2>6. a < b
    BY <1>1, <1>3, <2>1, <2>2, <2>3
  <2>7. QED
    BY <1>2, <2>4, <2>5, <2>6
<1>4. QED
  BY <1>1, <1>3 DEF Ahead

\* The item at place k is tied off.
Tied(s, k) ==
  /\ begin' = IF k = 1 THEN next[s[1]] ELSE begin
  /\ \A m \in Items : next'[m] = IF m = s[k] THEN NULL
                                  ELSE IF k > 1 /\ m = s[k - 1] THEN next[s[k]] ELSE next[m]

LEMMA LinkedWithout ==
  ASSUME ItemAssumption, NEW s \in Seq(Items), Distinct(s), Linked(s, begin, next), NEW k \in 1 .. Len(s),
         Tied(s, k), NEW t, Misses(Items, s, k, t)
  PROVE  Linked(t, begin', next')
<1>1. PICK n \in Nat : n = Len(s) /\ n > 0
  BY LenProperties
<1>2. /\ begin = s[1]
      /\ \A x \in 1 .. n : s[x] \in Items /\ next[s[x]] = IF x = n THEN NULL ELSE s[x + 1]
  BY <1>1, ElementOfSeq DEF Linked
<1>3. Len(t) = n - 1 /\ \A x \in 1 .. n - 1 : t[x] = IF x < k THEN s[x] ELSE s[x + 1]
  BY <1>1 DEF Misses
<1>4. \A x, y \in 1 .. n : s[x] = s[y] => x = y
  BY <1>1 DEF Distinct
<1>5. begin' = IF Len(t) = 0 THEN NULL ELSE t[1]
  <2>1. CASE k = 1
    BY <1>1, <1>2, <1>3, <2>1 DEF Tied
  <2>2. CASE k > 1
    BY <1>1, <1>2, <1>3, <2>2 DEF Tied
  <2>3. QED
    BY <1>1, <2>1, <2>2
<1>6. ASSUME NEW x \in 1 .. n - 1
      PROVE  next'[t[x]] = IF x = n - 1 THEN NULL ELSE t[x + 1]
  <2>1. CASE x < k - 1
    <3>1. /\ x \in 1 .. n /\ x + 1 \in 1 .. n - 1 /\ k \in 1 .. n /\ k - 1 \in 1 .. n
          /\ t[x] = s[x] /\ t[x + 1] = s[x + 1] /\ x # n /\ x # n - 1
      BY <1>1, <1>3, <2>1
    <3>2. s[x] # s[k] /\ s[x] # s[k - 1] /\ s[x] \in Items /\ next[s[x]] = s[x + 1]
      BY <1>2, <1>4, <2>1, <3>1
    <3>3. next'[s[x]] = next[s[x]]
      BY <3>2 DEF Tied
    <3>4. QED
      BY <3>1, <3>2, <3>3
  <2>2. CASE x = k - 1
    <3>1. x \in 1 .. n /\ k \in 1 .. n /\ t[x] = s[k - 1] /\ (x # n - 1 => t[x + 1] = s[k + 1]) /\ k > 1
      BY <1>1, <1>3, <2>2
    <3>2. s[k - 1] # s[k] /\ s[k - 1] \in Items /\ next[s[k]] = IF k = n THEN NULL ELSE s[k + 1]
      BY <1>2, <1>4, <2>2, <3>1
    <3>3. next'[s[k - 1]] = next[s[k]]
      BY <3>1, <3>2 DEF Tied
    <3>4. QED
      BY <1>1, <2>2, <3>1, <3>2, <3>3
  <2>3. CASE x >= k
    <3>1. /\ x + 1 \in 1 .. n /\ k \in 1 .. n /\ t[x] = s[x + 1] /\ (k > 1 => k - 1 \in 1 .. n)
          /\ (x # n - 1 => t[x + 1] = s[x + 2])
      <4>1. x # n - 1 => x + 1 \in 1 .. n - 1 /\ ~(x + 1 < k) /\ (x + 1) + 1 = x + 2
        BY <1>1, <2>3
      <4>2. QED
        BY <1>1, <1>3, <2>3, <4>1
    <3>2. /\ s[x + 1] # s[k] /\ (k > 1 => s[x + 1] # s[k - 1]) /\ s[x + 1] \in Items
          /\ next[s[x + 1]] = IF x + 1 = n THEN NULL ELSE s[x + 2]
      BY <1>1, <1>2, <1>4, <2>3, <3>1
    <3>3. next'[s[x + 1]] = next[s[x + 1]]
      BY <3>2 DEF Tied
    <3>4. QED
      BY <1>1, <3>1, <3>2, <3>3
  <2>4. QED
    BY <1>1, <2>1, <2>2, <2>3
<1>7. QED
  BY <1>3, <1>5, <1>6 DEF Linked

\* A pop at the first place whose item suits takes the first of the items that suit.
LEMMA PopDoes ==
  ASSUME ItemAssumption, QInv, NEW f, NEW asked, NEW k, Queue!Pop(f, asked, k), NEW s, Line(s),
         \/ k = 0 /\ \A x \in 1 .. Len(s) : ~Queue!Suits(s[x], last')
         \/ /\ k \in 1 .. Len(s) /\ Queue!Suits(s[k], last')
            /\ \A x \in 1 .. k - 1 : ~Queue!Suits(s[x], last')
  PROVE  QInv' /\ Queue!PopTakesFirst
<1>1. /\ s \in Seq(Items) /\ Len(s) \in Nat /\ DOMAIN s = 1 .. Len(s)
      /\ \A x \in 1 .. Len(s) : s[x] \in Items /\ s[x] # NULL /\ priority[s[x]] \in Nat
      /\ List!Range(s) = {s[x] : x \in 1 .. Len(s)}
  BY LineFacts
<1>2. Distinct(s) /\ Linked(s, begin, next) /\ List!Range(s) = List!Range(came)
  BY DEF Line
<1>3. queue = "up" /\ queue' = queue /\ priority' = priority
  BY DEF Queue!Pop
<1>4. came \in Seq(Items) /\ Distinct(came)
  BY <1>3 DEF QInv
<1>5. Queue!Range(came) = {s[x] : x \in 1 .. Len(s)}
  BY <1>1, <1>2 DEF Queue!Range, List!Range
<1>6. CASE k = 0
  <2>1. UNCHANGED <<begin, next, came>> /\ last'.ret = 0
    BY <1>6 DEF Queue!Pop, Queue!Call
  <2>2. {m \in Queue!Range(came) : Queue!Suits(m, last')} = {}
    BY <1>5, <1>6
  <2>3. QInv'
    BY <1>3, <2>1 DEF QInv, Line
  <2>4. QED
    BY <2>1, <2>2, <2>3 DEF Queue!PopTakesFirst
<1>7. CASE k # 0
  <2>1. /\ k \in 1 .. Len(s) /\ Queue!Suits(s[k], last')
        /\ \A x \in 1 .. k - 1 : ~Queue!Suits(s[x], last')
    BY <1>7
  <2>2. Queue!Chain = s
    BY QueueChain
  <2>3. /\ begin' = IF k = 1 THEN next[s[k]] ELSE begin
        /\ next' = IF k = 1 THEN [next EXCEPT ![s[k]] = NULL]
                   ELSE [next EXCEPT ![s[k - 1]] = next[s[k]], ![s[k]] = NULL]
        /\ result' = [value |-> s[k], priority |-> priority[s[k]]]
        /\ came' = Queue!RemoveAt(came, Queue!Arrival(s[k])) /\ last'.ret = 1
    BY <1>1, <1>7, <2>1, <2>2 DEF Queue!Pop, Queue!Unlink, Queue!Call
  <2>4. Tied(s, k)
    <3>1. k > 1 => k - 1 \in 1 .. Len(s)
      BY <1>1, <2>1
    <3>2. s[k] \in Items /\ (k > 1 => s[k - 1] \in Items /\ s[k - 1] # s[k])
      BY <1>1, <1>2, <2>1, <3>1 DEF Distinct
    <3>3. next \in [Items -> Items \cup {NULL}]
      BY DEF QInv
    <3>4. QED
      BY <1>1, <2>1, <2>3, <3>1, <3>2, <3>3 DEF Tied
  <2>5. PICK a \in 1 .. Len(came) : came[a] = s[k]
    <3>1. s[k] \in List!Range(came)
      BY <1>1, <1>2, <2>1
    <3>2. DOMAIN came = 1 .. Len(came)
      BY <1>4, LenProperties
    <3>3. QED
      BY <3>1, <3>2 DEF List!Range
  <2>6. came' = Without(came, a)
    BY <1>4, <2>3, <2>5, ArrivalIs, RemovedAt
  <2>7. PICK t : t = Without(s, k)
    OBVIOUS
  <2>8. Misses(Items, s, k, t) /\ Misses(Items, came, a, came')
    BY <1>1, <1>2, <1>4, <2>1, <2>5, <2>6, <2>7, WithoutIs
  <2>9. QInv'
    <3>1. came' \in Seq(Items) /\ Distinct(came') /\ t \in Seq(Items) /\ Distinct(t)
      BY <2>8 DEF Misses
    <3>2. List!Range(t) = List!Range(came')
      BY <1>2, <2>5, <2>8 DEF Misses
    <3>3. Linked(t, begin', next')
      BY <1>1, <1>2, <2>1, <2>4, <2>8, LinkedWithout
    <3>4. next' \in [Items -> Items \cup {NULL}]
      <4>1. next \in [Items -> Items \cup {NULL}] /\ next[s[k]] \in Items \cup {NULL}
        BY <1>1, <2>1 DEF QInv
      <4>2. QED
        BY <2>3, <4>1
    <3>5. ASSUME NEW x \in 1 .. Len(t), NEW y \in 1 .. Len(t), x < y
          PROVE  Ahead(came', priority', t[x], t[y])
      <4>1. PICK u : u = IF x < k THEN x ELSE x + 1
        OBVIOUS
      <4>2. PICK v : v = IF y < k THEN y ELSE y + 1
        OBVIOUS
      <4>3. x \in 1 .. Len(s) - 1 /\ y \in 1 .. Len(s) - 1 /\ t[x] = s[u] /\ t[y] = s[v]
        BY <2>8, <3>5, <4>1, <4>2 DEF Misses
      <4>4. u \in 1 .. Len(s) /\ v \in 1 .. Len(s) /\ u < v /\ u # k /\ v # k
        <5>1. Len(s) \in Nat /\ k \in 1 .. Len(s) /\ x < y
          BY <1>1, <2>1, <3>5, LenProperties
        <5>2. u \in 1 .. Len(s) /\ u # k
          BY <4>1, <4>3, <5>1
        <5>3. v \in 1 .. Len(s) /\ v # k
          BY <4>2, <4>3, <5>1
        <5>4. u < v
          BY <4>1, <4>2, <4>3, <5>1
        <5>5. QED
          BY <5>2, <5>3, <5>4
      <4>5. s[u] # came[a] /\ s[v] # came[a]
        BY <1>2, <2>1, <2>5, <4>4 DEF Distinct
      <4>6. Ahead(came, priority, s[u], s[v])
        BY <4>4 DEF Line
      <4>7. QED
        BY <1>3, <1>4, <2>8, <4>3, <4>5, <4>6, AheadStays
    <3>6. Line(t)'
      BY <3>1, <3>2, <3>3, <3>5 DEF Line
    <3>7. QED
      BY <1>3, <3>1, <3>4, <3>6 DEF QInv
  <2>10. ASSUME NEW j \in {m \in Queue!Range(came) : Queue!Suits(m, last')} \ {s[k]}
         PROVE  Queue!Before(s[k], j)
    <3>1. PICK x \in 1 .. Len(s) : j = s[x]
      BY <1>5
    <3>2. x # k /\ ~(x < k)
      BY <1>1, <2>1, <2>10, <3>1
    <3>3. k < x
      BY <1>1, <2>1, <3>1, <3>2
    <3>4. Ahead(came, priority, s[k], s[x])
      BY <2>1, <3>3 DEF Line
    <3>5. s[k] \in List!Range(came) /\ s[x] \in List!Range(came)
      BY <1>1, <1>2, <2>1
    <3>6. QED
      BY <1>4, <3>1, <3>4, <3>5, BeforeIs
  <2>11. s[k] \in {m \in Queue!Range(came) : Queue!Suits(m, last')}
    BY <1>5, <2>1
  <2>12. QED
    BY <2>3, <2>9, <2>10, <2>11 DEF Queue!PopTakesFirst
<1>8. QED
  BY <1>6, <1>7

LEMMA PopStep ==
  ASSUME ItemAssumption, QInv, QPopFirst \/ QPopWith \/ QPopNotLower
  PROVE  QInv' /\ Queue!PopTakesFirst
<1>0. queue = "up"
  BY DEF QPopFirst, QPopWith, QPopNotLower, Queue!PopFirstItem, Queue!PopItemWithPriority,
         Queue!PopItemWithPriorityNotLower, Queue!Pop
<1>1. PICK s : Line(s)
  BY <1>0 DEF QInv
<1>2. /\ Len(s) \in Nat /\ \A x \in 1 .. Len(s) : priority[s[x]] \in Nat
      /\ (begin = NULL <=> Len(s) = 0) /\ (Len(s) # 0 => begin = s[1])
  BY <1>1, LineFacts
<1>3. \A x, y \in 1 .. Len(s) : x < y => priority[s[x]] <= priority[s[y]]
  BY <1>1, <1>2 DEF Line, Ahead
<1>4. Queue!Chain = s
  BY <1>1, QueueChain
<1>5. CASE QPopFirst
  <2>1. PICK k : k = IF begin = NULL THEN 0 ELSE 1
    OBVIOUS
  <2>2. Queue!Pop("popFirst", 0, k)
    BY <1>5, <2>1 DEF QPopFirst, Queue!PopFirstItem
  <2>3. last'.fun = "popFirst"
    BY <2>2 DEF Queue!Pop, Queue!Call
  <2>4. \A m : Queue!Suits(m, last')
    BY <2>3 DEF Queue!Suits
  <2>5. (Len(s) = 0 => k = 0) /\ (Len(s) # 0 => k = 1 /\ k \in 1 .. Len(s))
    BY <1>2, <2>1
  <2>6. QED
    BY <1>1, <2>2, <2>4, <2>5, PopDoes
<1>6. ASSUME NEW p \in 0 .. MaxPriority, Queue!PopItemWithPriority(p)
      PROVE  QInv' /\ Queue!PopTakesFirst
  <2>1. PICK I : I = {x \in 1 .. Len(s) : priority[s[x]] = p}
    OBVIOUS
  <2>2. PICK k : k = IF I # {} THEN Queue!Min(I) ELSE 0
    OBVIOUS
  <2>3. Queue!Pop("popWith", p, k)
    BY <1>4, <1>6, <2>1, <2>2 DEF Queue!PopItemWithPriority, Queue!SelectInSeq
  <2>4. last'.fun = "popWith" /\ last'.asked = p
    BY <2>3 DEF Queue!Pop, Queue!Call
  <2>5. \A x \in 1 .. Len(s) : Queue!Suits(s[x], last') <=> x \in I
    BY <2>1, <2>4 DEF Queue!Suits
  <2>6. (I = {} => k = 0) /\ (I # {} => k \in I /\ \A x \in I : k <= x)
    <3>1. I \subseteq Nat
      BY <1>2, <2>1
    <3>2. QED
      BY <2>2, <3>1, MinIsLeast
  <2>7. k \in I => k \in 1 .. Len(s) /\ \A x \in 1 .. k - 1 : x \in 1 .. Len(s) /\ ~(k <= x)
    BY <1>2, <2>1
  <2>8. QED
    BY <1>1, <2>3, <2>5, <2>6, <2>7, PopDoes
<1>7. ASSUME NEW p \in 0 .. MaxPriority, Queue!PopItemWithPriorityNotLower(p)
      PROVE  QInv' /\ Queue!PopTakesFirst
  <2>1. PICK k : k = IF begin = NULL \/ priority[begin] > p THEN 0 ELSE 1
    OBVIOUS
  <2>2. Queue!Pop("popNotLower", p, k)
    BY <1>7, <2>1 DEF Queue!PopItemWithPriorityNotLower
  <2>3. last'.fun = "popNotLower" /\ last'.asked = p
    BY <2>2 DEF Queue!Pop, Queue!Call
  <2>4. \A m : Queue!Suits(m, last') <=> priority[m] <= p
    BY <2>3 DEF Queue!Suits
  <2>5. CASE Len(s) = 0
    BY <1>1, <1>2, <2>1, <2>2, <2>5, PopDoes
  <2>6. CASE Len(s) # 0
    <3>1. 1 \in 1 .. Len(s) /\ begin = s[1] /\ begin # NULL /\ priority[s[1]] \in Nat
      BY <1>2, <2>6
    <3>2. \A x \in 1 .. Len(s) : priority[s[1]] <= priority[s[x]]
      BY <1>2, <1>3, <3>1
    <3>3. CASE priority[s[1]] > p
      <4>1. k = 0 /\ \A x \in 1 .. Len(s) : ~(priority[s[x]] <= p)
        BY <1>2, <2>1, <3>1, <3>2, <3>3 DEF ItemAssumption
      <4>2. QED
        BY <1>1, <2>2, <2>4, <4>1, PopDoes
    <3>4. CASE priority[s[1]] <= p
      <4>1. k = 1
        BY <2>1, <3>1, <3>4 DEF ItemAssumption
      <4>2. QED
        BY <1>1, <2>2, <2>4, <3>1, <3>4, <4>1, PopDoes
    <3>5. QED
      BY <3>1, <3>3, <3>4 DEF ItemAssumption
  <2>7. QED
    BY <2>5, <2>6
<1>8. QED
  BY <1>5, <1>6, <1>7 DEF QPopWith, QPopNotLower

-----------------------------------------------------------------------------
(* Items come.                                                             *)

\* The item new is tied in before place k.
TiedBefore(s, k, new) ==
  /\ begin' = IF k = 1 THEN new ELSE begin
  /\ \A m \in Items : next'[m] = IF m = new THEN IF k = Len(s) + 1 THEN NULL ELSE s[k]
                                  ELSE IF k > 1 /\ m = s[k - 1] THEN new ELSE next[m]

LEMMA LinkedWith ==
  ASSUME ItemAssumption, NEW s \in Seq(Items), Distinct(s), Linked(s, begin, next),
         NEW k \in 1 .. Len(s) + 1, NEW new \in Items \ List!Range(s),
         TiedBefore(s, k, new), NEW t, Holds(Items, s, k, new, t)
  PROVE  Linked(t, begin', next')
<1>1. PICK n \in Nat : n = Len(s)
  BY LenProperties
<1>2. /\ n # 0 => begin = s[1]
      /\ \A x \in 1 .. n : s[x] \in Items /\ next[s[x]] = IF x = n THEN NULL ELSE s[x + 1]
  BY <1>1, ElementOfSeq DEF Linked
<1>3. /\ Len(t) = n + 1
      /\ \A x \in 1 .. n + 1 : t[x] = IF x < k THEN s[x] ELSE IF x = k THEN new ELSE s[x - 1]
  BY <1>1 DEF Holds
<1>4. /\ \A x, y \in 1 .. n : s[x] = s[y] => x = y
      /\ \A x \in 1 .. n : s[x] # new
  BY <1>1, LenProperties DEF Distinct, List!Range
<1>5. begin' = IF Len(t) = 0 THEN NULL ELSE t[1]
  BY <1>1, <1>2, <1>3 DEF TiedBefore
<1>6. ASSUME NEW x \in 1 .. n + 1
      PROVE  next'[t[x]] = IF x = n + 1 THEN NULL ELSE t[x + 1]
  <2>1. CASE x < k - 1
    <3>1. /\ x \in 1 .. n /\ x + 1 \in 1 .. n + 1 /\ k - 1 \in 1 .. n /\ x # n /\ x # n + 1
          /\ t[x] = s[x] /\ t[x + 1] = s[x + 1]
      BY <1>1, <1>3, <2>1
    <3>2. s[x] # new /\ s[x] # s[k - 1] /\ s[x] \in Items /\ next[s[x]] = s[x + 1]
      BY <1>2, <1>4, <2>1, <3>1
    <3>3. next'[s[x]] = next[s[x]]
      BY <3>2 DEF TiedBefore
    <3>4. QED
      BY <3>1, <3>2, <3>3
  <2>2. CASE x = k - 1
    <3>1. x \in 1 .. n /\ k > 1 /\ x + 1 \in 1 .. n + 1 /\ t[x] = s[k - 1] /\ t[x + 1] = new /\ x # n + 1
      BY <1>1, <1>3, <2>2
    <3>2. s[k - 1] # new /\ s[k - 1] \in Items
      BY <1>2, <1>4, <2>2, <3>1
    <3>3. QED
      BY <3>1, <3>2 DEF TiedBefore
  <2>3. CASE x = k
    <3>1. t[x] = new /\ (x # n + 1 => t[x + 1] = s[k])
      BY <1>1, <1>3, <2>3
    <3>2. QED
      BY <1>1, <2>3, <3>1 DEF TiedBefore
  <2>4. CASE x > k
    <3>1. /\ x - 1 \in 1 .. n /\ t[x] = s[x - 1] /\ (k > 1 => k - 1 \in 1 .. n)
          /\ (x # n + 1 => t[x + 1] = s[x])
      <4>1. x # n + 1 => x + 1 \in 1 .. n + 1 /\ ~(x + 1 <= k) /\ (x + 1) - 1 = x
        BY <1>1, <2>4
      <4>2. QED
        BY <1>1, <1>3, <2>4, <4>1
    <3>2. /\ s[x - 1] # new /\ (k > 1 => s[x - 1] # s[k - 1]) /\ s[x - 1] \in Items
          /\ next[s[x - 1]] = IF x = n + 1 THEN NULL ELSE s[x]
      <4>1. k > 1 => x - 1 # k - 1
        BY <2>4
      <4>2. (x - 1 = n <=> x = n + 1) /\ (x - 1) + 1 = x
        BY <1>1
      <4>3. QED
        BY <1>2, <1>4, <3>1, <4>1, <4>2
    <3>3. next'[s[x - 1]] = next[s[x - 1]]
      BY <3>2 DEF TiedBefore
    <3>4. QED
      BY <3>1, <3>2, <3>3
  <2>5. QED
    BY <1>1, <2>1, <2>2, <2>3, <2>4
<1>7. QED
  BY <1>3, <1>5, <1>6 DEF Linked

\* Item new comes with priority v.
Joins(c, p, new, v, d, q) == d = Append(c, new) /\ q = [p EXCEPT ![new] = v]

\* Who is there keeps his place, and the new item is behind all that are as important.
LEMMA AheadComes ==
  ASSUME NEW c \in Seq(Items), NEW p \in [Items -> Nat], NEW new \in Items \ List!Range(c), NEW v \in Nat,
         NEW d, NEW q, Joins(c, p, new, v, d, q)
  PROVE  /\ d \in Seq(Items) /\ Len(d) = Len(c) + 1 /\ (Distinct(c) => Distinct(d))
         /\ List!Range(d) = List!Range(c) \cup {new}
         /\ \A m, n \in List!Range(c) : Ahead(c, p, m, n) => Ahead(d, q, m, n)
         /\ \A m \in List!Range(c) : p[m] <= v => Ahead(d, q, m, new)
         /\ \A m \in List!Range(c) : v < p[m] => Ahead(d, q, new, m)
<1>1. PICK l \in Nat : l = Len(c) /\ DOMAIN c = 1 .. l
  BY LenProperties
<1>2. d \in Seq(Items) /\ Len(d) = l + 1 /\ d[l + 1] = new /\ \A x \in 1 .. l : d[x] = c[x]
  BY <1>1, AppendProperties DEF Joins
<1>3. DOMAIN d = 1 .. l + 1
  BY <1>2, LenProperties
<1>4. List!Range(c) = {c[x] : x \in 1 .. l} /\ List!Range(d) = {d[x] : x \in 1 .. l + 1}
  BY <1>1, <1>3 DEF List!Range
<1>5. \A x \in 1 .. l : c[x] \in List!Range(c) /\ c[x] # new /\ c[x] \in Items
  BY <1>1, <1>4, ElementOfSeq
<1>6. q[new] = v /\ \A m \in List!Range(c) : m \in Items /\ q[m] = p[m] /\ p[m] \in Nat
  BY <1>4, <1>5 DEF Joins
<1>7. 1 .. l + 1 = (1 .. l) \cup {l + 1}
  BY <1>1
<1>8. List!Range(d) = List!Range(c) \cup {new}
  BY <1>2, <1>4, <1>7
<1>9. Distinct(c) => Distinct(d)
  <2>1. ASSUME Distinct(c), NEW x \in 1 .. l + 1, NEW y \in 1 .. l + 1, d[x] = d[y]
        PROVE  x = y
    <3>1. CASE x \in 1 .. l /\ y \in 1 .. l
      BY <1>1, <1>2, <2>1, <3>1 DEF Distinct
    <3>2. CASE x = l + 1 \/ y = l + 1
      BY <1>2, <1>5, <1>7, <2>1, <3>2
    <3>3. QED
      BY <1>7, <3>1, <3>2
  <2>2. QED
    BY <1>2, <2>1 DEF Distinct
<1>10. ASSUME NEW m \in List!Range(c), NEW n \in List!Range(c), Ahead(c, p, m, n)
       PROVE  Ahead(d, q, m, n)
  <2>1. ASSUME NEW x \in 1 .. l, NEW y \in 1 .. l, x < y, c[x] = m, c[y] = n
        PROVE  \E a, b \in 1 .. Len(d) : a < b /\ d[a] = m /\ d[b] = n
    <3>1. x \in 1 .. Len(d) /\ y \in 1 .. Len(d) /\ d[x] = m /\ d[y] = n
      BY <1>2, <2>1
    <3>2. QED
      BY <2>1, <3>1
  <2>2. QED
    BY <1>1, <1>6, <1>10, <2>1 DEF Ahead
<1>11. ASSUME NEW m \in List!Range(c), p[m] <= v
       PROVE  Ahead(d, q, m, new)
  <2>1. PICK x \in 1 .. l : c[x] = m
    BY <1>4
  <2>2. x \in 1 .. Len(d) /\ l + 1 \in 1 .. Len(d) /\ x < l + 1 /\ d[x] = m /\ d[l + 1] = new
    BY <1>1, <1>2, <2>1
  <2>3. \E a, b \in 1 .. Len(d) : a < b /\ d[a] = m /\ d[b] = new
    BY <2>2
  <2>4. q[m] < q[new] \/ q[m] = q[new]
    BY <1>6, <1>11
  <2>5. QED
    BY <2>3, <2>4 DEF Ahead
<1>12. \A m \in List!Range(c) : v < p[m] => Ahead(d, q, new, m)
  BY <1>6 DEF Ahead
<1>13. QED
  BY <1>1, <1>2, <1>8, <1>9, <1>10, <1>11, <1>12

LEMMA InsertStep ==
  ASSUME ItemAssumption, QInv, NEW p, Queue!InsertItem(p)
  PROVE  QInv'
<1>0. queue = "up" /\ queue' = queue
  BY DEF Queue!InsertItem, Queue!InsertRefused, Queue!InsertAccepted
<1>1. CASE Queue!InsertRefused(p)
  BY <1>0, <1>1 DEF Queue!InsertRefused, QInv, Line
<1>2. CASE Queue!InsertAccepted(p)
  <2>1. PICK s : Line(s)
    BY <1>0 DEF QInv
  <2>2. PICK n \in Nat : n = Len(s)
    BY <2>1, LineFacts
  <2>3. /\ s \in Seq(Items) /\ DOMAIN s = 1 .. n /\ List!Range(s) = {s[x] : x \in 1 .. n}
        /\ \A x \in 1 .. n : s[x] \in Items /\ priority[s[x]] \in Nat
    BY <2>1, <2>2, LineFacts
  <2>4. Distinct(s) /\ Linked(s, begin, next) /\ List!Range(s) = List!Range(came)
    BY <2>1 DEF Line
  <2>5. \A x, y \in 1 .. n : x < y => priority[s[x]] <= priority[s[y]]
    BY <2>1, <2>2, <2>3 DEF Line, Ahead
  <2>6. came \in Seq(Items) /\ Distinct(came) /\ next \in [Items -> Items \cup {NULL}]
        /\ priority \in [Items -> Nat]
    BY <1>0 DEF QInv
  <2>7. PICK I : I = {x \in 1 .. n : p < priority[s[x]]}
    OBVIOUS
  <2>8. PICK f : f = IF I # {} THEN Queue!Min(I) ELSE 0
    OBVIOUS
  <2>9. Queue!Chain = s /\ Queue!FirstBehind(p) = f
    <3>1. Queue!Chain = s
      BY <2>1, QueueChain
    <3>2. QED
      BY <2>2, <2>7, <2>8, <3>1 DEF Queue!FirstBehind, Queue!SelectInSeq
  <2>10. PICK k : k = IF f = 0 THEN n + 1 ELSE f
    OBVIOUS
  <2>11. (f = 0 => I = {}) /\ (f # 0 => f \in I /\ \A x \in I : f <= x)
    <3>1. I \subseteq Nat \ {0}
      BY <2>2, <2>7
    <3>2. QED
      BY <2>8, <3>1, MinIsLeast
  <2>12. k \in 1 .. n + 1 /\ p \in Nat
    BY <1>2, <2>2, <2>7, <2>10, <2>11 DEF Queue!InsertAccepted, Queue!Priorities, ItemAssumption
  <2>13. \A x \in 1 .. n : x < k => priority[s[x]] <= p
    BY <2>3, <2>7, <2>10, <2>11, <2>12
  <2>14. \A x \in 1 .. n : x >= k => p < priority[s[x]]
    BY <2>2, <2>3, <2>5, <2>7, <2>10, <2>11, <2>12
  <2>15. PICK new \in Items \ Queue!Allocated :
           /\ priority' = [priority EXCEPT ![new] = p] /\ came' = Append(came, new)
           /\ LET before == IF f = 0 THEN n ELSE f - 1
                  iter == IF f = 0 THEN NULL ELSE s[f]
              IN  \/ before = 0 /\ begin' = new /\ next' = [next EXCEPT ![new] = iter]
                  \/ before # 0 /\ next' = [next EXCEPT ![new] = iter, ![s[before]] = new] /\ begin' = begin
    BY <1>2, <2>2, <2>9 DEF Queue!InsertAccepted
  <2>16. new \in Items \ List!Range(came)
    BY <2>15 DEF Queue!Allocated, Queue!Range, List!Range
  <2>17. \A x \in 1 .. n : s[x] # new
    BY <2>3, <2>4, <2>16
  <2>18. PICK iter : iter = IF k = n + 1 THEN NULL ELSE s[k]
    OBVIOUS
  <2>19. \/ k = 1 /\ begin' = new /\ next' = [next EXCEPT ![new] = iter]
         \/ k > 1 /\ next' = [next EXCEPT ![new] = iter, ![s[k - 1]] = new] /\ begin' = begin
    BY <2>2, <2>7, <2>10, <2>11, <2>12, <2>15, <2>18
  <2>20. TiedBefore(s, k, new)
    <3>1. k > 1 => k - 1 \in 1 .. n
      BY <2>2, <2>12
    <3>2. k > 1 => s[k - 1] \in Items /\ s[k - 1] # new
      BY <2>3, <2>17, <3>1
    <3>3. QED
      BY <2>2, <2>6, <2>12, <2>16, <2>18, <2>19, <3>2 DEF TiedBefore
  <2>21. PICK t : t = With(s, k, new)
    OBVIOUS
  <2>22. Holds(Items, s, k, new, t)
    BY <2>2, <2>3, <2>4, <2>12, <2>16, <2>21, WithIs
  <2>23. /\ came' \in Seq(Items) /\ Distinct(came') /\ List!Range(came') = List!Range(came) \cup {new}
         /\ \A m, j \in List!Range(came) : Ahead(came, priority, m, j) => Ahead(came', priority', m, j)
         /\ \A m \in List!Range(came) : priority[m] <= p => Ahead(came', priority', m, new)
         /\ \A m \in List!Range(came) : p < priority[m] => Ahead(came', priority', new, m)
    <3>1. Joins(came, priority, new, p, came', priority')
      BY <2>15 DEF Joins
    <3>2. QED
      BY <2>6, <2>12, <2>16, <3>1, AheadComes
  <2>24. ASSUME NEW x \in 1 .. Len(t), NEW y \in 1 .. Len(t), x < y
         PROVE  Ahead(came', priority', t[x], t[y])
    <3>1. /\ x \in 1 .. n + 1 /\ y \in 1 .. n + 1
          /\ t[x] = IF x < k THEN s[x] ELSE IF x = k THEN new ELSE s[x - 1]
          /\ t[y] = IF y < k THEN s[y] ELSE IF y = k THEN new ELSE s[y - 1]
      BY <2>2, <2>22 DEF Holds
    <3>2. \A u \in 1 .. n : s[u] \in List!Range(came)
      BY <2>3, <2>4
    <3>3. \A u, v \in 1 .. n : u < v => Ahead(came', priority', s[u], s[v])
      BY <2>1, <2>2, <2>23, <3>2 DEF Line
    <3>4. CASE x # k /\ y # k
      <4>1. PICK u : u = IF x < k THEN x ELSE x - 1
        OBVIOUS
      <4>2. PICK v : v = IF y < k THEN y ELSE y - 1
        OBVIOUS
      <4>3. t[x] = s[u] /\ t[y] = s[v]
        BY <3>1, <3>4, <4>1, <4>2
      <4>4. u \in 1 .. n /\ v \in 1 .. n /\ u < v
        BY <2>2, <2>12, <2>24, <3>1, <3>4, <4>1, <4>2
      <4>5. QED
        BY <3>3, <4>3, <4>4
    <3>5. CASE y = k
      <4>1. x \in 1 .. n /\ x < k /\ t[x] = s[x] /\ t[y] = new
        BY <2>2, <2>12, <2>24, <3>1, <3>5
      <4>2. QED
        BY <2>13, <2>23, <3>2, <4>1
    <3>6. CASE x = k
      <4>1. y - 1 \in 1 .. n /\ y - 1 >= k /\ t[y] = s[y - 1] /\ t[x] = new
        BY <2>2, <2>12, <2>24, <3>1, <3>6
      <4>2. QED
        BY <2>14, <2>23, <3>2, <4>1
    <3>7. QED
      BY <3>4, <3>5, <3>6
  <2>25. Linked(t, begin', next')
    BY <2>2, <2>3, <2>4, <2>12, <2>16, <2>20, <2>22, LinkedWith
  <2>26. t \in Seq(Items) /\ Distinct(t) /\ List!Range(t) = List!Range(came')
    BY <2>4, <2>22, <2>23 DEF Holds
  <2>27. Line(t)'
    BY <2>24, <2>25, <2>26 DEF Line
  <2>28. next' \in [Items -> Items \cup {NULL}] /\ priority' \in [Items -> Nat]
    <3>1. iter \in Items \cup {NULL}
      BY <2>2, <2>3, <2>12, <2>18
    <3>2. QED
      BY <2>6, <2>12, <2>15, <2>19, <3>1
  <2>29. QED
    BY <1>0, <2>23, <2>27, <2>28 DEF QInv
<1>3. QED
  BY <1>1, <1>2 DEF Queue!InsertItem

LEMMA QueueStep ==
  ASSUME ItemAssumption, QInv,
         QInit \/ QInsert \/ QPopFirst \/ QPopWith \/ QPopNotLower \/ QUseWild \/ QExit
  PROVE  QInv' /\ [Queue!PopTakesFirst]_(Queue!vars)
<1>1. CASE QPopFirst \/ QPopWith \/ QPopNotLower
  BY <1>1, PopStep
<1>2. CASE QInsert
  <2>1. PICK p : Queue!InsertItem(p)
    BY <1>2 DEF QInsert
  <2>2. last'.fun = "insert"
    BY <2>1 DEF Queue!InsertItem, Queue!InsertRefused, Queue!InsertAccepted, Queue!Call
  <2>3. QED
    BY <2>1, <2>2, InsertStep DEF Queue!PopTakesFirst
<1>3. CASE QInit
  <2>1. /\ queue' = "up" /\ begin' = NULL /\ came' = <<>> /\ last'.fun = "init"
        /\ UNCHANGED <<next, priority>>
    BY <1>3 DEF QInit, Queue!InitQueue, Queue!Call
  <2>2. Line(<<>>)' /\ <<>> \in Seq(Items) /\ Distinct(<<>>)
    BY <2>1 DEF Line, Distinct, Linked, List!Range
  <2>3. QED
    BY <2>1, <2>2 DEF QInv, Queue!PopTakesFirst
<1>4. CASE QUseWild \/ QExit
  <2>1. queue' # "up" /\ UNCHANGED <<next, priority>>
    BY <1>4 DEF QUseWild, QExit, Queue!UseWild, Queue!Exit
  <2>2. last'.fun = "clear" \/ UNCHANGED <<last, came>>
    BY <1>4 DEF QUseWild, QExit, Queue!UseWild, Queue!Exit, Queue!Call
  <2>3. QED
    BY <2>1, <2>2 DEF QInv, Queue!PopTakesFirst
<1>5. QED
  BY <1>1, <1>2, <1>3, <1>4

LEMMA QueueBegins ==
  ASSUME Queue!Init
  PROVE  QInv
BY DEF Queue!Init, QInv

-----------------------------------------------------------------------------
(* The doubly linked list.                                                 *)

ListAssumption == NULL \notin Nodes /\ IsFiniteSet(Nodes) /\ Names \subseteq Nat

\* s is what is met from the root on.
ForwardIs(s, l) ==
  /\ s \in Seq(Nodes) /\ Distinct(s)
  /\ l.root = IF Len(s) = 0 THEN NULL ELSE s[1]
  /\ \A x \in 1 .. Len(s) : l.next[s[x]] = IF x = Len(s) THEN NULL ELSE s[x + 1]
BackwardIs(s, l) ==
  \A x \in 1 .. Len(s) : l.prev[s[x]] = IF x = 1 THEN NULL ELSE s[x - 1]

\* The walk along the list meets s, and then NULL.
LEMMA ChainIs ==
  ASSUME ListAssumption, NEW l, NEW s, ForwardIs(s, l)
  PROVE  List!Chain(l) = s
<1> DEFINE C == List!Cardinality(Nodes)
<1>1. PICK n \in Nat : n = Len(s)
  BY LenProperties DEF ForwardIs
<1>2. n \in 0 .. C /\ C \in Nat
  BY <1>1, NoLonger, SameCount DEF ForwardIs, ListAssumption
<1>3. PICK h : h = CHOOSE f : f = [k \in 0 .. C |-> IF k = 0 THEN l.root
                                          ELSE IF f[k - 1] = NULL THEN NULL ELSE l.next[f[k - 1]]]
  OBVIOUS
<1>4. List!Chain(l) = [k \in 1 .. List!Cardinality({j \in 0 .. C : h[j] # NULL}) |-> h[k - 1]]
  BY <1>3 DEF List!Chain, C
<1> HIDE DEF C
<1>5. {k \in 0 .. C : h[k] # NULL} = 0 .. n - 1 /\ [k \in 1 .. n |-> h[k - 1]] = s
  <2>1. h = CHOOSE f : Walk(C, l.root, l.next, f)
    BY <1>3 DEF Walk
  <2>a. Linked(s, l.root, l.next) /\ s \in Seq(Nodes) /\ NULL \notin Nodes
    BY DEF ForwardIs, Linked, ListAssumption
  <2>2. /\ Walk(C, l.root, l.next, Meets(s, C))
        /\ Walk(C, l.root, l.next, h) =>
             {k \in 0 .. C : h[k] # NULL} = 0 .. n - 1 /\ [k \in 1 .. n |-> h[k - 1]] = s
    BY <1>1, <1>2, <2>a, Walked
  <2>3. QED
    BY <2>1, <2>2
<1>6. List!Cardinality(0 .. n - 1) = n
  BY FS_Interval, SameCount
<1>7. QED
  BY <1>4, <1>5, <1>6

-----------------------------------------------------------------------------
(* Looking for a contact.                                                  *)

LEMMA FindIs ==
  ASSUME NEW l, NEW s, List!Chain(l) = s, s \in Seq(Nodes), NEW id, NULL \notin Nodes
  PROVE  \/ List!Find(l, id) = NULL /\ \A k \in 1 .. Len(s) : l.contact[s[k]].id # id
         \/ \E k \in 1 .. Len(s) : List!Find(l, id) = s[k] /\ l.contact[s[k]].id = id
<1>1. PICK I : I = {k \in 1 .. Len(s) : l.contact[s[k]].id = id}
  OBVIOUS
<1>2. PICK k : k = IF I # {} THEN List!Min(I) ELSE 0
  OBVIOUS
<1>3. List!Find(l, id) = IF k = 0 THEN NULL ELSE s[k]
  BY <1>1, <1>2 DEF List!Find, List!SelectInSeq
<1>4. CASE I = {}
  BY <1>1, <1>2, <1>3, <1>4
<1>5. CASE I # {}
  <2>1. I \subseteq Nat
    BY <1>1, LenProperties
  <2>2. k \in I
    BY <1>2, <1>5, <2>1, MinIsLeast
  <2>3. QED
    BY <1>1, <1>3, <2>2, LenProperties
<1>6. QED
  BY <1>4, <1>5

-----------------------------------------------------------------------------
(* Taking a node out of the list, and putting one in.                      *)

Persons == [id : Ids, name : Names, card : Nat \ {0}]
Lists ==
  [root : Nodes \cup {NULL}, next : [Nodes -> Nodes \cup {NULL}],
   prev : [Nodes -> Nodes \cup {NULL}], contact : [Nodes -> Persons \cup {List!NoContact}],
   leaked : SUBSET Nodes]

LinkedAs(s, l) == ForwardIs(s, l) /\ BackwardIs(s, l)

\* The node at place k is tied off, whatever code does it.
TiesOff(l, s, k, u) ==
  /\ u.root = IF k = 1 THEN l.next[s[k]] ELSE l.root
  /\ \A m \in Nodes : u.next[m] = IF m = s[k] THEN NULL
                                   ELSE IF k > 1 /\ m = s[k - 1] THEN l.next[s[k]] ELSE l.next[m]
  /\ \A m \in Nodes : u.prev[m] = IF m = s[k] THEN NULL
                                   ELSE IF m = l.next[s[k]] THEN l.prev[s[k]] ELSE l.prev[m]

LEMMA TiedOff ==
  ASSUME NULL \notin Nodes, NEW l, NEW u, NEW s, LinkedAs(s, l), NEW k \in 1 .. Len(s),
         TiesOff(l, s, k, u)
  PROVE  LinkedAs(Without(s, k), u)
<1> USE DEF TiesOff
<1>0. s \in Seq(Nodes) /\ Distinct(s)
  BY DEF LinkedAs, ForwardIs
<1>1. PICK n \in Nat : n = Len(s) /\ n > 0
  BY <1>0, LenProperties
<1>2. PICK t : t = Without(s, k)
  OBVIOUS
<1>3. /\ t \in Seq(Nodes) /\ Len(t) = n - 1
      /\ \A x, j \in 1 .. n - 1 : t[x] = t[j] => x = j
      /\ \A x \in 1 .. n - 1 : t[x] = IF x < k THEN s[x] ELSE s[x + 1]
  <2>1. Misses(Nodes, s, k, t)
    BY <1>0, <1>2, WithoutIs
  <2>2. QED
    BY <1>1, <2>1 DEF Misses, Distinct
<1>4. /\ \A x \in 1 .. n : s[x] \in Nodes /\ s[x] # NULL
      /\ \A x, j \in 1 .. n : s[x] = s[j] => x = j
      /\ \A x \in 1 .. n : l.next[s[x]] = IF x = n THEN NULL ELSE s[x + 1]
      /\ \A x \in 1 .. n : l.prev[s[x]] = IF x = 1 THEN NULL ELSE s[x - 1]
      /\ l.root = s[1]
  <2>1. \A x \in 1 .. n : s[x] \in Nodes
    BY <1>0, <1>1, ElementOfSeq
  <2>2. QED
    BY <1>0, <1>1, <2>1 DEF LinkedAs, ForwardIs, BackwardIs, Distinct
<1>5. u.root = IF n - 1 = 0 THEN NULL ELSE t[1]
  <2>1. CASE k = 1
    <3>1. u.root = IF n = 1 THEN NULL ELSE s[2]
      BY <1>1, <1>4, <2>1
    <3>2. n # 1 => t[1] = s[2]
      BY <1>1, <1>3, <2>1
    <3>3. QED
      BY <1>1, <3>1, <3>2
  <2>2. CASE k # 1
    <3>1. k > 1 /\ n > 1 /\ 1 \in 1 .. n - 1 /\ 1 < k
      BY <1>1, <2>2
    <3>2. t[1] = s[1] /\ u.root = s[1]
      BY <1>3, <1>4, <2>2, <3>1
    <3>3. QED
      BY <3>1, <3>2
  <2>3. QED
    BY <2>1, <2>2
<1>6. ASSUME NEW x \in 1 .. n - 1
      PROVE  u.next[t[x]] = IF x = n - 1 THEN NULL ELSE t[x + 1]
  <2>1. CASE x < k - 1
    <3>1. t[x] = s[x] /\ x \in 1 .. n /\ x + 1 \in 1 .. n - 1 /\ t[x + 1] = s[x + 1]
      BY <1>1, <1>3, <1>6, <2>1
    <3>2. s[x] # s[k] /\ (k > 1 => s[x] # s[k - 1])
      BY <1>1, <1>4, <1>6, <2>1
    <3>3. u.next[s[x]] = l.next[s[x]]
      BY <1>4, <3>1, <3>2
    <3>4. QED
      BY <1>1, <1>4, <3>1, <3>3
  <2>2. CASE x = k - 1
    <3>1. t[x] = s[x] /\ x \in 1 .. n /\ k > 1 /\ s[x] # s[k]
      BY <1>1, <1>3, <1>4, <1>6, <2>2
    <3>2. u.next[s[x]] = l.next[s[k]]
      BY <1>4, <2>2, <3>1
    <3>3. l.next[s[k]] = IF k = n THEN NULL ELSE s[k + 1]
      BY <1>1, <1>4
    <3>4. k # n => x + 1 \in 1 .. n - 1 /\ t[x + 1] = s[k + 1]
      BY <1>1, <1>3, <1>6, <2>2
    <3>5. QED
      BY <1>1, <2>2, <3>1, <3>2, <3>3, <3>4
  <2>3. CASE x >= k
    <3>1. t[x] = s[x + 1] /\ x + 1 \in 1 .. n
      BY <1>1, <1>3, <1>6, <2>3
    <3>2. s[x + 1] # s[k] /\ (k > 1 => s[x + 1] # s[k - 1])
      BY <1>1, <1>4, <1>6, <2>3
    <3>3. u.next[s[x + 1]] = l.next[s[x + 1]]
      BY <1>4, <3>1, <3>2
    <3>4. l.next[s[x + 1]] = IF x + 1 = n THEN NULL ELSE s[x + 2]
      BY <1>1, <1>4, <3>1
    <3>5. x # n - 1 => x + 1 \in 1 .. n - 1 /\ t[x + 1] = s[x + 2]
      BY <1>1, <1>3, <1>6, <2>3
    <3>6. QED
      BY <1>1, <1>6, <3>1, <3>3, <3>4, <3>5
  <2>4. QED
    BY <1>1, <1>6, <2>1, <2>2, <2>3
<1>7. ASSUME NEW x \in 1 .. n - 1
      PROVE  u.prev[t[x]] = IF x = 1 THEN NULL ELSE t[x - 1]
  <2>0. l.next[s[k]] = IF k = n THEN NULL ELSE s[k + 1]
    BY <1>1, <1>4
  <2>1. CASE x < k
    <3>1. t[x] = s[x] /\ x \in 1 .. n /\ (x > 1 => t[x - 1] = s[x - 1])
      <4>1. t[x] = s[x] /\ x \in 1 .. n
        BY <1>1, <1>3, <1>7, <2>1
      <4>2. x > 1 => x - 1 \in 1 .. n - 1 /\ x - 1 < k
        BY <1>1, <1>7, <2>1
      <4>3. QED
        BY <1>3, <4>1, <4>2
    <3>2. s[x] # s[k] /\ s[x] # l.next[s[k]]
      BY <1>1, <1>4, <1>7, <2>0, <2>1
    <3>3. u.prev[s[x]] = l.prev[s[x]]
      BY <1>4, <3>1, <3>2
    <3>4. QED
      BY <1>1, <1>4, <1>7, <3>1, <3>3
  <2>2. CASE x = k
    <3>1. t[x] = s[k + 1] /\ k + 1 \in 1 .. n /\ s[k + 1] # s[k] /\ s[k + 1] = l.next[s[k]]
      BY <1>1, <1>3, <1>4, <1>7, <2>0, <2>2
    <3>2. u.prev[s[k + 1]] = l.prev[s[k]]
      BY <1>4, <3>1
    <3>3. l.prev[s[k]] = IF k = 1 THEN NULL ELSE s[k - 1]
      BY <1>1, <1>4
    <3>4. k > 1 => t[k - 1] = s[k - 1]
      BY <1>1, <1>3
    <3>5. QED
      BY <1>1, <2>2, <3>1, <3>2, <3>3, <3>4
  <2>3. CASE x > k
    <3>1. t[x] = s[x + 1] /\ x + 1 \in 1 .. n /\ x - 1 \in 1 .. n - 1 /\ t[x - 1] = s[x]
      BY <1>1, <1>3, <1>7, <2>3
    <3>2. s[x + 1] # s[k] /\ s[x + 1] # l.next[s[k]]
      BY <1>1, <1>4, <1>7, <2>0, <2>3
    <3>3. u.prev[s[x + 1]] = l.prev[s[x + 1]]
      BY <1>4, <3>1, <3>2
    <3>4. QED
      BY <1>1, <1>4, <1>7, <3>1, <3>3
  <2>4. QED
    BY <1>1, <1>7, <2>1, <2>2, <2>3
<1>8. QED
  BY <1>1, <1>2, <1>3, <1>5, <1>6, <1>7 DEF LinkedAs, ForwardIs, BackwardIs, Distinct

\* The two ways of taking a node out of the list do that.
LEMMA UnlinkIs ==
  ASSUME ListAssumption, NEW l \in Lists, NEW s, LinkedAs(s, l), NEW k \in 1 .. Len(s)
  PROVE  /\ LinkedAs(Without(s, k), List!Unlink(l, s[k])) /\ LinkedAs(Without(s, k), List!CutOut(l, s[k]))
         /\ \A u \in {List!Unlink(l, s[k]), List!CutOut(l, s[k])} :
              u \in Lists /\ u.contact = l.contact /\ u.leaked = l.leaked
<1>1. PICK n \in Nodes : n = s[k]
  BY ElementOfSeq DEF LinkedAs, ForwardIs
<1>2. l.prev[n] = (IF k = 1 THEN NULL ELSE s[k - 1]) /\ (k > 1 => s[k - 1] \in Nodes)
  BY <1>1, ElementOfSeq, LenProperties DEF LinkedAs, ForwardIs, BackwardIs
<1>3. l.root \in Nodes \cup {NULL} /\ l.next \in [Nodes -> Nodes \cup {NULL}] /\ l.prev \in [Nodes -> Nodes \cup {NULL}]
  BY DEF Lists
<1>4. PICK u : u = List!Unlink(l, s[k])
  OBVIOUS
<1>5. /\ u.root = (IF l.prev[n] = NULL THEN l.next[n] ELSE l.root)
      /\ u.next = [m \in Nodes |-> IF m = n THEN NULL ELSE IF m = l.prev[n] THEN l.next[n] ELSE l.next[m]]
      /\ u.prev = [m \in Nodes |-> IF m = n THEN NULL ELSE IF m = l.next[n] THEN l.prev[n] ELSE l.prev[m]]
      /\ u.contact = l.contact /\ u.leaked = l.leaked
      /\ u = [root |-> u.root, next |-> u.next, prev |-> u.prev, contact |-> u.contact, leaked |-> u.leaked]
  BY <1>1, <1>4 DEF List!Unlink, Lists
<1>6. u \in Lists
  <2>1. u.root \in Nodes \cup {NULL} /\ u.next \in [Nodes -> Nodes \cup {NULL}] /\ u.prev \in [Nodes -> Nodes \cup {NULL}]
    BY <1>1, <1>3, <1>5
  <2>2. l.contact \in [Nodes -> Persons \cup {List!NoContact}] /\ l.leaked \in SUBSET Nodes
    BY DEF Lists
  <2>3. QED
    BY <1>5, <2>1, <2>2 DEF Lists
<1>7. LinkedAs(Without(s, k), u)
  <2>1. u.root = (IF k = 1 THEN l.next[s[k]] ELSE l.root)
    BY <1>1, <1>2, <1>5 DEF ListAssumption
  <2>2. \A m \in Nodes : u.next[m] = IF m = s[k] THEN NULL
                                     ELSE IF k > 1 /\ m = s[k - 1] THEN l.next[s[k]] ELSE l.next[m]
    BY <1>1, <1>2, <1>5 DEF ListAssumption
  <2>3. \A m \in Nodes : u.prev[m] = IF m = s[k] THEN NULL
                                     ELSE IF m = l.next[s[k]] THEN l.prev[s[k]] ELSE l.prev[m]
    BY <1>1, <1>5
  <2>4. TiesOff(l, s, k, u)
    BY <2>1, <2>2, <2>3 DEF TiesOff
  <2>5. QED
    BY <2>4, TiedOff DEF ListAssumption
<1>8. List!Chain(l) = s
  BY ChainIs DEF LinkedAs
<1>0. List!PlaceOf(l, n) = k
  <2>1. PICK I : I = {x \in 1 .. Len(s) : s[x] = n}
    OBVIOUS
  <2>2. I = {k}
    BY <1>1, <2>1 DEF LinkedAs, ForwardIs, Distinct
  <2>3. List!Min(I) \in I
    <3>1. I \subseteq Nat /\ I # {}
      BY <2>2, LenProperties
    <3>2. QED
      BY <3>1, MinIsLeast
  <2>4. QED
    BY <1>8, <2>1, <2>2, <2>3 DEF List!PlaceOf, List!SelectInSeq
<1>9. PICK v : v = List!CutOut(l, s[k])
  OBVIOUS
<1>10. /\ v.root = (IF k = 1 THEN l.next[n] ELSE l.root)
       /\ v.next = [m \in Nodes |-> IF m = n THEN NULL
                                    ELSE IF k > 1 /\ m = s[k - 1] THEN l.next[n] ELSE l.next[m]]
       /\ v.prev = [m \in Nodes |-> IF m = n THEN NULL ELSE IF m # l.next[n] THEN l.prev[m]
                                    ELSE IF k = 1 THEN NULL ELSE l.prev[n]]
       /\ v.contact = l.contact /\ v.leaked = l.leaked
       /\ v = [root |-> v.root, next |-> v.next, prev |-> v.prev, contact |-> v.contact, leaked |-> v.leaked]
  BY <1>0, <1>1, <1>8, <1>9 DEF List!CutOut, Lists
<1>11. v \in Lists
  <2>1. v.root \in Nodes \cup {NULL} /\ v.next \in [Nodes -> Nodes \cup {NULL}] /\ v.prev \in [Nodes -> Nodes \cup {NULL}]
    BY <1>1, <1>3, <1>10
  <2>2. l.contact \in [Nodes -> Persons \cup {List!NoContact}] /\ l.leaked \in SUBSET Nodes
    BY DEF Lists
  <2>3. QED
    BY <1>10, <2>1, <2>2 DEF Lists
<1>12. LinkedAs(Without(s, k), v)
  <2>1. v.root = (IF k = 1 THEN l.next[s[k]] ELSE l.root)
    BY <1>1, <1>10
  <2>2. \A m \in Nodes : v.next[m] = IF m = s[k] THEN NULL
                                     ELSE IF k > 1 /\ m = s[k - 1] THEN l.next[s[k]] ELSE l.next[m]
    BY <1>1, <1>10
  <2>3. \A m \in Nodes : v.prev[m] = IF m = s[k] THEN NULL
                                     ELSE IF m = l.next[s[k]] THEN l.prev[s[k]] ELSE l.prev[m]
    BY <1>1, <1>2, <1>10
  <2>4. TiesOff(l, s, k, v)
    BY <2>1, <2>2, <2>3 DEF TiesOff
  <2>5. QED
    BY <2>4, TiedOff DEF ListAssumption
<1>13. QED
  BY <1>4, <1>5, <1>6, <1>7, <1>9, <1>10, <1>11, <1>12

\* A new node is tied in at place p.
TiesIn(l, s, p, new, u) ==
  /\ u.root = IF p = 1 THEN new ELSE l.root
  /\ \A m \in Nodes : u.next[m] = IF m = new THEN (IF p = Len(s) + 1 THEN NULL ELSE s[p])
                                   ELSE IF p > 1 /\ m = s[p - 1] THEN new ELSE l.next[m]
  /\ \A m \in Nodes : u.prev[m] = IF m = new THEN (IF p = 1 THEN NULL ELSE s[p - 1])
                                   ELSE IF p <= Len(s) /\ m = s[p] THEN new ELSE l.prev[m]

LEMMA TiedIn ==
  ASSUME NULL \notin Nodes, NEW l, NEW u, NEW s, LinkedAs(s, l), NEW p \in 1 .. Len(s) + 1,
         NEW new \in Nodes \ List!Range(s), TiesIn(l, s, p, new, u)
  PROVE  LinkedAs(With(s, p, new), u)
<1> USE DEF TiesIn
<1>0. s \in Seq(Nodes) /\ Distinct(s)
  BY DEF LinkedAs, ForwardIs
<1>1. PICK n \in Nat : n = Len(s) /\ DOMAIN s = 1 .. n
  BY <1>0, LenProperties
<1>2. PICK t : t = With(s, p, new)
  OBVIOUS
<1>3. /\ t \in Seq(Nodes) /\ Len(t) = n + 1 /\ Distinct(t)
      /\ \A x \in 1 .. n + 1 : t[x] = IF x < p THEN s[x] ELSE IF x = p THEN new ELSE s[x - 1]
  <2>1. Holds(Nodes, s, p, new, t)
    BY <1>0, <1>2, WithIs
  <2>2. QED
    BY <1>1, <2>1 DEF Holds
<1>4. /\ \A x \in 1 .. n : s[x] \in Nodes /\ s[x] # NULL /\ s[x] # new
      /\ \A x, j \in 1 .. n : s[x] = s[j] => x = j
      /\ \A x \in 1 .. n : l.next[s[x]] = IF x = n THEN NULL ELSE s[x + 1]
      /\ \A x \in 1 .. n : l.prev[s[x]] = IF x = 1 THEN NULL ELSE s[x - 1]
      /\ l.root = IF n = 0 THEN NULL ELSE s[1]
  <2>1. \A x \in 1 .. n : s[x] \in Nodes
    BY <1>0, <1>1, ElementOfSeq
  <2>2. \A x \in 1 .. n : s[x] # new
    BY <1>1 DEF List!Range
  <2>3. QED
    BY <1>0, <1>1, <2>1, <2>2 DEF LinkedAs, ForwardIs, BackwardIs, Distinct
<1>5. u.root = t[1]
  <2>1. CASE p = 1
    BY <1>1, <1>3, <2>1
  <2>2. CASE p # 1
    <3>1. p > 1 /\ n > 0 /\ 1 \in 1 .. n + 1 /\ 1 < p
      BY <1>1, <2>2
    <3>2. t[1] = s[1] /\ u.root = s[1]
      BY <1>3, <1>4, <2>2, <3>1
    <3>3. QED
      BY <3>2
  <2>3. QED
    BY <2>1, <2>2
<1>6. ASSUME NEW x \in 1 .. n + 1
      PROVE  u.next[t[x]] = IF x = n + 1 THEN NULL ELSE t[x + 1]
  <2>1. CASE x < p - 1
    <3>1. t[x] = s[x] /\ x \in 1 .. n /\ x + 1 \in 1 .. n /\ t[x + 1] = s[x + 1]
      BY <1>1, <1>3, <1>6, <2>1
    <3>2. s[x] # new /\ s[x] # s[p - 1]
      BY <1>1, <1>4, <1>6, <2>1, <3>1
    <3>3. u.next[s[x]] = l.next[s[x]]
      BY <1>4, <3>1, <3>2
    <3>4. QED
      BY <1>1, <1>4, <3>1, <3>3
  <2>2. CASE x = p - 1
    <3>1. t[x] = s[x] /\ x \in 1 .. n /\ p > 1 /\ s[x] # new
      BY <1>1, <1>3, <1>4, <1>6, <2>2
    <3>2. u.next[s[x]] = new
      BY <1>4, <2>2, <3>1
    <3>3. x + 1 \in 1 .. n + 1 /\ t[x + 1] = new
      BY <1>1, <1>3, <2>2, <3>1
    <3>4. QED
      BY <1>1, <3>1, <3>2, <3>3
  <2>3. CASE x = p
    <3>1. t[x] = new
      BY <1>3, <2>3
    <3>2. u.next[new] = IF p = n + 1 THEN NULL ELSE s[p]
      BY <1>1
    <3>3. p # n + 1 => p + 1 \in 1 .. n + 1 /\ t[p + 1] = s[p]
      BY <1>1, <1>3
    <3>4. QED
      BY <2>3, <3>1, <3>2, <3>3
  <2>4. CASE x > p
    <3>1. t[x] = s[x - 1] /\ x - 1 \in 1 .. n
      BY <1>1, <1>3, <1>6, <2>4
    <3>2. s[x - 1] # new /\ (p > 1 => s[x - 1] # s[p - 1])
      BY <1>1, <1>4, <1>6, <2>4, <3>1
    <3>3. u.next[s[x - 1]] = l.next[s[x - 1]]
      BY <1>4, <3>1, <3>2
    <3>4. l.next[s[x - 1]] = IF x = n + 1 THEN NULL ELSE s[x]
      BY <1>1, <1>4, <3>1
    <3>5. x # n + 1 => x + 1 \in 1 .. n + 1 /\ t[x + 1] = s[x]
      <4>1. x # n + 1 => x + 1 \in 1 .. n + 1 /\ ~(x + 1 < p) /\ x + 1 # p /\ (x + 1) - 1 = x
        BY <1>1, <1>6, <2>4
      <4>2. QED
        BY <1>3, <4>1
    <3>6. QED
      BY <3>1, <3>3, <3>4, <3>5
  <2>5. QED
    BY <1>1, <1>6, <2>1, <2>2, <2>3, <2>4
<1>7. ASSUME NEW x \in 1 .. n + 1
      PROVE  u.prev[t[x]] = IF x = 1 THEN NULL ELSE t[x - 1]
  <2>1. CASE x < p
    <3>1. t[x] = s[x] /\ x \in 1 .. n
      BY <1>1, <1>3, <1>7, <2>1
    <3>2. s[x] # new /\ (p <= n => s[x] # s[p])
      BY <1>1, <1>4, <1>7, <2>1, <3>1
    <3>3. u.prev[s[x]] = l.prev[s[x]]
      BY <1>1, <1>4, <3>1, <3>2
    <3>4. l.prev[s[x]] = IF x = 1 THEN NULL ELSE s[x - 1]
      BY <1>4, <3>1
    <3>5. x > 1 => x - 1 \in 1 .. n + 1 /\ x - 1 < p
      BY <1>1, <2>1, <3>1
    <3>6. x > 1 => t[x - 1] = s[x - 1]
      BY <1>3, <3>5
    <3>7. QED
      BY <1>7, <3>1, <3>3, <3>4, <3>6
  <2>2. CASE x = p
    <3>1. t[x] = new
      BY <1>3, <2>2
    <3>2. u.prev[new] = IF p = 1 THEN NULL ELSE s[p - 1]
      OBVIOUS
    <3>3. p > 1 => p - 1 \in 1 .. n + 1 /\ t[p - 1] = s[p - 1]
      BY <1>1, <1>3
    <3>4. QED
      BY <1>1, <2>2, <3>1, <3>2, <3>3
  <2>3. CASE x = p + 1
    <3>1. t[x] = s[p] /\ p \in 1 .. n /\ t[x - 1] = new
      BY <1>1, <1>3, <1>7, <2>3
    <3>2. u.prev[s[p]] = new
      BY <1>1, <1>4, <3>1
    <3>3. QED
      BY <1>1, <1>7, <2>3, <3>1, <3>2
  <2>4. CASE x > p + 1
    <3>1. t[x] = s[x - 1] /\ x - 1 \in 1 .. n
      BY <1>1, <1>3, <1>7, <2>4
    <3>2. s[x - 1] # new /\ (p <= n => s[x - 1] # s[p])
      BY <1>1, <1>4, <1>7, <2>4, <3>1
    <3>3. u.prev[s[x - 1]] = l.prev[s[x - 1]]
      BY <1>1, <1>4, <3>1, <3>2
    <3>4. l.prev[s[x - 1]] = s[x - 2]
      BY <1>1, <1>4, <2>4, <3>1
    <3>5. x - 1 \in 1 .. n + 1 /\ t[x - 1] = s[x - 2] /\ x # 1
      BY <1>1, <1>3, <1>7, <2>4
    <3>6. QED
      BY <3>1, <3>3, <3>4, <3>5
  <2>5. QED
    BY <1>1, <1>7, <2>1, <2>2, <2>3, <2>4
<1>8. ForwardIs(t, u)
  <2>1. Len(t) # 0
    BY <1>1, <1>3
  <2>2. \A x \in 1 .. Len(t) : u.next[t[x]] = IF x = Len(t) THEN NULL ELSE t[x + 1]
    BY <1>3, <1>6
  <2>3. QED
    BY <1>3, <1>5, <2>1, <2>2 DEF ForwardIs
<1>9. BackwardIs(t, u)
  BY <1>3, <1>7 DEF BackwardIs
<1>10. QED
  BY <1>2, <1>8, <1>9 DEF LinkedAs

-----------------------------------------------------------------------------
(* The book.                                                               *)

Sorted(s, contact) ==
  \A x, j \in 1 .. Len(s) : x < j => contact[s[x]].name <= contact[s[j]].name

\* The list s is linked and sorted, and the nodes on it are those with a contact.
Book(s, l) ==
  /\ l \in Lists /\ LinkedAs(s, l) /\ Sorted(s, l.contact)
  /\ \A n \in Nodes : l.contact[n] # List!NoContact <=> n \in List!Range(s)
  /\ \A n \in l.leaked : l.contact[n] = List!NoContact

LEMMA BookFacts ==
  ASSUME ListAssumption, NEW l, NEW s, Book(s, l)
  PROVE  /\ List!Chain(l) = s /\ s \in Seq(Nodes) /\ Distinct(s) /\ Len(s) \in Nat /\ DOMAIN s = 1 .. Len(s)
         /\ l.contact \in [Nodes -> Persons \cup {List!NoContact}]
         /\ \A x \in 1 .. Len(s) : s[x] \in Nodes /\ s[x] \in List!Range(s) /\ l.contact[s[x]] \in Persons
<1>1. List!Chain(l) = s /\ s \in Seq(Nodes) /\ Distinct(s)
  BY ChainIs DEF Book, LinkedAs, ForwardIs
<1>2. Len(s) \in Nat /\ DOMAIN s = 1 .. Len(s)
  BY <1>1, LenProperties
<1>3. l.contact \in [Nodes -> Persons \cup {List!NoContact}]
  BY DEF Book, Lists
<1>4. ASSUME NEW x \in 1 .. Len(s)
      PROVE  s[x] \in Nodes /\ s[x] \in List!Range(s) /\ l.contact[s[x]] \in Persons
  <2>1. s[x] \in Nodes
    BY <1>1, ElementOfSeq
  <2>2. s[x] \in List!Range(s)
    BY <1>2 DEF List!Range
  <2>3. l.contact[s[x]] # List!NoContact
    BY <2>1, <2>2 DEF Book
  <2>4. QED
    BY <1>3, <2>1, <2>2, <2>3
<1>5. QED
  BY <1>1, <1>2, <1>3, <1>4

LEMMA FirstGreaterIs ==
  ASSUME ListAssumption, NEW l, NEW s, Book(s, l), NEW c, NEW k, k = List!FirstGreater(l, c)
  PROVE  \/ k = 0 /\ \A x \in 1 .. Len(s) : ~(c.name < l.contact[s[x]].name)
         \/ /\ k \in 1 .. Len(s) /\ c.name < l.contact[s[k]].name
            /\ \A x \in 1 .. k - 1 : ~(c.name < l.contact[s[x]].name)
<1>1. List!Chain(l) = s /\ Len(s) \in Nat
  BY BookFacts
<1>2. PICK I : I = {x \in 1 .. Len(s) : c.name < l.contact[s[x]].name}
  OBVIOUS
<1>3. k = IF I # {} THEN List!Min(I) ELSE 0
  BY <1>1, <1>2 DEF List!FirstGreater, List!SelectInSeq
<1>4. CASE I = {}
  BY <1>2, <1>3, <1>4
<1>5. CASE I # {}
  <2>1. I \subseteq Nat
    BY <1>1, <1>2
  <2>2. k \in I /\ \A x \in I : k <= x
    BY <1>3, <1>5, <2>1, MinIsLeast
  <2>3. ASSUME NEW x \in 1 .. k - 1 PROVE x \notin I /\ x \in 1 .. Len(s)
    BY <1>1, <1>2, <2>2
  <2>4. QED
    BY <1>2, <2>2, <2>3
<1>6. QED
  BY <1>4, <1>5

\* addContact puts the new node in its place.
LEMMA AddIs ==
  ASSUME ListAssumption, NEW l, NEW s, Book(s, l), NEW c \in Persons, NEW new \in List!Unused(l)
  PROVE  \E t : /\ Book(t, List!AddContact(l, c, new))
                /\ List!AddContact(l, c, new).contact = [l.contact EXCEPT ![new] = c]
                /\ List!AddContact(l, c, new).leaked = l.leaked
<1>1. PICK n \in Nat : n = Len(s)
  BY BookFacts
<1>2. /\ List!Chain(l) = s /\ s \in Seq(Nodes) /\ Distinct(s) /\ LinkedAs(s, l) /\ l \in Lists
      /\ l.contact \in [Nodes -> Persons \cup {List!NoContact}]
      /\ \A x \in 1 .. n : s[x] \in Nodes /\ l.contact[s[x]] \in Persons
  BY <1>1, BookFacts DEF Book
<1>3. new \in Nodes \ List!Range(s) /\ new \notin l.leaked /\ l.contact[new] = List!NoContact
  BY DEF List!Unused, Book
<1>4. PICK k : k = List!FirstGreater(l, c)
  OBVIOUS
<1>5. PICK p \in 1 .. n + 1 :
        /\ p = IF k = 0 THEN n + 1 ELSE k
        /\ k = 0 \/ k \in 1 .. n
        /\ \A x \in 1 .. n : x < p => ~(c.name < l.contact[s[x]].name)
        /\ p <= n => c.name < l.contact[s[p]].name
  <2>1. CASE k = 0
    <3>0. k \notin 1 .. Len(s)
      BY <1>1, <2>1
    <3>1. \A x \in 1 .. n : ~(c.name < l.contact[s[x]].name)
      <4>1. \/ k = 0 /\ \A x \in 1 .. Len(s) : ~(c.name < l.contact[s[x]].name)
            \/ k \in 1 .. Len(s)
        BY ZenonT(40), <1>4, FirstGreaterIs
      <4>2. QED
        BY <1>1, <3>0, <4>1
    <3>2. n + 1 \in 1 .. n + 1 /\ ~(n + 1 <= n)
      BY <1>1
    <3>3. QED
      BY <2>1, <3>1, <3>2
  <2>2. CASE k # 0
    <3>1. /\ k \in 1 .. n /\ c.name < l.contact[s[k]].name
          /\ \A x \in 1 .. k - 1 : ~(c.name < l.contact[s[x]].name)
      BY <1>1, <1>4, <2>2, FirstGreaterIs
    <3>2. \A x \in 1 .. n : x < k => x \in 1 .. k - 1
      BY <1>1, <3>1
    <3>3. k \in 1 .. n + 1
      BY <1>1, <3>1
    <3>4. QED
      BY <2>2, <3>1, <3>2, <3>3
  <2>3. QED
    BY <2>1, <2>2
<1>6. PICK before : before = IF p = 1 THEN NULL ELSE s[p - 1]
  OBVIOUS
<1>7. PICK after : after = IF p = n + 1 THEN NULL ELSE s[p]
  OBVIOUS
<1>8. l.root = (IF n = 0 THEN NULL ELSE s[1]) /\ NULL \notin Nodes
  BY <1>1, <1>2 DEF LinkedAs, ForwardIs, ListAssumption
<1>9. PICK u : u = List!AddContact(l, c, new)
  OBVIOUS
<1>10. u = [l EXCEPT
             !.root = IF before = NULL THEN new ELSE @,
             !.next = [m \in Nodes |-> IF m = new THEN after ELSE IF m = before THEN new ELSE @[m]],
             !.prev = [m \in Nodes |-> IF m = new THEN before ELSE IF m = after THEN new ELSE @[m]],
             !.contact[new] = c]
  <2>1. after = IF k = 0 THEN NULL ELSE List!Chain(l)[k]
    BY <1>1, <1>2, <1>5, <1>7
  <2>2. before = IF k = 1 \/ l.root = NULL THEN NULL
                 ELSE IF k = 0 THEN List!Last(List!Chain(l)) ELSE List!Chain(l)[k - 1]
    <3>1. CASE n = 0
      BY <1>5, <1>6, <1>8, <3>1
    <3>2. CASE n # 0
      <4>1. l.root # NULL
        BY <1>1, <1>2, <1>8, <3>2
      <4>2. CASE k = 0
        BY <1>1, <1>2, <1>5, <1>6, <3>2, <4>1, <4>2 DEF List!Last
      <4>3. CASE k # 0
        BY <1>2, <1>5, <1>6, <4>1, <4>3
      <4>4. QED
        BY <4>2, <4>3
    <3>3. QED
      BY <3>1, <3>2
  <2>3. QED
    BY <1>4, <1>9, <2>1, <2>2 DEF List!AddContact
<1>11. /\ u.root = (IF before = NULL THEN new ELSE l.root)
       /\ u.next = [m \in Nodes |-> IF m = new THEN after ELSE IF m = before THEN new ELSE l.next[m]]
       /\ u.prev = [m \in Nodes |-> IF m = new THEN before ELSE IF m = after THEN new ELSE l.prev[m]]
       /\ u.contact = [l.contact EXCEPT ![new] = c] /\ u.leaked = l.leaked
       /\ u = [root |-> u.root, next |-> u.next, prev |-> u.prev, contact |-> u.contact, leaked |-> u.leaked]
  BY <1>2, <1>10 DEF Lists
<1>12. before \in Nodes \cup {NULL} /\ after \in Nodes \cup {NULL}
  BY <1>1, <1>2, <1>5, <1>6, <1>7
<1>13. u \in Lists
  <2>1. /\ l.root \in Nodes \cup {NULL} /\ l.next \in [Nodes -> Nodes \cup {NULL}]
        /\ l.prev \in [Nodes -> Nodes \cup {NULL}] /\ l.leaked \in SUBSET Nodes
    BY <1>2 DEF Lists
  <2>2. /\ u.root \in Nodes \cup {NULL} /\ u.next \in [Nodes -> Nodes \cup {NULL}]
        /\ u.prev \in [Nodes -> Nodes \cup {NULL}]
    BY <1>3, <1>11, <1>12, <2>1
  <2>3. u.contact \in [Nodes -> Persons \cup {List!NoContact}]
    BY <1>2, <1>11
  <2>4. QED
    BY <1>11, <2>1, <2>2, <2>3 DEF Lists
<1>14. PICK t : t = With(s, p, new)
  OBVIOUS
<1>15. LinkedAs(t, u)
  <2>1. p \in 1 .. Len(s) + 1 /\ new \in Nodes \ List!Range(s)
    BY <1>1, <1>3
  <2>2. before = NULL <=> p = 1
    BY <1>1, <1>2, <1>5, <1>6, <1>8
  <2>3. u.root = (IF p = 1 THEN new ELSE l.root)
    BY <1>11, <2>2
  <2>4. \A m \in Nodes : u.next[m] = IF m = new THEN (IF p = Len(s) + 1 THEN NULL ELSE s[p])
                                     ELSE IF p > 1 /\ m = s[p - 1] THEN new ELSE l.next[m]
    BY <1>1, <1>5, <1>6, <1>7, <1>8, <1>11
  <2>5. \A m \in Nodes : u.prev[m] = IF m = new THEN (IF p = 1 THEN NULL ELSE s[p - 1])
                                     ELSE IF p <= Len(s) /\ m = s[p] THEN new ELSE l.prev[m]
    BY <1>1, <1>5, <1>6, <1>7, <1>8, <1>11
  <2>6. QED
    <3>1. TiesIn(l, s, p, new, u)
      BY <2>3, <2>4, <2>5 DEF TiesIn
    <3>2. LinkedAs(With(s, p, new), u)
      <4>1. p \in 1 .. Len(s) + 1 /\ NULL \notin Nodes /\ LinkedAs(s, l)
        BY <1>1, <1>2, <1>8
      <4>2. new \in Nodes \ List!Range(s)
        BY <1>3
      <4>3. QED
        BY <3>1, <4>1, <4>2, TiedIn
    <3>3. QED
      BY <1>14, <3>2
<1>16. Holds(Nodes, s, p, new, t)
  BY <1>1, <1>2, <1>3, <1>14, WithIs
<1>17. Sorted(t, u.contact)
  <2>1. \A x \in 1 .. n : u.contact[s[x]] = l.contact[s[x]] /\ s[x] # new /\ u.contact[s[x]].name \in Nat
    <3>1. \A x \in 1 .. n : s[x] # new
      BY <1>1, <1>3, BookFacts
    <3>2. QED
      BY <1>2, <1>11, <3>1 DEF Persons, ListAssumption
  <2>2. u.contact[new] = c /\ c.name \in Nat
    BY <1>2, <1>3, <1>11 DEF Persons, ListAssumption
  <2>3. \A x, j \in 1 .. n : x < j => u.contact[s[x]].name <= u.contact[s[j]].name
    BY <1>1, <2>1 DEF Book, Sorted
  <2>4. \A x \in 1 .. n : x < p => u.contact[s[x]].name <= c.name
    BY <1>5, <2>1, <2>2
  <2>5. \A x \in 1 .. n : x >= p => c.name <= u.contact[s[x]].name
    BY <1>1, <1>5, <2>1, <2>2, <2>3
  <2>6. /\ Len(t) = n + 1
        /\ \A x \in 1 .. n + 1 : t[x] = IF x < p THEN s[x] ELSE IF x = p THEN new ELSE s[x - 1]
    BY <1>1, <1>16 DEF Holds
  <2>7. ASSUME NEW x \in 1 .. n + 1, NEW j \in 1 .. n + 1, x < j
        PROVE  u.contact[t[x]].name <= u.contact[t[j]].name
    <3>1. CASE x < p /\ j < p
      BY <1>1, <2>3, <2>6, <2>7, <3>1
    <3>2. CASE x < p /\ j = p
      BY <1>1, <2>2, <2>4, <2>6, <2>7, <3>2
    <3>3. CASE x < p /\ j > p
      BY <1>1, <2>3, <2>6, <2>7, <3>3
    <3>4. CASE x = p /\ j > p
      BY <1>1, <2>2, <2>5, <2>6, <2>7, <3>4
    <3>5. CASE x > p /\ j > p
      BY <1>1, <2>3, <2>6, <2>7, <3>5
    <3>6. QED
      BY <1>1, <2>7, <3>1, <3>2, <3>3, <3>4, <3>5
  <2>8. QED
    BY <2>6, <2>7 DEF Sorted
<1>18. \A m \in Nodes : u.contact[m] # List!NoContact <=> m \in List!Range(t)
  <2>1. c # List!NoContact
    BY DEF Persons, List!NoContact, List!NoCard
  <2>2. List!Range(t) = List!Range(s) \cup {new}
    BY <1>16 DEF Holds
  <2>3. QED
    BY <1>2, <1>3, <1>11, <2>1, <2>2 DEF Book
<1>19. \A m \in u.leaked : u.contact[m] = List!NoContact
  BY <1>2, <1>3, <1>11 DEF Book, Lists
<1>20. QED
  BY <1>9, <1>11, <1>13, <1>15, <1>17, <1>18, <1>19 DEF Book

Empties(c, n, d) == d = [c EXCEPT ![n] = List!NoContact]
Fills(c, n, p, d) == d = [c EXCEPT ![n] = p]

\* A node goes from the list: freed, or forgotten.
Taken(l, n, u) == u = List!Unlink(l, n) \/ u = List!CutOut(l, n)
Gone(u, n, w) ==
  \/ w = [u EXCEPT !.contact[n] = List!NoContact]
  \/ w = [u EXCEPT !.contact[n] = List!NoContact, !.leaked = @ \cup {n}]

LEMMA RemoveIs ==
  ASSUME ListAssumption, NEW l, NEW s, Book(s, l), NEW k \in 1 .. Len(s),
         NEW u, Taken(l, s[k], u), NEW w, Gone(u, s[k], w)
  PROVE  (\E t : Book(t, w)) /\ Empties(l.contact, s[k], w.contact)
<1>1. PICK n \in Nodes : n = s[k]
  BY BookFacts
<1>2. PICK t : t = Without(s, k)
  OBVIOUS
<1>3. LinkedAs(t, u) /\ u \in Lists /\ u.contact = l.contact /\ u.leaked = l.leaked
  BY <1>2, UnlinkIs DEF Book, Taken
<1>4. /\ w.root = u.root /\ w.next = u.next /\ w.prev = u.prev
      /\ w.contact = [l.contact EXCEPT ![n] = List!NoContact]
      /\ w.leaked = l.leaked \/ w.leaked = l.leaked \cup {n}
      /\ w = [root |-> w.root, next |-> w.next, prev |-> w.prev, contact |-> w.contact, leaked |-> w.leaked]
  BY <1>1, <1>3 DEF Lists, Gone
<1>5. /\ l.contact \in [Nodes -> Persons \cup {List!NoContact}] /\ l.leaked \in SUBSET Nodes
      /\ \A m \in Nodes : l.contact[m] # List!NoContact <=> m \in List!Range(s)
      /\ \A m \in l.leaked : l.contact[m] = List!NoContact
  BY DEF Book, Lists
<1>6. w \in Lists
  <2>1. w.contact \in [Nodes -> Persons \cup {List!NoContact}] /\ w.leaked \in SUBSET Nodes
    BY <1>4, <1>5
  <2>2. /\ w.root \in Nodes \cup {NULL} /\ w.next \in [Nodes -> Nodes \cup {NULL}]
        /\ w.prev \in [Nodes -> Nodes \cup {NULL}]
    BY <1>3, <1>4 DEF Lists
  <2>3. QED
    BY <1>4, <2>1, <2>2 DEF Lists
<1>7. LinkedAs(t, w)
  BY <1>3, <1>4 DEF LinkedAs, ForwardIs, BackwardIs
<1>8. Misses(Nodes, s, k, t)
  BY <1>2, BookFacts, WithoutIs
<1>9. Sorted(t, w.contact)
  <2>1. PICK z \in Nat : z = Len(s) /\ z > 0
    BY BookFacts
  <2>2. /\ \A x, j \in 1 .. z : x < j => l.contact[s[x]].name <= l.contact[s[j]].name
        /\ \A x \in 1 .. z : s[x] \in Nodes
        /\ \A x, j \in 1 .. z : s[x] = s[j] => x = j
    BY <2>1, BookFacts DEF Book, Sorted, Distinct
  <2>3. \A x \in 1 .. z - 1 : t[x] = IF x < k THEN s[x] ELSE s[x + 1]
    BY <1>8, <2>1 DEF Misses
  <2>4. ASSUME NEW x \in 1 .. z, x # k PROVE w.contact[s[x]] = l.contact[s[x]]
    BY <1>1, <1>4, <1>5, <2>1, <2>2, <2>4
  <2>5. ASSUME NEW x \in 1 .. z - 1, NEW j \in 1 .. z - 1, x < j
        PROVE  w.contact[t[x]].name <= w.contact[t[j]].name
    <3>1. PICK a \in 1 .. z : a # k /\ t[x] = s[a] /\ a = IF x < k THEN x ELSE x + 1
      BY <2>1, <2>3
    <3>2. PICK b \in 1 .. z : b # k /\ t[j] = s[b] /\ b = IF j < k THEN j ELSE j + 1
      BY <2>1, <2>3
    <3>3. a < b
      BY <2>1, <2>5, <3>1, <3>2
    <3>4. w.contact[s[a]] = l.contact[s[a]] /\ w.contact[s[b]] = l.contact[s[b]]
      BY <2>4, <3>1, <3>2
    <3>5. l.contact[s[a]].name <= l.contact[s[b]].name
      BY <2>2, <3>3
    <3>6. QED
      BY <3>1, <3>2, <3>4, <3>5
  <2>6. Len(t) = z - 1
    BY <1>8, <2>1 DEF Misses
  <2>7. QED
    BY <2>5, <2>6 DEF Sorted
<1>10. \A m \in Nodes : w.contact[m] # List!NoContact <=> m \in List!Range(t)
  <2>1. List!Range(t) = List!Range(s) \ {n}
    BY <1>1, <1>8 DEF Misses
  <2>2. QED
    BY <1>4, <1>5, <2>1
<1>11. \A m \in w.leaked : w.contact[m] = List!NoContact
  BY <1>4, <1>5
<1>12. QED
  BY <1>1, <1>4, <1>6, <1>7, <1>9, <1>10, <1>11 DEF Book, Empties

\* A contact gets another id.
GetsId(c, n, id, d) == d = [c EXCEPT ![n].id = id]

LEMMA IdIs ==
  ASSUME ListAssumption, NEW l, NEW s, Book(s, l), NEW n \in List!Range(s), NEW id \in Ids,
         NEW w, w = [l EXCEPT !.contact[n].id = id]
  PROVE  Book(s, w) /\ GetsId(l.contact, n, id, w.contact)
<1>1. /\ l.contact \in [Nodes -> Persons \cup {List!NoContact}] /\ l \in Lists
      /\ n \in Nodes /\ l.contact[n] \in Persons
  <2>1. PICK k \in 1 .. Len(s) : s[k] = n
    BY BookFacts DEF List!Range
  <2>2. QED
    BY <2>1, BookFacts DEF Book
<1>2. /\ w.root = l.root /\ w.next = l.next /\ w.prev = l.prev /\ w.leaked = l.leaked
      /\ w.contact = [l.contact EXCEPT ![n].id = id]
      /\ w = [root |-> w.root, next |-> w.next, prev |-> w.prev, contact |-> w.contact, leaked |-> w.leaked]
  BY <1>1 DEF Lists
<1>3. PICK p : p = [l.contact[n] EXCEPT !.id = id]
  OBVIOUS
<1>4. p \in Persons /\ p # List!NoContact /\ p.name = l.contact[n].name
  <2>1. p \in Persons /\ p.name = l.contact[n].name
    BY <1>1, <1>3 DEF Persons
  <2>2. List!NoContact \notin Persons
    BY DEF Persons, List!NoContact, List!NoCard
  <2>3. QED
    BY <2>1, <2>2
<1>5. w.contact = [l.contact EXCEPT ![n] = p]
  BY <1>1, <1>2, <1>3
<1>6. w \in Lists
  <2>1. w.contact \in [Nodes -> Persons \cup {List!NoContact}]
    BY <1>1, <1>4, <1>5
  <2>2. QED
    BY <1>1, <1>2, <2>1 DEF Lists
<1>7. LinkedAs(s, w)
  BY <1>2 DEF Book, LinkedAs, ForwardIs, BackwardIs
<1>8. \A m \in Nodes : w.contact[m].name = l.contact[m].name /\ (w.contact[m] # List!NoContact <=> l.contact[m] # List!NoContact)
  <2>1. l.contact[n] # List!NoContact
    BY <1>1 DEF Persons, List!NoContact, List!NoCard
  <2>2. QED
    BY <1>1, <1>4, <1>5, <2>1
<1>9. Sorted(s, w.contact)
  BY <1>8, BookFacts DEF Book, Sorted
<1>10. \A m \in w.leaked : w.contact[m] = List!NoContact
  BY <1>1, <1>2, <1>8 DEF Book, Lists
<1>11. QED
  BY <1>2, <1>6, <1>7, <1>8, <1>9, <1>10 DEF Book, GetsId

-----------------------------------------------------------------------------
(* What has happened to the contacts.                                      *)

Live(contact) == {n \in Nodes : contact[n] # List!NoContact}

\* The cards on the list are those of contacts that were added and not removed, each
\* one once.
Known(contact, cards) ==
  /\ \A n \in Live(contact) : contact[n].card \in cards
  /\ \A m, n \in Live(contact) : contact[m].card = contact[n].card => m = n
There(contact, cards) == \A card \in cards : \E n \in Live(contact) : contact[n].card = card
Apart(contact) == \A m, n \in Live(contact) : contact[m].id = contact[n].id => m = n

Contacts == [Nodes -> Persons \cup {List!NoContact}]

LEMMA Filled ==
  ASSUME NEW c \in Contacts, NEW new \in Nodes, c[new] = List!NoContact,
         NEW p \in Persons, NEW d, Fills(c, new, p, d)
  PROVE  /\ Live(d) = Live(c) \cup {new} /\ new \notin Live(c) /\ d[new] = p
         /\ \A n \in Live(c) : d[n] = c[n]
         /\ Apart(c) /\ (\A n \in Live(c) : c[n].id # p.id) => Apart(d)
<1>1. p # List!NoContact
  BY DEF Persons, List!NoContact, List!NoCard
<1>2. /\ Live(d) = Live(c) \cup {new} /\ new \notin Live(c) /\ d[new] = p
      /\ \A n \in Live(c) : d[n] = c[n]
  BY <1>1 DEF Contacts, Live, Fills
<1>3. Apart(c) /\ (\A n \in Live(c) : c[n].id # p.id) => Apart(d)
  BY <1>2 DEF Apart
<1>4. QED
  BY <1>2, <1>3

LEMMA Came ==
  ASSUME NEW c \in Contacts, NEW cards, NEW new \in Nodes, c[new] = List!NoContact,
         NEW p \in Persons, p.card \notin cards, NEW d, Fills(c, new, p, d)
  PROVE  /\ Known(c, cards) => Known(d, cards \cup {p.card})
         /\ There(c, cards) => There(d, cards \cup {p.card})
<1>2. /\ Live(d) = Live(c) \cup {new} /\ new \notin Live(c) /\ d[new] = p
      /\ \A n \in Live(c) : d[n] = c[n]
  BY Filled
<1>3. Known(c, cards) => Known(d, cards \cup {p.card})
  <2>1. SUFFICES ASSUME Known(c, cards) PROVE Known(d, cards \cup {p.card})
    OBVIOUS
  <2>2. \A m \in Live(c) : d[m].card \in cards /\ d[m].card # d[new].card
    BY <1>2, <2>1 DEF Known
  <2>3. \A m \in Live(d) : d[m].card \in cards \cup {p.card}
    BY <1>2, <2>2
  <2>4. ASSUME NEW m \in Live(d), NEW o \in Live(d), d[m].card = d[o].card PROVE m = o
    <3>1. CASE m = new \/ o = new
      BY <1>2, <2>2, <2>4, <3>1
    <3>2. CASE m # new /\ o # new
      BY <1>2, <2>1, <2>4, <3>2 DEF Known
    <3>3. QED
      BY <3>1, <3>2
  <2>5. QED
    BY <2>3, <2>4 DEF Known
<1>4. There(c, cards) => There(d, cards \cup {p.card})
  <2>1. SUFFICES ASSUME There(c, cards), NEW card \in cards \cup {p.card}
                 PROVE  \E m \in Live(d) : d[m].card = card
    BY DEF There
  <2>2. CASE card = p.card
    BY <1>2, <2>2
  <2>3. CASE card # p.card
    <3>1. PICK m \in Live(c) : c[m].card = card
      BY <2>1, <2>3 DEF There
    <3>2. QED
      BY <1>2, <3>1
  <2>4. QED
    BY <2>2, <2>3
<1>5. QED
  BY <1>3, <1>4

LEMMA Went ==
  ASSUME NEW c \in Contacts, NEW cards, NEW n \in Live(c), NEW d, Empties(c, n, d)
  PROVE  /\ Known(c, cards) => Known(d, cards \ {c[n].card})
         /\ There(c, cards) => There(d, cards \ {c[n].card})
         /\ Apart(c) => Apart(d) /\ \A m \in Live(d) : d[m].id # c[n].id
<1>1. /\ Live(d) = Live(c) \ {n} /\ \A m \in Live(d) : d[m] = c[m] /\ m \in Live(c) /\ m # n
  BY DEF Contacts, Live, Empties
<1>2. Known(c, cards) => Known(d, cards \ {c[n].card})
  BY <1>1 DEF Known
<1>3. There(c, cards) => There(d, cards \ {c[n].card})
  <2>1. SUFFICES ASSUME There(c, cards), NEW card \in cards \ {c[n].card}
                 PROVE  \E m \in Live(d) : d[m].card = card
    BY DEF There
  <2>2. PICK m \in Live(c) : c[m].card = card
    BY <2>1 DEF There
  <2>3. QED
    BY <1>1, <2>1, <2>2
<1>4. Apart(c) => Apart(d) /\ \A m \in Live(d) : d[m].id # c[n].id
  BY <1>1 DEF Apart
<1>5. QED
  BY <1>2, <1>3, <1>4

LEMMA IdChanged ==
  ASSUME NEW c \in Contacts, NEW cards, NEW n \in Live(c), NEW id \in Ids, NEW d, GetsId(c, n, id, d)
  PROVE  /\ Live(d) = Live(c) /\ \A m \in Live(c) : d[m].card = c[m].card
         /\ d[n].id = id
         /\ Known(c, cards) => Known(d, cards)
         /\ There(c, cards) => There(d, cards)
<1>0. n \in Nodes /\ c[n] \in Persons
  BY DEF Live, Contacts
<1>1. PICK p \in Persons : p = [c[n] EXCEPT !.id = id] /\ p.card = c[n].card /\ p.id = id
  <2>1. PICK p : p = [c[n] EXCEPT !.id = id]
    OBVIOUS
  <2>2. p \in Persons /\ p.card = c[n].card /\ p.id = id
    BY <1>0, <2>1 DEF Persons
  <2>3. QED
    BY <2>1, <2>2
<1>2. p # List!NoContact
  BY DEF Persons, List!NoContact, List!NoCard
<1>3. d = [c EXCEPT ![n] = p]
  BY <1>0, <1>1 DEF GetsId
<1>4. Live(d) = Live(c) /\ \A m \in Live(c) : d[m].card = c[m].card
  BY <1>0, <1>1, <1>2, <1>3 DEF Live, Contacts
<1>5. d[n].id = id
  BY <1>0, <1>1, <1>3 DEF Contacts
<1>6. Known(c, cards) => Known(d, cards)
  BY <1>4 DEF Known
<1>7. There(c, cards) => There(d, cards)
  BY <1>4 DEF There
<1>8. QED
  BY <1>4, <1>5, <1>6, <1>7

-----------------------------------------------------------------------------
(* The steps.                                                              *)

LEMMA InBook ==
  ASSUME ListAssumption, NEW l, NEW s, Book(s, l)
  PROVE  /\ l.contact \in Contacts /\ Live(l.contact) = List!Range(s)
         /\ List!Twins(l) <=> ~Apart(l.contact)
<1>1. List!Chain(l) = s /\ l.contact \in Contacts /\ DOMAIN s = 1 .. Len(s)
  BY BookFacts DEF Contacts
<1>2. \A n \in Nodes : l.contact[n] # List!NoContact <=> n \in List!Range(s)
  BY DEF Book
<1>3. List!Range(s) \subseteq Nodes
  BY <1>1, BookFacts DEF List!Range
<1>4. Live(l.contact) = List!Range(s)
  BY <1>2, <1>3 DEF Live
<1>5. QED
  BY <1>1, <1>4 DEF List!Twins, Apart

LEMMA FoundIs ==
  ASSUME ListAssumption, NEW l, NEW s, Book(s, l), NEW id, NEW n, n = List!Find(l, id)
  PROVE  \/ n = NULL /\ \A m \in Live(l.contact) : l.contact[m].id # id
         \/ /\ n # NULL /\ n \in Live(l.contact) /\ l.contact[n].id = id
            /\ \E k \in 1 .. Len(s) : n = s[k]
<1>1. /\ List!Chain(l) = s /\ s \in Seq(Nodes) /\ DOMAIN s = 1 .. Len(s)
      /\ \A k \in 1 .. Len(s) : s[k] \in Nodes /\ s[k] \in List!Range(s)
  BY BookFacts
<1>2. Live(l.contact) = List!Range(s)
  BY InBook
<1>3. CASE n = NULL /\ \A k \in 1 .. Len(s) : l.contact[s[k]].id # id
  <2>1. ASSUME NEW m \in List!Range(s) PROVE l.contact[m].id # id
    <3>1. PICK k \in 1 .. Len(s) : m = s[k]
      BY <1>1, <2>1 DEF List!Range
    <3>2. QED
      BY <1>3, <3>1
  <2>2. QED
    BY <1>2, <1>3, <2>1
<1>4. CASE \E k \in 1 .. Len(s) : n = s[k] /\ l.contact[s[k]].id = id
  BY <1>1, <1>2, <1>4 DEF ListAssumption
<1>5. QED
  BY <1>1, <1>3, <1>4, FindIs DEF ListAssumption

\* What a call of addContact does to the contacts.
Comes(l, c, new, to) ==
  /\ new \in Nodes /\ l.contact[new] = List!NoContact
  /\ Fills(l.contact, new, c, to.contact) /\ to # l

LEMMA NewNode ==
  ASSUME ListAssumption, NEW l, NEW s, Book(s, l), NEW c \in Persons, NEW new \in List!Unused(l),
         NEW to, to = List!AddContact(l, c, new)
  PROVE  (\E t : Book(t, to)) /\ Comes(l, c, new, to)
<1>1. (\E t : Book(t, to)) /\ to.contact = [l.contact EXCEPT ![new] = c]
  BY AddIs
<1>2. new \in Nodes /\ l.contact[new] = List!NoContact /\ l.contact \in Contacts
  BY InBook DEF List!Unused
<1>3. c # List!NoContact
  BY DEF Persons, List!NoContact, List!NoCard
<1>4. to.contact[new] # l.contact[new]
  BY <1>1, <1>2, <1>3 DEF Contacts
<1>5. to # l
  BY <1>4
<1>6. QED
  BY <1>1, <1>2, <1>5 DEF Comes, Fills

LEMMA AddingDoes ==
  ASSUME ListAssumption, NEW l, NEW s, Book(s, l), NEW c \in Persons, List!Adding(l, c)
  PROVE  /\ \E t : Book(t, list')
         /\ clashed' = (clashed \/ ~Apart(list'.contact))
         /\ \/ /\ \E new : Comes(l, c, new, list')
               /\ starved' = starved /\ \A n \in Live(l.contact) : l.contact[n].id # c.id
            \/ /\ list' = l /\ starved' = starved
               /\ \E n \in Live(l.contact) : l.contact[n].id = c.id
            \/ list' = l /\ starved'
<1>1. /\ List!IdTaken(l, c.id) => \E n \in Live(l.contact) : l.contact[n].id = c.id
      /\ ~List!IdTaken(l, c.id) => \A n \in Live(l.contact) : l.contact[n].id # c.id
  <2>1. PICK n : n = List!Find(l, c.id)
    OBVIOUS
  <2>2. QED
    BY <2>1, FoundIs DEF List!IdTaken
<1>2. CASE ~List!IdTaken(l, c.id) /\ starved' = starved /\ \E new \in List!Unused(l) : list' = List!AddContact(l, c, new)
  <2>1. PICK new \in List!Unused(l) : list' = List!AddContact(l, c, new)
    BY <1>2
  <2>2. (\E t : Book(t, list')) /\ Comes(l, c, new, list')
    BY <2>1, NewNode
  <2>3. clashed' = (clashed \/ ~Apart(list'.contact))
    BY <2>2, InBook DEF List!Adding
  <2>4. QED
    BY <1>1, <1>2, <2>2, <2>3
<1>3. CASE list' = l /\ ((List!IdTaken(l, c.id) /\ starved' = starved) \/ starved')
  <2>1. clashed' = (clashed \/ ~Apart(list'.contact))
    BY <1>3, InBook DEF List!Adding
  <2>2. QED
    BY <1>1, <1>3, <2>1
<1>4. QED
  BY <1>2, <1>3 DEF List!Adding

LEMMA PlainAddingDoes ==
  ASSUME ListAssumption, NEW l, NEW s, Book(s, l), NEW c \in Persons, List!PlainAdding(l, c)
  PROVE  /\ \E t : Book(t, list')
         /\ \/ (\E new : Comes(l, c, new, list')) /\ starved' = starved /\ listCall' = listCall
            \/ list' = l /\ starved' /\ listCall' = [List!Menu EXCEPT !.place = "crashed"]
<1>1. CASE starved' = starved /\ listCall' = listCall /\ \E new \in List!Unused(l) : list' = List!AddContact(l, c, new)
  <2>1. PICK new \in List!Unused(l) : list' = List!AddContact(l, c, new)
    BY <1>1
  <2>2. (\E t : Book(t, list')) /\ Comes(l, c, new, list')
    BY <2>1, NewNode
  <2>3. QED
    BY <1>1, <2>2
<1>2. CASE list' = l /\ List!Crash /\ starved' = TRUE
  BY <1>2 DEF List!Crash
<1>3. QED
  BY <1>1, <1>2 DEF List!PlainAdding

-----------------------------------------------------------------------------
(* The inductive invariant.                                                *)

CallType == [place : {"menu", "edit", "exited", "crashed"}, id : Ids \cup {0}, card : Nat]

\* The cards that are to be on the list.
Owed == (1 .. listAdded) \ listRemoved

\* The dialogue's contact is on the list, under the id of the dialogue.
Held ==
  List!Editing /\ listCall.card # List!NoCard /\ ~clashed /\ ~starved =>
    /\ listWrote = listCall.card
    /\ \E n \in Live(list.contact) :
         list.contact[n].id = listCall.id /\ list.contact[n].card = listCall.card

History ==
  /\ \E s : Book(s, list)
  /\ listAdded \in Nat /\ listRemoved \subseteq 1 .. listAdded /\ listCall \in CallType
  /\ Known(list.contact, Owed)
  /\ ~clashed => Apart(list.contact)
  /\ Held

ListInv == History /\ (There(list.contact, Owed) \/ clashed \/ starved)
PlainInv == History /\ (There(list.contact, Owed) \/ listCall.place = "crashed")

LEMMA MenuIsCall == ASSUME ListAssumption PROVE List!Menu \in CallType /\ List!Menu.place = "menu"
BY DEF List!Menu, CallType, List!NoCard

LEMMA BeginInv ==
  ASSUME ListAssumption, List!Init
  PROVE  ListInv /\ PlainInv
<1>1. PICK s : s = <<>>
  OBVIOUS
<1>2. s \in Seq(Nodes) /\ Len(s) = 0 /\ DOMAIN s = {}
  BY <1>1
<1>3. list \in Lists
  BY DEF List!Init, Lists
<1>4. LinkedAs(s, list)
  BY <1>2 DEF LinkedAs, ForwardIs, BackwardIs, Distinct, List!Init
<1>5. Book(s, list)
  BY <1>2, <1>3, <1>4 DEF Book, Sorted, List!Range, List!Init
<1>6. Live(list.contact) = {}
  BY DEF List!Init, Live
<1>7. Known(list.contact, Owed) /\ Apart(list.contact)
  BY <1>6 DEF Known, Apart
<1>8. There(list.contact, Owed)
  BY DEF There, Owed, List!Init
<1>9. Held
  BY MenuIsCall DEF Held, List!Editing, List!Init
<1>10. listAdded \in Nat /\ listRemoved \subseteq 1 .. listAdded /\ listCall \in CallType
  BY MenuIsCall DEF List!Init
<1>11. QED
  BY <1>5, <1>7, <1>8, <1>9, <1>10 DEF ListInv, PlainInv, History

\* A contact is added at the menu.
LEMMA AddedAtMenu ==
  ASSUME ListAssumption, History, listCall = List!Menu, NEW id \in Ids, NEW name \in Names,
         NEW c, c = [id |-> id, name |-> name, card |-> listAdded + 1],
         \E t : Book(t, list'), NEW new, Comes(list, c, new, list'),
         listAdded' = listAdded + 1, listRemoved' = listRemoved, listCall' \in CallType, listCall'.place # "edit",
         ~clashed' => ~clashed /\ Apart(list'.contact)
  PROVE  History' /\ (There(list.contact, Owed) => There(list.contact, Owed)')
<1>1. listAdded \in Nat /\ listRemoved \subseteq 1 .. listAdded /\ Known(list.contact, Owed)
  BY DEF History
<1>2. c \in Persons /\ c.card = listAdded + 1
  BY <1>1 DEF Persons
<1>3. c.card \notin Owed /\ Owed' = Owed \cup {c.card}
  BY <1>1, <1>2 DEF Owed
<1>4. list.contact \in Contacts
  BY InBook DEF History
<1>5. /\ Known(list'.contact, Owed')
      /\ There(list.contact, Owed) => There(list'.contact, Owed')
  <2>1. Known(list.contact, Owed) => Known(list'.contact, Owed \cup {c.card})
    BY <1>2, <1>3, <1>4, Came DEF Comes
  <2>2. There(list.contact, Owed) => There(list'.contact, Owed \cup {c.card})
    BY <1>2, <1>3, <1>4, Came DEF Comes
  <2>3. QED
    BY <1>1, <1>3, <2>1, <2>2
<1>6. listAdded' \in Nat /\ listRemoved' \subseteq 1 .. listAdded'
  BY <1>1
<1>7. Held'
  BY DEF Held, List!Editing
<1>8. QED
  BY <1>5, <1>6, <1>7 DEF History

\* Nothing happens to the list.
LEMMA ListStays ==
  ASSUME History, list' = list, listAdded' = listAdded, listRemoved' = listRemoved, listCall' \in CallType,
         ~clashed' => ~clashed, Held'
  PROVE  History' /\ (There(list.contact, Owed) => There(list.contact, Owed)')
<1>1. Owed' = Owed
  BY DEF Owed
<1>2. Known(list'.contact, Owed') /\ (There(list.contact, Owed) => There(list'.contact, Owed'))
  BY <1>1 DEF History
<1>3. (~clashed' => Apart(list'.contact)) /\ \E s : Book(s, list')
  BY DEF History
<1>4. QED
  BY <1>2, <1>3 DEF History

LEMMA AddStep ==
  ASSUME ListAssumption, ListInv, NEW id \in Ids, NEW name \in Names, List!HandleAddContact(id, name)
  PROVE  ListInv'
<1>1. PICK c : c = [id |-> id, name |-> name, card |-> listAdded + 1]
  OBVIOUS
<1>2. /\ listCall = List!Menu /\ List!Adding(list, c) /\ listAdded' = (IF list' = list THEN listAdded ELSE listAdded + 1)
      /\ listCall' = listCall /\ listRemoved' = listRemoved
  BY <1>1 DEF List!HandleAddContact
<1>3. c \in Persons
  BY <1>1 DEF Persons, ListInv, History
<1>4. listCall' \in CallType /\ listCall'.place # "edit" /\ Held'
  BY <1>2, MenuIsCall DEF Held, List!Editing
<1>5. PICK s : Book(s, list)
  BY DEF ListInv, History
<1>6. /\ \E t : Book(t, list')
      /\ clashed' = (clashed \/ ~Apart(list'.contact))
      /\ \/ (\E new : Comes(list, c, new, list')) /\ starved' = starved
         \/ list' = list /\ starved' = starved
         \/ list' = list /\ starved'
  BY <1>2, <1>3, <1>5, AddingDoes
<1>7. CASE (\E new : Comes(list, c, new, list')) /\ starved' = starved
  <2>1. PICK new : Comes(list, c, new, list')
    BY <1>7
  <2>2. listAdded' = listAdded + 1 /\ (~clashed' => ~clashed /\ Apart(list'.contact))
    BY <1>2, <1>6, <2>1 DEF Comes
  <2>3. History' /\ (There(list.contact, Owed) => There(list.contact, Owed)')
    BY <1>1, <1>2, <1>4, <1>6, <2>1, <2>2, AddedAtMenu DEF ListInv
  <2>4. QED
    BY <1>6, <1>7, <2>3 DEF ListInv
<1>8. CASE list' = list /\ (starved' = starved \/ starved')
  <2>1. History' /\ (There(list.contact, Owed) => There(list.contact, Owed)')
    BY <1>2, <1>4, <1>6, <1>8, ListStays DEF ListInv
  <2>2. clashed => clashed'
    BY <1>6
  <2>3. starved => starved'
    BY <1>8
  <2>4. QED
    BY <2>1, <2>2, <2>3 DEF ListInv
<1>9. QED
  BY <1>6, <1>7, <1>8

LEMMA PlainAddStep ==
  ASSUME ListAssumption, PlainInv, NEW id \in Ids, NEW name \in Names, List!PlainAddContact(id, name)
  PROVE  PlainInv'
<1>1. PICK c : c = [id |-> id, name |-> name, card |-> listAdded + 1]
  OBVIOUS
<1>2. /\ listCall = List!Menu /\ List!PlainAdding(list, c) /\ listAdded' = (IF list' = list THEN listAdded ELSE listAdded + 1)
      /\ clashed' = (clashed \/ List!Twins(list')) /\ listRemoved' = listRemoved
  BY <1>1 DEF List!PlainAddContact
<1>3. c \in Persons
  BY <1>1 DEF Persons, PlainInv, History
<1>5. PICK s : Book(s, list)
  BY DEF PlainInv, History
<1>6. /\ \E t : Book(t, list')
      /\ \/ (\E new : Comes(list, c, new, list')) /\ listCall' = listCall
         \/ list' = list /\ listCall' = [List!Menu EXCEPT !.place = "crashed"]
  BY <1>2, <1>3, <1>5, PlainAddingDoes
<1>7. listCall' \in CallType /\ listCall'.place # "edit" /\ Held'
  BY <1>2, <1>6, MenuIsCall DEF Held, List!Editing, CallType
<1>8. clashed' = (clashed \/ ~Apart(list'.contact))
  BY <1>2, <1>6, InBook
<1>9. CASE (\E new : Comes(list, c, new, list')) /\ listCall' = listCall
  <2>1. PICK new : Comes(list, c, new, list')
    BY <1>9
  <2>2. listAdded' = listAdded + 1 /\ (~clashed' => ~clashed /\ Apart(list'.contact))
    BY <1>2, <1>8, <2>1 DEF Comes
  <2>3. History' /\ (There(list.contact, Owed) => There(list.contact, Owed)')
    BY <1>1, <1>2, <1>6, <1>7, <2>1, <2>2, AddedAtMenu DEF PlainInv
  <2>4. QED
    BY <1>9, <2>3 DEF PlainInv
<1>10. CASE list' = list /\ listCall' = [List!Menu EXCEPT !.place = "crashed"]
  <2>1. History'
    BY <1>2, <1>7, <1>8, <1>10, ListStays DEF PlainInv
  <2>2. listCall'.place = "crashed"
    BY <1>10, MenuIsCall DEF CallType
  <2>3. QED
    BY <2>1, <2>2 DEF PlainInv
<1>11. QED
  BY <1>6, <1>9, <1>10

\* A contact is deleted, in either way.
LEMMA Deleted ==
  ASSUME ListAssumption, History, listCall = List!Menu, NEW n, n \in Live(list.contact),
         \E t : Book(t, list'), Empties(list.contact, n, list'.contact),
         listRemoved' = listRemoved \cup {list.contact[n].card}, listCall' = listCall, listAdded' = listAdded,
         clashed' = clashed
  PROVE  History' /\ (There(list.contact, Owed) => There(list.contact, Owed)')
<1>1. listAdded \in Nat /\ listRemoved \subseteq 1 .. listAdded /\ Known(list.contact, Owed)
  BY DEF History
<1>2. list.contact \in Contacts
  BY InBook DEF History
<1>3. Owed' = Owed \ {list.contact[n].card}
  BY DEF Owed
<1>4. Known(list'.contact, Owed') /\ (There(list.contact, Owed) => There(list'.contact, Owed'))
  BY <1>1, <1>2, <1>3, Went
<1>5. clashed \/ Apart(list'.contact)
  BY <1>2, Went DEF History
<1>6. list.contact[n].card \in 1 .. listAdded
  BY <1>1 DEF Known, Owed
<1>7. Held' /\ listCall' \in CallType
  BY MenuIsCall DEF Held, List!Editing
<1>8. listAdded' \in Nat /\ listRemoved' \subseteq 1 .. listAdded'
  BY <1>1, <1>6
<1>9. QED
  BY <1>4, <1>5, <1>7, <1>8 DEF History

LEMMA DelStep ==
  ASSUME ListAssumption, NEW id \in Ids
  PROVE  /\ ListInv /\ List!HandleDelContact(id) => ListInv'
         /\ PlainInv /\ List!PlainDelContact(id) => PlainInv'
<1>1. SUFFICES ASSUME History, listCall = List!Menu, NEW n, n = List!Find(list, id), n # NULL,
                      NEW u \in {List!Unlink(list, n), List!CutOut(list, n)},
                      list' = [u EXCEPT !.contact[n] = List!NoContact],
                      listRemoved' = listRemoved \cup {list.contact[n].card}, listCall' = listCall, listAdded' = listAdded,
                      clashed' = clashed
               PROVE  History' /\ (There(list.contact, Owed) => There(list.contact, Owed)')
  BY DEF ListInv, PlainInv, List!HandleDelContact, List!PlainDelContact, List!IdTaken
<1>2. PICK s : Book(s, list)
  BY <1>1 DEF History
<1>3. PICK k \in 1 .. Len(s) : n = s[k] /\ n \in Live(list.contact)
  BY <1>1, <1>2, FoundIs
<1>4. (\E t : Book(t, list')) /\ Empties(list.contact, n, list'.contact)
  <2>1. Taken(list, s[k], u) /\ Gone(u, s[k], list')
    BY <1>1, <1>3 DEF Gone, Taken
  <2>2. (\E t : Book(t, list')) /\ Empties(list.contact, s[k], list'.contact)
    <3>1. PICK w : w = list'
      OBVIOUS
    <3>2. (\E t : Book(t, w)) /\ Empties(list.contact, s[k], w.contact)
      <4>1. Gone(u, s[k], w)
        BY <2>1, <3>1
      <4>2. QED
        BY <1>2, <2>1, <4>1, RemoveIs
    <3>3. QED
      BY <3>1, <3>2
  <2>3. QED
    BY <1>3, <2>2
<1>5. QED
  BY <1>1, <1>3, <1>4, Deleted

\* What the dialogue does with the contact it finds.
LEMMA FoundInDialogue ==
  ASSUME ListAssumption, History, List!Editing, List!Touched, NEW n, n = List!Found
  PROVE  /\ n # NULL => n \in Live(list.contact) /\ list.contact[n].id = listCall.id
                        /\ listWrote' = list.contact[n].card
         /\ listCall.card # List!NoCard /\ ~clashed /\ ~starved =>
              n # NULL /\ list.contact[n].card = listCall.card
         /\ listCall \in CallType /\ listCall.place = "edit"
<1>1. PICK s : Book(s, list)
  BY DEF History
<1>2. \/ n = NULL /\ \A m \in Live(list.contact) : list.contact[m].id # listCall.id
      \/ n # NULL /\ n \in Live(list.contact) /\ list.contact[n].id = listCall.id
  BY <1>1, FoundIs DEF List!Found
<1>3. n # NULL => listWrote' = list.contact[n].card
  BY DEF List!Touched
<1>4. ASSUME listCall.card # List!NoCard, ~clashed, ~starved
      PROVE  n # NULL /\ list.contact[n].card = listCall.card
  <2>1. PICK m \in Live(list.contact) : list.contact[m].id = listCall.id /\ list.contact[m].card = listCall.card
    BY <1>4 DEF History, Held
  <2>2. n = m
    BY <1>2, <1>4, <2>1 DEF History, Apart
  <2>3. QED
    BY <1>2, <2>1, <2>2
<1>5. QED
  BY <1>2, <1>3, <1>4 DEF History, List!Editing

LEMMA EditIdStep ==
  ASSUME ListAssumption, History, NEW id \in Ids, List!EditId(id)
  PROVE  History' /\ (There(list.contact, Owed) => There(list.contact, Owed)') /\ (clashed => clashed')
<1>1. PICK n : n = List!Found
  OBVIOUS
<1>2. /\ list' = IF n = NULL THEN list ELSE [list EXCEPT !.contact[n].id = id]
      /\ clashed' = (clashed \/ List!Twins(list')) /\ listCall' = [listCall EXCEPT !.id = id]
      /\ listAdded' = listAdded /\ listRemoved' = listRemoved /\ starved' = starved
      /\ List!Editing /\ List!Touched
  BY <1>1 DEF List!EditId
<1>3. /\ n # NULL => n \in Live(list.contact) /\ list.contact[n].id = listCall.id
                     /\ listWrote' = list.contact[n].card
      /\ listCall.card # List!NoCard /\ ~clashed /\ ~starved =>
           n # NULL /\ list.contact[n].card = listCall.card
      /\ listCall \in CallType /\ listCall.place = "edit"
  BY <1>1, <1>2, FoundInDialogue
<1>4. listCall' \in CallType /\ listCall'.id = id /\ listCall'.card = listCall.card
  BY <1>2, <1>3 DEF CallType
<1>5. PICK s : Book(s, list)
  BY DEF History
<1>6. CASE n = NULL
  <2>1. list' = list /\ Held'
    BY <1>2, <1>3, <1>4, <1>6 DEF Held
  <2>2. QED
    BY <1>2, <1>4, <2>1, ListStays
<1>7. CASE n # NULL
  <2>1. list.contact \in Contacts /\ Live(list.contact) = List!Range(s)
    BY <1>5, InBook
  <2>2. Book(s, list') /\ GetsId(list.contact, n, id, list'.contact)
    <3>1. n \in List!Range(s) /\ list' = [list EXCEPT !.contact[n].id = id]
      BY <1>2, <1>3, <1>7, <2>1
    <3>2. PICK w : w = list'
      OBVIOUS
    <3>3. Book(s, w) /\ GetsId(list.contact, n, id, w.contact)
      BY <1>5, <3>1, <3>2, IdIs
    <3>4. QED
      BY <3>2, <3>3
  <2>0. PICK d : d = list'.contact
    OBVIOUS
  <2>3. /\ Live(list'.contact) = Live(list.contact)
        /\ \A m \in Live(list.contact) : list'.contact[m].card = list.contact[m].card
        /\ list'.contact[n].id = id
        /\ Known(list.contact, Owed) => Known(list'.contact, Owed)
        /\ There(list.contact, Owed) => There(list'.contact, Owed)
    <3>1. PICK c : c = list.contact
      OBVIOUS
    <3>2. c \in Contacts /\ n \in Live(c) /\ GetsId(c, n, id, d)
      BY <1>3, <1>7, <2>0, <2>1, <2>2, <3>1
    <3>3. /\ Live(d) = Live(c) /\ \A m \in Live(c) : d[m].card = c[m].card
          /\ d[n].id = id
          /\ Known(c, Owed) => Known(d, Owed)
          /\ There(c, Owed) => There(d, Owed)
      BY <3>2, IdChanged
    <3>4. QED
      BY <2>0, <3>1, <3>3
  <2>4. Owed' = Owed
    BY <1>2 DEF Owed
  <2>5. Known(list'.contact, Owed') /\ (There(list.contact, Owed) => There(list'.contact, Owed'))
    BY <2>3, <2>4 DEF History
  <2>6. (clashed => clashed') /\ (~clashed' => Apart(list'.contact))
    BY <1>2, <2>2, InBook
  <2>7. Held'
    <3>1. SUFFICES ASSUME listCall.card # List!NoCard, ~clashed', ~starved'
                   PROVE  /\ listWrote' = listCall'.card
                          /\ \E m \in Live(list'.contact) :
                               list'.contact[m].id = listCall'.id /\ list'.contact[m].card = listCall'.card
      BY <1>4 DEF Held
    <3>2. list.contact[n].card = listCall.card /\ n \in Live(list.contact) /\ listWrote' = list.contact[n].card
      BY <1>2, <1>3, <1>7, <2>6, <3>1
    <3>3. QED
      BY <1>4, <2>3, <3>2
  <2>8. QED
    BY <1>2, <1>4, <2>2, <2>5, <2>6, <2>7 DEF History
<1>8. QED
  BY <1>2, <1>6, <1>7

LEMMA DialogueSteps ==
  ASSUME ListAssumption, History,
         (\E id \in Ids : List!BeginEdit(id)) \/ List!EditOther \/ List!EndEdit \/ List!Exit
  PROVE  History' /\ list' = list /\ Owed' = Owed /\ clashed' = clashed /\ starved' = starved
         /\ listCall.place # "crashed"
<1>1. PICK s : Book(s, list)
  BY DEF History
<1>2. ASSUME NEW id \in Ids, List!BeginEdit(id)
      PROVE  History' /\ list' = list /\ Owed' = Owed /\ clashed' = clashed /\ starved' = starved
             /\ listCall.place # "crashed"
  <2>1. PICK n : n = List!Find(list, id)
    OBVIOUS
  <2>2. /\ listWrote' = (IF n # NULL THEN list.contact[n].card ELSE List!NoCard)
        /\ listCall' = [place |-> "edit", id |-> id, card |-> listWrote'] /\ list' = list
        /\ listAdded' = listAdded /\ listRemoved' = listRemoved /\ clashed' = clashed /\ starved' = starved
        /\ listCall = List!Menu
    BY <1>2, <2>1 DEF List!BeginEdit, List!IdTaken
  <2>3. n # NULL => n \in Live(list.contact) /\ list.contact[n].id = id /\ list.contact[n] \in Persons
    <3>1. n # NULL => n \in Live(list.contact) /\ list.contact[n].id = id
      BY <1>1, <2>1, FoundIs
    <3>2. list.contact \in Contacts
      BY <1>1, InBook
    <3>3. QED
      BY <3>1, <3>2 DEF Live, Contacts
  <2>4. listWrote' \in Nat
    BY <2>2, <2>3 DEF Persons, List!NoCard
  <2>5. listCall' \in CallType
    BY <2>2, <2>4 DEF CallType
  <2>6. Held'
    BY <2>2, <2>3 DEF Held
  <2>7. QED
    BY <2>2, <2>5, <2>6, ListStays, MenuIsCall DEF Owed
<1>3. CASE List!EditOther
  <2>1. PICK n : n = List!Found
    OBVIOUS
  <2>2. /\ n # NULL => listWrote' = list.contact[n].card
        /\ listCall.card # List!NoCard /\ ~clashed /\ ~starved =>
             n # NULL /\ list.contact[n].card = listCall.card
        /\ listCall \in CallType /\ listCall.place = "edit"
    BY <1>3, <2>1, FoundInDialogue DEF List!EditOther
  <2>3. /\ list' = list /\ listCall' = listCall /\ listAdded' = listAdded /\ listRemoved' = listRemoved
        /\ clashed' = clashed /\ starved' = starved
    BY <1>3 DEF List!EditOther
  <2>4. Held'
    BY <2>2, <2>3 DEF Held, History, List!Editing
  <2>5. QED
    BY <2>2, <2>3, <2>4, ListStays DEF Owed
<1>4. CASE List!EndEdit \/ List!Exit
  <2>1. /\ list' = list /\ listAdded' = listAdded /\ listRemoved' = listRemoved
        /\ clashed' = clashed /\ starved' = starved /\ listCall.place # "crashed"
    BY <1>4, MenuIsCall DEF List!EndEdit, List!Exit, List!Editing
  <2>2. listCall' \in CallType /\ listCall'.place # "edit"
    BY <1>4, MenuIsCall DEF List!EndEdit, List!Exit, CallType
  <2>3. Held'
    BY <2>2 DEF Held, List!Editing
  <2>4. QED
    BY <2>1, <2>2, <2>3, ListStays DEF Owed
<1>5. QED
  BY <1>2, <1>3, <1>4

\* A contact is taken out by letter l; it is added again, or lost.
LEMMA TakenOut ==
  ASSUME ListAssumption, History, List!Editing, List!Touched, NEW n, n = List!Found, n # NULL,
         NEW without, without = [List!Unlink(list, n) EXCEPT !.contact[n] = List!NoContact,
                                                        !.leaked = @ \cup {n}]
  PROVE  /\ \E t : Book(t, without)
         /\ without.contact \in Contacts
         /\ list.contact[n] \in Persons /\ list.contact[n].card \in Owed
         /\ Known(without.contact, Owed \ {list.contact[n].card})
         /\ There(list.contact, Owed) => There(without.contact, Owed \ {list.contact[n].card})
         /\ ~clashed => /\ Apart(without.contact)
                        /\ \A m \in Live(without.contact) : without.contact[m].id # list.contact[n].id
<1>1. PICK s : Book(s, list)
  BY DEF History
<1>2. n \in Live(list.contact) /\ list.contact \in Contacts
  BY <1>1, FoundInDialogue, InBook
<1>3. PICK k \in 1 .. Len(s) : n = s[k]
  BY <1>1, FoundIs DEF List!Found
<1>4. (\E t : Book(t, without)) /\ Empties(list.contact, n, without.contact)
  <2>1. PICK u : u = List!Unlink(list, n)
    OBVIOUS
  <2>2. Taken(list, s[k], u) /\ Gone(u, s[k], without)
    BY <1>3, <2>1 DEF Gone, Taken
  <2>3. (\E t : Book(t, without)) /\ Empties(list.contact, s[k], without.contact)
    BY <1>1, <2>2, RemoveIs
  <2>4. QED
    BY <1>3, <2>3
<1>5. without.contact \in Contacts
  BY <1>4, InBook
<1>6. list.contact[n] \in Persons /\ list.contact[n].card \in Owed
  BY <1>2 DEF Live, Contacts, Known, History
<1>7. PICK c : c = list.contact
  OBVIOUS
<1>8. PICK d : d = without.contact
  OBVIOUS
<1>9. /\ Known(c, Owed) => Known(d, Owed \ {c[n].card})
      /\ There(c, Owed) => There(d, Owed \ {c[n].card})
      /\ Apart(c) => Apart(d) /\ \A m \in Live(d) : d[m].id # c[n].id
  <2>1. c \in Contacts /\ n \in Live(c) /\ Empties(c, n, d)
    BY <1>2, <1>4, <1>7, <1>8
  <2>2. QED
    BY <2>1, Went
<1>10. Known(c, Owed) /\ (~clashed => Apart(c))
  BY <1>7 DEF History
<1>11. QED
  BY <1>4, <1>5, <1>6, <1>7, <1>8, <1>9, <1>10

\* The contact is back under its new name.
LEMMA PutBack ==
  ASSUME ListAssumption, History, List!Editing, List!Touched, NEW n, n = List!Found, n # NULL, NEW name \in Names,
         NEW without, without = [List!Unlink(list, n) EXCEPT !.contact[n] = List!NoContact,
                                                        !.leaked = @ \cup {n}],
         NEW c, c = [list.contact[n] EXCEPT !.name = name],
         \E t : Book(t, list'), NEW new, Comes(without, c, new, list'),
         listAdded' = listAdded, listRemoved' = listRemoved, listCall' = listCall, clashed => clashed',
         clashed' \/ Apart(list'.contact), starved' = starved
  PROVE  History' /\ (There(list.contact, Owed) => There(list.contact, Owed)')
<1>1. PICK p : p = list.contact[n]
  OBVIOUS
<1>2. PICK w : w = without.contact
  OBVIOUS
<1>3. /\ w \in Contacts /\ p \in Persons /\ p.card \in Owed
      /\ Known(w, Owed \ {p.card})
      /\ There(list.contact, Owed) => There(w, Owed \ {p.card})
  BY <1>1, <1>2, TakenOut
<1>4. c \in Persons /\ c.card = p.card /\ c.id = p.id
  BY <1>1, <1>3 DEF Persons
<1>5. PICK d : d = list'.contact
  OBVIOUS
<1>6. new \in Nodes /\ w[new] = List!NoContact /\ Fills(w, new, c, d)
  BY <1>2, <1>5 DEF Comes
<1>7. /\ Known(d, (Owed \ {p.card}) \cup {c.card})
      /\ There(w, Owed \ {p.card}) => There(d, (Owed \ {p.card}) \cup {c.card})
  BY <1>3, <1>4, <1>6, Came
<1>8. (Owed \ {p.card}) \cup {c.card} = Owed /\ Owed' = Owed
  BY <1>3, <1>4 DEF Owed
<1>9. Known(d, Owed') /\ (There(list.contact, Owed) => There(d, Owed'))
  BY <1>3, <1>7, <1>8
<1>10. Held'
  <2>1. SUFFICES ASSUME listCall.card # List!NoCard, ~clashed, ~starved
                 PROVE  listWrote' = listCall.card /\ \E m \in Live(d) : d[m].id = listCall.id /\ d[m].card = listCall.card
    BY <1>5 DEF Held
  <2>2. p.card = listCall.card /\ p.id = listCall.id /\ listWrote' = p.card
    BY <1>1, <2>1, FoundInDialogue
  <2>3. d[new] = c /\ new \in Live(d)
    BY <1>3, <1>4, <1>6 DEF Live, Contacts, Persons, List!NoContact, List!NoCard, Fills
  <2>4. QED
    BY <1>4, <2>2, <2>3
<1>11. ~clashed' => Apart(d)
  BY <1>5
<1>12. QED
  BY <1>5, <1>9, <1>10, <1>11 DEF History

\* It is lost.
LEMMA Lost ==
  ASSUME ListAssumption, History, List!Editing, List!Touched, NEW n, n = List!Found, n # NULL,
         NEW without, without = [List!Unlink(list, n) EXCEPT !.contact[n] = List!NoContact,
                                                        !.leaked = @ \cup {n}],
         list' = without, listAdded' = listAdded, listRemoved' = listRemoved, listCall' \in CallType,
         clashed => clashed', clashed' \/ starved' \/ listCall'.place # "edit"
  PROVE  History'
<1>1. /\ \E t : Book(t, list') 
      /\ Known(list'.contact, Owed \ {list.contact[n].card})
      /\ ~clashed => Apart(list'.contact)
  BY TakenOut
<1>2. Known(list'.contact, Owed')
  BY <1>1 DEF Known, Owed
<1>3. Held'
  BY DEF Held, List!Editing
<1>4. QED
  BY <1>1, <1>2, <1>3 DEF History

LEMMA EditLastNameStep ==
  ASSUME ListAssumption, ListInv, NEW name \in Names, List!EditLastName(name)
  PROVE  ListInv'
<1>1. /\ List!Editing /\ List!Touched /\ listCall' = listCall /\ listAdded' = listAdded /\ listRemoved' = listRemoved
  BY DEF List!EditLastName
<1>2. History /\ listCall \in CallType /\ Owed' = Owed
  BY <1>1 DEF ListInv, History, Owed
<1>3. PICK n : n = List!Found
  OBVIOUS
<1>4. CASE n = NULL
  <2>1. list' = list /\ starved' = starved /\ clashed' = clashed
    BY <1>3, <1>4 DEF List!EditLastName
  <2>2. Held'
    BY <1>1, <1>2, <1>3, <1>4, <2>1, FoundInDialogue DEF Held
  <2>3. History' /\ (There(list.contact, Owed) => There(list.contact, Owed)')
    BY <1>1, <1>2, <2>1, <2>2, ListStays
  <2>4. QED
    BY <2>1, <2>3 DEF ListInv
<1>5. CASE n # NULL
  <2>1. PICK without : without = [List!Unlink(list, n) EXCEPT !.contact[n] = List!NoContact,
                                                         !.leaked = @ \cup {n}]
    OBVIOUS
  <2>2. PICK c : c = [list.contact[n] EXCEPT !.name = name]
    OBVIOUS
  <2>3. List!Adding(without, c)
    BY <1>3, <1>5, <2>1, <2>2 DEF List!EditLastName
  <2>4. /\ \E t : Book(t, without)
        /\ list.contact[n] \in Persons
        /\ ~clashed => \A m \in Live(without.contact) : without.contact[m].id # list.contact[n].id
    BY <1>1, <1>2, <1>3, <1>5, <2>1, TakenOut
  <2>5. c \in Persons /\ c.id = list.contact[n].id
    BY <2>2, <2>4 DEF Persons
  <2>6. /\ \E t : Book(t, list')
        /\ clashed' = (clashed \/ ~Apart(list'.contact))
        /\ \/ (\E new : Comes(without, c, new, list')) /\ starved' = starved
           \/ list' = without /\ \E m \in Live(without.contact) : without.contact[m].id = c.id
           \/ list' = without /\ starved'
    BY <2>3, <2>4, <2>5, AddingDoes
  <2>7. (clashed => clashed') /\ (clashed' \/ Apart(list'.contact))
    BY <2>6
  <2>8. CASE (\E new : Comes(without, c, new, list')) /\ starved' = starved
    <3>1. History' /\ (There(list.contact, Owed) => There(list.contact, Owed)')
      BY <1>1, <1>2, <1>3, <1>5, <2>1, <2>2, <2>6, <2>7, <2>8, PutBack
    <3>2. starved => starved'
      BY <2>8
    <3>3. QED
      BY <2>7, <3>1, <3>2 DEF ListInv
  <2>9. CASE list' = without /\ (clashed' \/ starved')
    <3>1. History'
      BY <1>1, <1>2, <1>3, <1>5, <2>1, <2>7, <2>9, Lost
    <3>2. QED
      BY <2>9, <3>1 DEF ListInv
  <2>10. (\E m \in Live(without.contact) : without.contact[m].id = c.id) => clashed'
    BY <2>4, <2>5, <2>7
  <2>11. QED
    BY <2>6, <2>8, <2>9, <2>10
<1>6. QED
  BY <1>4, <1>5

LEMMA PlainEditLastNameStep ==
  ASSUME ListAssumption, PlainInv, NEW name \in Names, List!PlainEditLastName(name)
  PROVE  PlainInv'
<1>1. /\ List!Editing /\ List!Touched /\ listAdded' = listAdded /\ listRemoved' = listRemoved /\ clashed' = clashed
  BY DEF List!PlainEditLastName
<1>2. History /\ listCall \in CallType /\ Owed' = Owed /\ listCall.place # "crashed"
  BY <1>1 DEF PlainInv, History, Owed, List!Editing
<1>3. PICK n : n = List!Found
  OBVIOUS
<1>4. CASE n = NULL
  <2>1. list' = list /\ starved' = starved /\ listCall' = listCall
    BY <1>3, <1>4 DEF List!PlainEditLastName
  <2>2. Held'
    BY <1>1, <1>2, <1>3, <1>4, <2>1, FoundInDialogue DEF Held
  <2>3. History' /\ (There(list.contact, Owed) => There(list.contact, Owed)')
    BY <1>1, <1>2, <2>1, <2>2, ListStays
  <2>4. QED
    BY <1>2, <2>3 DEF PlainInv
<1>5. CASE n # NULL
  <2>1. PICK without : without = [List!Unlink(list, n) EXCEPT !.contact[n] = List!NoContact,
                                                         !.leaked = @ \cup {n}]
    OBVIOUS
  <2>2. PICK c : c = [list.contact[n] EXCEPT !.name = name]
    OBVIOUS
  <2>3. List!PlainAdding(without, c)
    BY <1>3, <1>5, <2>1, <2>2 DEF List!PlainEditLastName
  <2>4. /\ \E t : Book(t, without)
        /\ list.contact[n] \in Persons /\ without.contact \in Contacts
        /\ ~clashed => /\ Apart(without.contact)
                       /\ \A m \in Live(without.contact) : without.contact[m].id # list.contact[n].id
    BY <1>1, <1>2, <1>3, <1>5, <2>1, TakenOut
  <2>5. c \in Persons /\ c.id = list.contact[n].id
    BY <2>2, <2>4 DEF Persons
  <2>6. /\ \E t : Book(t, list')
        /\ \/ (\E new : Comes(without, c, new, list')) /\ starved' = starved /\ listCall' = listCall
           \/ list' = without /\ listCall' = [List!Menu EXCEPT !.place = "crashed"]
    BY <2>3, <2>4, <2>5, PlainAddingDoes
  <2>7. CASE (\E new : Comes(without, c, new, list')) /\ starved' = starved /\ listCall' = listCall
    <3>1. PICK new : Comes(without, c, new, list')
      BY <2>7
    <3>2. PICK w : w = without.contact
      OBVIOUS
    <3>3. PICK d : d = list'.contact
      OBVIOUS
    <3>4. new \in Nodes /\ w[new] = List!NoContact /\ Fills(w, new, c, d) /\ w \in Contacts
      BY <2>4, <3>1, <3>2, <3>3 DEF Comes
    <3>6. Apart(w) /\ (\A m \in Live(w) : w[m].id # c.id) => Apart(d)
      BY <2>5, <3>4, Filled
    <3>7. clashed' \/ Apart(list'.contact)
      BY <1>1, <2>4, <2>5, <3>2, <3>3, <3>6
    <3>8. History' /\ (There(list.contact, Owed) => There(list.contact, Owed)')
      BY <1>1, <1>2, <1>3, <1>5, <2>1, <2>2, <2>6, <2>7, <3>7, PutBack
    <3>9. QED
      BY <1>2, <3>8 DEF PlainInv
  <2>8. CASE list' = without /\ listCall' = [List!Menu EXCEPT !.place = "crashed"]
    <3>1. listCall' \in CallType /\ listCall'.place = "crashed"
      BY <2>8, MenuIsCall DEF CallType
    <3>2. History'
      BY <1>1, <1>2, <1>3, <1>5, <2>1, <2>8, <3>1, Lost
    <3>3. QED
      BY <3>1, <3>2 DEF PlainInv
  <2>9. QED
    BY <2>6, <2>7, <2>8
<1>6. QED
  BY <1>4, <1>5

\* What the invariant says of the properties.
LEMMA Ordered ==
  ASSUME ListAssumption, History
  PROVE  List!InOrder /\ List!EditSticks
<1>1. PICK s : Book(s, list)
  BY DEF History
<1>2. List!Chain(list) = s /\ DOMAIN s = 1 .. Len(s) /\ Distinct(s) /\ Len(s) \in Nat
  BY <1>1, BookFacts
<1>3. List!IsInjective(s)
  BY <1>2 DEF List!IsInjective, Distinct
<1>4. \A k \in DOMAIN s : list.prev[s[k]] = IF k = 1 THEN NULL ELSE s[k - 1]
  BY <1>1, <1>2 DEF Book, LinkedAs, BackwardIs
<1>5. \A k \in 1 .. Len(s) - 1 : list.contact[s[k]].name <= list.contact[s[k + 1]].name
  <2>1. \A k \in 1 .. Len(s) - 1 : k \in 1 .. Len(s) /\ k + 1 \in 1 .. Len(s) /\ k < k + 1
    BY <1>2
  <2>2. QED
    BY <1>1, <2>1 DEF Book, Sorted
<1>6. List!InOrder
  BY <1>2, <1>3, <1>4, <1>5 DEF List!InOrder
<1>7. List!EditSticks
  BY DEF List!EditSticks, History, Held
<1>8. QED
  BY <1>6, <1>7

LEMMA OnListIs ==
  ASSUME ListAssumption, History, NEW card \in 1 .. listAdded
  PROVE  /\ Cardinality(List!OnList(card)) <= 1
         /\ card \in listRemoved => List!OnList(card) = {}
         /\ There(list.contact, Owed) /\ List!OnList(card) = {} => card \in listRemoved
<1>1. PICK s : Book(s, list)
  BY DEF History
<1>2. List!Chain(list) = s /\ Live(list.contact) = List!Range(s)
  BY <1>1, BookFacts, InBook
<1>3. List!OnList(card) = {n \in Live(list.contact) : list.contact[n].card = card}
  BY <1>2 DEF List!OnList
<1>4. Cardinality(List!OnList(card)) <= 1
  <2>1. CASE List!OnList(card) = {}
    BY <2>1, FS_EmptySet
  <2>2. CASE List!OnList(card) # {}
    <3>1. PICK n : n \in List!OnList(card)
      BY <2>2
    <3>2. List!OnList(card) = {n}
      BY <1>3, <3>1 DEF History, Known
    <3>3. Cardinality({n}) = 1
      BY FS_Singleton
    <3>4. QED
      BY <3>2, <3>3
  <2>3. QED
    BY <2>1, <2>2
<1>5. card \in listRemoved => List!OnList(card) = {}
  BY <1>3 DEF History, Known, Owed
<1>6. There(list.contact, Owed) /\ List!OnList(card) = {} => card \in listRemoved
  BY <1>3 DEF There, Owed
<1>7. QED
  BY <1>4, <1>5, <1>6

LEMMA NoneLost ==
  ASSUME ListAssumption
  PROVE  (ListInv => List!Kept) /\ (PlainInv => List!PlainKept)
BY OnListIs, SameCount DEF ListInv, PlainInv, List!Kept, List!PlainKept

-----------------------------------------------------------------------------
(* The array.                                                              *)

BookAssumption == InitSize \in Nat \ {0} /\ Names \subseteq Int

Entries == [id : Ids, name : Names, card : Nat]

\* No two places hold the same contact, no two the same id.
CardsApart(b) == \A x, j \in 1 .. Len(b) : b[x].card = b[j].card => x = j
IdsApart(b) == \A x, j \in 1 .. Len(b) : b[x].id = b[j].id => x = j
InNameOrder(b) == \A x \in 1 .. Len(b) - 1 : b[x].name <= b[x + 1].name

\* What the operations need of each other: contacts are known by their cards, and a dialogue
\* has a place in the book.
BInv ==
  /\ book \in Seq(Entries) /\ arrayAdded \in Nat /\ arrayRemoved \subseteq 1 .. arrayAdded
  /\ inits \in Nat /\ capacity \in Nat /\ Array!RoomForAll /\ (inits = 0 => book = <<>>)
  /\ CardsApart(book) /\ InNameOrder(book) /\ Array!CardsOf(book) = 1 .. arrayAdded \ arrayRemoved
  /\ Array!Editing => arrayCall.idx \in 1 .. Len(book)
  /\ ~atFirst => IdsApart(book)

-----------------------------------------------------------------------------
(* Books.                                                                  *)

\* qsort moves contacts; it loses none and makes none.
LEMMA SortKeeps ==
  ASSUME NEW b \in Seq(Entries), CardsApart(b), NEW s \in Array!SortedOf(b)
  PROVE  /\ s \in Seq(Entries) /\ Len(s) = Len(b)
         /\ CardsApart(s) /\ InNameOrder(s) /\ Array!CardsOf(s) = Array!CardsOf(b)
         /\ IdsApart(b) => IdsApart(s)
<1>1. PICK n \in Nat : n = Len(b)
  BY LenProperties
<1>2. DOMAIN b = 1 .. n /\ b \in [1 .. n -> Entries]
  BY <1>1, LenProperties
<1>3. PICK R : R = Array!Range(b)
  OBVIOUS
<1>4. R = {b[x] : x \in 1 .. n} /\ R \subseteq Entries
  BY <1>2, <1>3 DEF Array!Range
<1>5. s \in [1 .. n -> R] /\ Array!Range(s) = R /\ \A x \in 1 .. Len(b) - 1 : s[x].name <= s[x + 1].name
  BY <1>2, <1>3 DEF Array!SortedOf
<1>6. s \in Seq(Entries) /\ Len(s) = n
  <2>1. s \in [1 .. n -> Entries]
    BY <1>4, <1>5
  <2>2. QED
    BY <2>1, SeqDef, LenProperties
<1>7. IsFiniteSet(1 .. n) /\ Cardinality(1 .. n) = n
  BY FS_Interval
<1>8. b \in Injection(1 .. n, R) /\ b \in Surjection(1 .. n, R)
  <2>1. b \in [1 .. n -> R]
    BY <1>2, <1>4
  <2>2. \A x, j \in 1 .. n : b[x] = b[j] => x = j
    BY <1>1 DEF CardsApart
  <2>3. QED
    BY <1>4, <2>1, <2>2 DEF Injection, Surjection, IsInjective
<1>9. Cardinality(R) = n
  BY <1>7, <1>8, FS_Surjection
<1>10. s \in Surjection(1 .. n, R)
  BY <1>5 DEF Surjection, Array!Range
<1>11. s \in Injection(1 .. n, R)
  BY <1>7, <1>9, <1>10, FS_SurjSameCardinalityImpliesInj
<1>12. \A x, j \in 1 .. n : s[x] = s[j] => x = j
  BY <1>11 DEF Injection, IsInjective
<1>13. \A x \in 1 .. n : \E k \in 1 .. n : s[x] = b[k]
  BY <1>4, <1>5
<1>14. \A k \in 1 .. n : \E x \in 1 .. n : s[x] = b[k]
  BY <1>4, <1>5 DEF Array!Range
<1>15. CardsApart(s)
  <2>1. SUFFICES ASSUME NEW x \in 1 .. n, NEW j \in 1 .. n, s[x].card = s[j].card PROVE x = j
    BY <1>6 DEF CardsApart
  <2>2. PICK k \in 1 .. n : s[x] = b[k]
    BY <1>13
  <2>3. PICK l \in 1 .. n : s[j] = b[l]
    BY <1>13
  <2>4. k = l
    BY <1>1, <2>1, <2>2, <2>3 DEF CardsApart
  <2>5. QED
    BY <1>12, <2>2, <2>3, <2>4
<1>16. IdsApart(b) => IdsApart(s)
  <2>1. SUFFICES ASSUME IdsApart(b), NEW x \in 1 .. n, NEW j \in 1 .. n, s[x].id = s[j].id
                 PROVE x = j
    BY <1>6 DEF IdsApart
  <2>2. PICK k \in 1 .. n : s[x] = b[k]
    BY <1>13
  <2>3. PICK l \in 1 .. n : s[j] = b[l]
    BY <1>13
  <2>4. k = l
    BY <1>1, <2>1, <2>2, <2>3 DEF IdsApart
  <2>5. QED
    BY <1>12, <2>2, <2>3, <2>4
<1>17. Array!CardsOf(s) = Array!CardsOf(b)
  <2>1. DOMAIN s = 1 .. n
    BY <1>5
  <2>2. Array!CardsOf(s) \subseteq Array!CardsOf(b)
    <3>1. SUFFICES ASSUME NEW x \in 1 .. n PROVE s[x].card \in Array!CardsOf(b)
      BY <2>1 DEF Array!CardsOf
    <3>2. PICK k \in 1 .. n : s[x] = b[k]
      BY <1>13
    <3>3. QED
      BY <1>2, <3>2 DEF Array!CardsOf
  <2>3. Array!CardsOf(b) \subseteq Array!CardsOf(s)
    BY <1>2, <1>14, <2>1 DEF Array!CardsOf
  <2>4. QED
    BY <2>2, <2>3
<1>18. InNameOrder(s)
  BY <1>1, <1>5, <1>6 DEF InNameOrder
<1>19. QED
  BY <1>1, <1>6, <1>15, <1>16, <1>17, <1>18

\* What getIndex finds, and what it is sure not to have overlooked.
LEMMA IndexFound ==
  ASSUME book \in Seq(Entries), NEW id
  PROVE  \/ Array!GetIndex(id) = 0 /\ \A x \in 1 .. Len(book) : book[x].id # id
         \/ Array!GetIndex(id) \in 1 .. Len(book) /\ book[Array!GetIndex(id)].id = id
<1>1. PICK I : I = {x \in 1 .. Len(book) : book[x].id = id}
  OBVIOUS
<1>2. Array!GetIndex(id) = IF I # {} THEN Array!Min(I) ELSE 0
  BY <1>1 DEF Array!GetIndex, Array!SelectInSeq
<1>3. I \subseteq Nat
  BY <1>1, LenProperties
<1>4. CASE I = {}
  BY <1>1, <1>2, <1>4
<1>5. CASE I # {}
  <2>1. Array!Min(I) \in I
    BY <1>3, <1>5, MinIsLeast
  <2>2. QED
    BY <1>1, <1>2, <1>5, <2>1
<1>6. QED
  BY <1>4, <1>5

\* The contact at the end takes the place of the deleted one.
LEMMA DeleteOne ==
  ASSUME book \in Seq(Entries), NEW k \in 1 .. Len(book), CardsApart(book)
  PROVE  /\ Array!Delete(k) \in Seq(Entries) /\ Len(Array!Delete(k)) = Len(book) - 1 /\ CardsApart(Array!Delete(k))
         /\ Array!CardsOf(Array!Delete(k)) = Array!CardsOf(book) \ {book[k].card}
         /\ IdsApart(book) => IdsApart(Array!Delete(k))
<1>1. PICK b \in Seq(Entries) : b = book
  OBVIOUS
<1>2. PICK n \in Nat : n = Len(b)
  BY LenProperties
<1>3. DOMAIN b = 1 .. n /\ \A x \in 1 .. n : b[x] \in Entries
  BY <1>2, LenProperties, ElementOfSeq
<1>4. k \in 1 .. n
  BY <1>1, <1>2
<1>5. PICK e : e = [b EXCEPT ![k] = b[n]]
  OBVIOUS
<1>6. e \in Seq(Entries) /\ Len(e) = n /\ \A x \in 1 .. n : e[x] = IF x = k THEN b[n] ELSE b[x]
  <2>1. b[n] \in Entries
    BY <1>3, <1>4
  <2>2. e \in [1 .. n -> Entries] /\ \A x \in 1 .. n : e[x] = IF x = k THEN b[n] ELSE b[x]
    BY <1>3, <1>5, <2>1, LenProperties
  <2>3. QED
    BY <2>2, SeqDef, LenProperties
<1>7. PICK d : d = SubSeq(e, 1, n - 1)
  OBVIOUS
<1>8. /\ d \in Seq(Entries) /\ Len(d) = n - 1
      /\ \A x \in 1 .. n - 1 : d[x] = IF x = k THEN b[n] ELSE b[x]
  <2>1. \A x \in 1 .. n - 1 : e[x] \in Entries
    BY <1>6, ElementOfSeq
  <2>2. /\ d \in Seq(Entries) /\ Len(d) = (IF 1 <= n - 1 THEN n - 1 - 1 + 1 ELSE 0)
        /\ \A x \in 1 .. n - 1 - 1 + 1 : d[x] = e[1 + x - 1]
    <3>1. 1 \in Int /\ n - 1 \in Int
      OBVIOUS
    <3>2. QED
      BY <1>7, <2>1, <3>1, SubSeqProperties
  <2>3. Len(d) = n - 1
    BY <1>4, <2>2
  <2>4. ASSUME NEW x \in 1 .. n - 1 PROVE d[x] = IF x = k THEN b[n] ELSE b[x]
    <3>1. x \in 1 .. n - 1 - 1 + 1 /\ 1 + x - 1 = x /\ x \in 1 .. n
      OBVIOUS
    <3>2. d[x] = e[x]
      BY <2>2, <3>1
    <3>3. QED
      BY <1>6, <3>1, <3>2
  <2>5. QED
    BY <2>2, <2>3, <2>4
<1>9. Array!Delete(k) = d
  BY <1>1, <1>2, <1>5, <1>7 DEF Array!Delete, Array!Last
<1>10. \A x, j \in 1 .. n : b[x].card = b[j].card => x = j
  BY <1>1, <1>2 DEF CardsApart
<1>11. CardsApart(d)
  BY <1>4, <1>8, <1>10 DEF CardsApart
<1>12. IdsApart(b) => IdsApart(d)
  BY <1>2, <1>4, <1>8 DEF IdsApart
<1>13. Array!CardsOf(d) = Array!CardsOf(b) \ {b[k].card}
  <2>1. DOMAIN d = 1 .. n - 1
    BY <1>8, LenProperties
  <2>2. ASSUME NEW c \in Array!CardsOf(d) PROVE c \in Array!CardsOf(b) \ {b[k].card}
    <3>1. PICK x \in 1 .. n - 1 : c = d[x].card
      BY <2>1, <2>2 DEF Array!CardsOf
    <3>2. PICK j \in 1 .. n : d[x] = b[j] /\ j # k
      BY <1>4, <1>8, <3>1
    <3>3. QED
      BY <1>3, <1>4, <1>10, <3>1, <3>2 DEF Array!CardsOf
  <2>3. ASSUME NEW c \in Array!CardsOf(b), c # b[k].card PROVE c \in Array!CardsOf(d)
    <3>1. PICK j \in 1 .. n : c = b[j].card /\ j # k
      BY <1>3, <2>3 DEF Array!CardsOf
    <3>2. \E x \in 1 .. n - 1 : d[x] = b[j]
      <4>1. CASE j = n
        BY <1>4, <1>8, <3>1, <4>1
      <4>2. CASE j # n
        BY <1>8, <3>1, <4>2
      <4>3. QED
        BY <4>1, <4>2
    <3>3. QED
      BY <2>1, <3>1, <3>2 DEF Array!CardsOf
  <2>4. QED
    BY <2>2, <2>3
<1>14. QED
  BY <1>1, <1>2, <1>8, <1>9, <1>11, <1>12, <1>13

\* A contact that is edited keeps its card.
LEMMA ReplaceOne ==
  ASSUME NEW b \in Seq(Entries), NEW k \in 1 .. Len(b), NEW c \in Entries, c.card = b[k].card,
         CardsApart(b)
  PROVE  LET e == [b EXCEPT ![k] = c]
         IN  /\ e \in Seq(Entries) /\ Len(e) = Len(b) /\ CardsApart(e) /\ Array!CardsOf(e) = Array!CardsOf(b)
             /\ IdsApart(b) /\ (\A x \in 1 .. Len(b) : b[x].id = c.id => x = k) => IdsApart(e)
<1>1. PICK n \in Nat : n = Len(b)
  BY LenProperties
<1>2. DOMAIN b = 1 .. n /\ b \in [1 .. n -> Entries] /\ k \in 1 .. n
  BY <1>1, LenProperties
<1>3. PICK e : e = [b EXCEPT ![k] = c]
  OBVIOUS
<1>4. e \in [1 .. n -> Entries] /\ \A x \in 1 .. n : e[x] = IF x = k THEN c ELSE b[x]
  BY <1>2, <1>3
<1>5. e \in Seq(Entries) /\ Len(e) = n /\ DOMAIN e = 1 .. n
  BY <1>4, SeqDef, LenProperties
<1>6. \A x \in 1 .. n : e[x].card = b[x].card
  BY <1>4
<1>7. CardsApart(e)
  BY <1>1, <1>5, <1>6 DEF CardsApart
<1>8. Array!CardsOf(e) = Array!CardsOf(b)
  BY <1>2, <1>5, <1>6 DEF Array!CardsOf
<1>9. IdsApart(b) /\ (\A x \in 1 .. n : b[x].id = c.id => x = k) => IdsApart(e)
  BY <1>1, <1>2, <1>4, <1>5 DEF IdsApart
<1>10. QED
  BY <1>1, <1>3, <1>5, <1>7, <1>8, <1>9

LEMMA AppendOne ==
  ASSUME NEW b \in Seq(Entries), NEW c \in Entries, c.card \notin Array!CardsOf(b), CardsApart(b)
  PROVE  LET e == Append(b, c)
         IN  /\ e \in Seq(Entries) /\ Len(e) = Len(b) + 1 /\ CardsApart(e)
             /\ Array!CardsOf(e) = Array!CardsOf(b) \cup {c.card}
             /\ IdsApart(b) /\ (\A x \in 1 .. Len(b) : b[x].id # c.id) => IdsApart(e)
<1>1. PICK n \in Nat : n = Len(b)
  BY LenProperties
<1>2. PICK e : e = Append(b, c)
  OBVIOUS
<1>3. /\ e \in Seq(Entries) /\ Len(e) = n + 1
      /\ (\A x \in 1 .. n : e[x] = b[x]) /\ e[n + 1] = c
  BY <1>1, <1>2, AppendProperties
<1>4. DOMAIN b = 1 .. n /\ DOMAIN e = 1 .. n + 1
  BY <1>1, <1>3, LenProperties
<1>5. \A x \in 1 .. n : b[x].card # c.card
  BY <1>4 DEF Array!CardsOf
<1>6. CardsApart(e)
  BY <1>1, <1>3, <1>5 DEF CardsApart
<1>7. Array!CardsOf(e) = Array!CardsOf(b) \cup {c.card}
  <2>1. Array!CardsOf(e) \subseteq Array!CardsOf(b) \cup {c.card}
    BY <1>3, <1>4 DEF Array!CardsOf
  <2>2. Array!CardsOf(b) \cup {c.card} \subseteq Array!CardsOf(e)
    BY <1>3, <1>4 DEF Array!CardsOf
  <2>3. QED
    BY <2>1, <2>2
<1>8. IdsApart(b) /\ (\A x \in 1 .. n : b[x].id # c.id) => IdsApart(e)
  BY <1>1, <1>3 DEF IdsApart
<1>9. QED
  BY <1>1, <1>2, <1>3, <1>6, <1>7, <1>8

-----------------------------------------------------------------------------
(* The operations.                                                         *)

LEMMA AddKeeps ==
  ASSUME BookAssumption, BInv, NEW id \in Ids, NEW name \in Names, Array!Add(id, name),
         ~Array!Editing, ~Array!Editing'
  PROVE  BInv'
<1>1. PICK b \in Seq(Entries) : b = book
  BY DEF BInv
<1>2. PICK c \in Entries : c = [id |-> id, name |-> name, card |-> arrayAdded + 1]
  <2>1. arrayAdded + 1 \in Nat
    BY DEF BInv
  <2>2. QED
    BY <2>1 DEF Entries
<1>3. \A x \in 1 .. Len(b) : b[x].id # c.id
  <2>1. Array!GetIndex(id) = 0
    BY DEF Array!Add
  <2>2. Len(book) \in Nat
    BY LenProperties DEF BInv
  <2>3. QED
    BY <1>1, <1>2, <2>1, <2>2, IndexFound DEF BInv
<1>4. c.card \notin Array!CardsOf(b) /\ CardsApart(b) /\ arrayAdded \in Nat /\ c.card = arrayAdded + 1
  BY <1>1, <1>2 DEF BInv
<1>5. PICK e : e = Append(b, c)
  OBVIOUS
<1>6. /\ e \in Seq(Entries) /\ Len(e) = Len(b) + 1 /\ CardsApart(e)
      /\ Array!CardsOf(e) = Array!CardsOf(b) \cup {c.card} /\ (IdsApart(b) => IdsApart(e))
  BY <1>3, <1>4, <1>5, AppendOne
<1>7. PICK s \in Array!SortedOf(e) : s = book'
  BY <1>1, <1>2, <1>5 DEF Array!Add
<1>8. /\ s \in Seq(Entries) /\ Len(s) = Len(e) /\ CardsApart(s) /\ InNameOrder(s)
      /\ Array!CardsOf(s) = Array!CardsOf(e) /\ (IdsApart(e) => IdsApart(s))
  BY <1>6, SortKeeps
<1>9. /\ arrayAdded' = arrayAdded + 1 /\ inits > 0
      /\ UNCHANGED <<inits, arrayRemoved, atFirst>>
      /\ capacity' = IF Len(book) >= capacity THEN capacity * 2 ELSE capacity
  BY DEF Array!Add
<1>10. Array!CardsOf(book)' = 1 .. arrayAdded' \ arrayRemoved'
  <2>1. Array!CardsOf(book)' = (1 .. arrayAdded \ arrayRemoved) \cup {arrayAdded + 1}
    BY <1>1, <1>4, <1>6, <1>7, <1>8 DEF BInv
  <2>2. arrayRemoved \subseteq 1 .. arrayAdded /\ arrayAdded \in Nat
    BY DEF BInv
  <2>3. QED
    BY <1>9, <2>1, <2>2
<1>11. capacity' \in Nat /\ Len(book') <= capacity' /\ capacity' >= InitSize
  <2>1. /\ capacity \in Nat /\ Len(book) <= capacity /\ capacity >= InitSize /\ Len(book) \in Nat
        /\ InitSize \in Nat /\ InitSize > 0
    BY <1>9, LenProperties DEF BInv, Array!RoomForAll, BookAssumption
  <2>2. Len(book') = Len(book) + 1
    BY <1>1, <1>6, <1>7, <1>8
  <2>3. QED
    BY <1>9, <2>1, <2>2
<1>12. QED
  BY <1>1, <1>6, <1>7, <1>8, <1>9, <1>10, <1>11 DEF BInv, Array!RoomForAll

LEMMA DeleteKeeps ==
  ASSUME BookAssumption, BInv, NEW id \in Ids, Array!HandleDelContact(id)
  PROVE  BInv'
<1>1. PICK k \in 1 .. Len(book) : k = Array!GetIndex(id)
  BY IndexFound DEF BInv, Array!HandleDelContact
<1>2. PICK d : d = Array!Delete(k)
  OBVIOUS
<1>3. /\ d \in Seq(Entries) /\ Len(d) = Len(book) - 1 /\ CardsApart(d)
      /\ Array!CardsOf(d) = Array!CardsOf(book) \ {book[k].card} /\ (IdsApart(book) => IdsApart(d))
  BY <1>2, DeleteOne DEF BInv
<1>4. PICK s \in Array!SortedOf(d) : s = book'
  BY <1>1, <1>2 DEF Array!HandleDelContact
<1>5. /\ s \in Seq(Entries) /\ Len(s) = Len(d) /\ CardsApart(s) /\ InNameOrder(s)
      /\ Array!CardsOf(s) = Array!CardsOf(d) /\ (IdsApart(d) => IdsApart(s))
  BY <1>3, SortKeeps
<1>6. /\ arrayRemoved' = arrayRemoved \cup {book[k].card} /\ capacity' = Array!Shrunk(Len(book) - 1)
      /\ UNCHANGED <<inits, arrayCall, arrayAdded, atFirst>> /\ ~Array!Editing
  BY <1>1 DEF Array!HandleDelContact, Array!Editing, Array!Menu
<1>7. book[k].card \in Array!CardsOf(book)
  <2>1. DOMAIN book = 1 .. Len(book)
    BY LenProperties DEF BInv
  <2>2. QED
    BY <1>1, <2>1 DEF Array!CardsOf
<1>8. Len(book) \in Nat /\ Len(book) >= 1 /\ inits # 0
  <2>1. Len(book) \in Nat /\ Len(book) >= 1
    BY <1>1, LenProperties DEF BInv
  <2>2. QED
    BY <2>1 DEF BInv
<1>9. capacity' \in Nat /\ Len(book') <= capacity' /\ capacity' >= InitSize
  <2>1. /\ capacity \in Nat /\ Len(book) <= capacity /\ capacity >= InitSize /\ InitSize \in Nat
    BY <1>8 DEF BInv, Array!RoomForAll, BookAssumption
  <2>2. Len(book') = Len(book) - 1
    BY <1>3, <1>4, <1>5
  <2>3. PICK n \in Nat : n = Len(book) - 1
    <3>1. \A length \in Nat : length >= 1 => length - 1 \in Nat
      OBVIOUS
    <3>2. Len(book) - 1 \in Nat
      BY <1>8, <3>1, Zenon
    <3>3. QED
      BY <3>2, Zenon
  <2>4. capacity' \in Nat /\ n <= capacity' /\ capacity' >= InitSize
    BY <1>6, <1>8, <2>1, <2>3 DEF Array!Shrunk
  <2>5. QED
    BY <2>2, <2>3, <2>4
<1>10. Array!CardsOf(book)' = 1 .. arrayAdded' \ arrayRemoved' /\ arrayRemoved' \subseteq 1 .. arrayAdded'
  BY <1>3, <1>4, <1>5, <1>6, <1>7 DEF BInv
<1>11. QED
  BY <1>3, <1>4, <1>5, <1>6, <1>8, <1>9, <1>10 DEF BInv, Array!RoomForAll, Array!Editing

\* A letter of the dialogue, with what it makes of the contact.
LEMMA EditKeeps ==
  ASSUME BookAssumption, BInv, Array!Editing, NEW new \in Entries, Array!EditContact(new),
         new.card = book[arrayCall.idx].card, atFirst => atFirst',
         ~atFirst' => \A x \in 1 .. Len(book) : book[x].id = new.id => x = arrayCall.idx
  PROVE  BInv'
<1>1. PICK b \in Seq(Entries) : b = book
  BY DEF BInv
<1>2. PICK k \in 1 .. Len(b) : k = arrayCall.idx
  BY <1>1 DEF BInv
<1>3. PICK e : e = [b EXCEPT ![k] = new]
  OBVIOUS
<1>4. /\ e \in Seq(Entries) /\ Len(e) = Len(b) /\ CardsApart(e) /\ Array!CardsOf(e) = Array!CardsOf(b)
      /\ IdsApart(b) /\ (\A x \in 1 .. Len(b) : b[x].id = new.id => x = k) => IdsApart(e)
  <2>1. new.card = b[k].card /\ CardsApart(b)
    BY <1>1, <1>2 DEF BInv
  <2>2. QED
    BY <1>3, <2>1, ReplaceOne
<1>5. PICK s \in Array!SortedOf(e) : s = book'
  BY <1>1, <1>2, <1>3 DEF Array!EditContact
<1>6. /\ s \in Seq(Entries) /\ Len(s) = Len(e) /\ CardsApart(s) /\ InNameOrder(s)
      /\ Array!CardsOf(s) = Array!CardsOf(e) /\ (IdsApart(e) => IdsApart(s))
  BY <1>4, SortKeeps
<1>7. UNCHANGED <<inits, capacity, arrayCall, arrayAdded, arrayRemoved>>
  BY DEF Array!EditContact
<1>8. ~atFirst' => IdsApart(book')
  BY <1>1, <1>2, <1>4, <1>5, <1>6 DEF BInv
<1>9. inits # 0
  <2>1. Len(book) >= 1
    BY <1>1, <1>2, LenProperties
  <2>2. QED
    BY <2>1 DEF BInv
<1>10. QED
  BY <1>1, <1>2, <1>4, <1>5, <1>6, <1>7, <1>8, <1>9 DEF BInv, Array!RoomForAll, Array!Editing

LEMMA LetterKeeps ==
  ASSUME BookAssumption, BInv,
         (\E id \in Ids : Array!EditId(id)) \/ (\E name \in Names : Array!EditName(name)) \/ Array!EditOther
  PROVE  BInv'
<1>1. Array!Editing /\ arrayCall.idx \in 1 .. Len(book)
  BY DEF BInv, Array!EditId, Array!EditName, Array!EditOther
<1>2. PICK old \in Entries : old = book[arrayCall.idx]
  BY <1>1, ElementOfSeq DEF BInv
<1>3. ASSUME NEW id \in Ids, Array!EditId(id) PROVE BInv'
  <2>1. PICK new \in Entries : new = [old EXCEPT !.id = id]
    BY DEF Entries
  <2>2. Array!EditContact(new) /\ atFirst' = (atFirst \/ (Array!GetIndex(id) = 1 /\ arrayCall.idx # 1))
    BY <1>2, <1>3, <2>1 DEF Array!EditId
  <2>3. new.card = old.card /\ new.id = id
    BY <2>1 DEF Entries
  <2>4. ASSUME ~atFirst', NEW x \in 1 .. Len(book), book[x].id = id PROVE x = arrayCall.idx
    <3>1. Len(book) \in Nat
      BY LenProperties DEF BInv
    <3>2. Array!GetIndex(id) = 1 /\ book[1].id = id
      BY <1>3, <2>4, <3>1, IndexFound DEF Array!EditId, BInv
    <3>3. arrayCall.idx = 1 /\ IdsApart(book)
      BY <2>2, <2>4, <3>2 DEF BInv
    <3>4. QED
      BY <2>4, <3>1, <3>2, <3>3 DEF IdsApart
  <2>5. QED
    BY <1>1, <1>2, <2>2, <2>3, <2>4, EditKeeps
<1>4. ASSUME NEW new \in Entries, Array!EditContact(new), new.card = old.card, new.id = old.id,
             atFirst' = atFirst
      PROVE  BInv'
  <2>1. ~atFirst' => \A x \in 1 .. Len(book) : book[x].id = new.id => x = arrayCall.idx
    BY <1>1, <1>2, <1>4 DEF BInv, IdsApart
  <2>2. QED
    BY <1>1, <1>2, <1>4, <2>1, EditKeeps
<1>5. ASSUME NEW name \in Names, Array!EditName(name) PROVE BInv'
  <2>1. PICK new \in Entries : new = [old EXCEPT !.name = name]
    BY DEF Entries
  <2>2. new.card = old.card /\ new.id = old.id
    BY <2>1 DEF Entries
  <2>3. Array!EditContact(new) /\ atFirst' = atFirst
    BY <1>2, <1>5, <2>1 DEF Array!EditName
  <2>4. QED
    BY <1>4, <2>2, <2>3
<1>6. CASE Array!EditOther
  <2>1. Array!EditContact(old) /\ atFirst' = atFirst
    BY <1>2, <1>6 DEF Array!EditOther
  <2>2. QED
    BY <1>4, <2>1
<1>7. QED
  BY <1>3, <1>5, <1>6

LEMMA BInvStep ==
  ASSUME BookAssumption, BInv, [Array!Next]_(Array!vars)
  PROVE  BInv'
<1>1. CASE Array!InitPhoneBook
  <2>1. /\ book' = <<>> /\ capacity' = InitSize /\ arrayRemoved' = arrayRemoved \cup Array!CardsOf(book)
        /\ inits' = inits + 1 /\ UNCHANGED <<arrayCall, arrayAdded, atFirst>> /\ ~Array!Editing
    BY <1>1 DEF Array!InitPhoneBook, Array!Editing, Array!Menu
  <2>2. Array!CardsOf(book)' = {} /\ book' \in Seq(Entries) /\ Len(book') = 0
    BY <2>1 DEF Array!CardsOf
  <2>3. CardsApart(book)' /\ InNameOrder(book)' /\ IdsApart(book)'
    BY <2>2 DEF CardsApart, InNameOrder, IdsApart
  <2>4. QED
    BY <2>1, <2>2, <2>3 DEF BInv, Array!RoomForAll, Array!Editing, BookAssumption
<1>2. ASSUME NEW id \in Ids, Array!HandleDelContact(id) PROVE BInv'
  BY <1>2, DeleteKeeps
<1>3. ASSUME NEW id \in Ids, NEW name \in Names, Array!HandleAddContact(id, name) \/ Array!AutoFill(id, name)
      PROVE  BInv'
  BY <1>3, AddKeeps DEF Array!HandleAddContact, Array!AutoFill, Array!Editing, Array!Menu
<1>4. CASE \/ (\E id \in Ids : Array!EditId(id)) \/ (\E name \in Names : Array!EditName(name)) \/ Array!EditOther
  BY <1>4, LetterKeeps
<1>5. CASE \/ (\E id \in Ids : Array!BeginEdit(id)) \/ Array!EndEdit \/ Array!Exit \/ UNCHANGED Array!vars
  <2>1. UNCHANGED <<inits, book, capacity, arrayAdded, arrayRemoved, atFirst>>
    BY <1>5 DEF Array!BeginEdit, Array!EndEdit, Array!Exit, Array!vars
  <2>2. Array!Editing' => arrayCall'.idx \in 1 .. Len(book)
    <3>1. ASSUME NEW id \in Ids, Array!BeginEdit(id), Array!Editing' PROVE arrayCall'.idx \in 1 .. Len(book)
      <4>1. Array!GetIndex(id) # 0 /\ arrayCall'.idx = Array!GetIndex(id)
        BY <3>1 DEF Array!BeginEdit, Array!Editing, Array!Menu
      <4>2. QED
        BY <4>1, IndexFound DEF BInv
    <3>2. CASE Array!EndEdit \/ Array!Exit \/ UNCHANGED Array!vars
      BY <3>2 DEF Array!EndEdit, Array!Exit, Array!vars, Array!Editing, Array!Menu, BInv
    <3>3. QED
      BY <1>5, <3>1, <3>2
  <2>3. QED
    BY <2>1, <2>2 DEF BInv, Array!RoomForAll
<1>6. QED
  BY <1>1, <1>2, <1>3, <1>4, <1>5 DEF Array!Next

LEMMA BookBegins == Array!Init => BInv
<1> SUFFICES ASSUME Array!Init PROVE BInv
  OBVIOUS
<1>1. book = <<>> /\ book \in Seq(Entries) /\ Len(book) = 0 /\ Array!CardsOf(book) = {}
  BY DEF Array!Init, Array!CardsOf
<1>2. CardsApart(book) /\ InNameOrder(book) /\ IdsApart(book)
  BY <1>1 DEF CardsApart, InNameOrder, IdsApart
<1>3. QED
  BY <1>1, <1>2 DEF Array!Init, BInv, Array!RoomForAll, Array!Editing, Array!Menu

LEMMA BookIsIntact ==
  ASSUME BInv
  PROVE  Array!RoomForAll /\ Array!SortedAndComplete /\ Array!TwinsComeFromFirst
<1>1. PICK b \in Seq(Entries) : b = book
  BY DEF BInv
<1>2. PICK n \in Nat : n = Len(b)
  BY LenProperties
<1>3. DOMAIN b = 1 .. n
  BY <1>2, LenProperties
<1>4. Cardinality(Array!CardsOf(b)) = n
  <2>1. PICK f : f = [x \in 1 .. n |-> b[x].card]
    OBVIOUS
  <2>2. f \in Bijection(1 .. n, Array!CardsOf(b))
    <3>1. f \in [1 .. n -> Array!CardsOf(b)]
      BY <1>3, <2>1 DEF Array!CardsOf
    <3>2. \A x, j \in 1 .. n : f[x] = f[j] => x = j
      BY <1>1, <1>2, <2>1 DEF BInv, CardsApart
    <3>3. \A c \in Array!CardsOf(b) : \E x \in 1 .. n : f[x] = c
      BY <1>3, <2>1 DEF Array!CardsOf
    <3>4. QED
      BY <3>1, <3>2, <3>3 DEF Bijection, Injection, Surjection, IsInjective
  <2>3. IsFiniteSet(1 .. n) /\ Cardinality(1 .. n) = n
    BY FS_Interval
  <2>4. ExistsBijection(1 .. n, Array!CardsOf(b))
    BY <2>2 DEF ExistsBijection
  <2>5. QED
    BY <2>3, <2>4, FS_Bijection
<1>5. Array!SortedAndComplete
  BY <1>1, <1>2, <1>4, SameCount DEF BInv, Array!SortedAndComplete, InNameOrder
<1>6. Array!TwinsComeFromFirst
  BY <1>1, <1>2, <1>3 DEF BInv, Array!TwinsComeFromFirst, IdsApart
<1>7. QED
  BY <1>5, <1>6 DEF BInv

-----------------------------------------------------------------------------
(* The calculators.                                                        *)

\* A library that has been found is not found again.
CInv == func \in Seq(Libs) /\ unread \cap Calc!Range(func) = {} /\ Calc!MenuHolds

LEMMA Plugged ==
  ASSUME NEW f \in Seq(Libs), NEW lib \in Libs \ Calc!Range(f), Calc!IsInjective(f)
  PROVE  /\ Append(f, lib) \in Seq(Libs) /\ Calc!IsInjective(Append(f, lib))
         /\ Calc!Range(Append(f, lib)) = Calc!Range(f) \cup {lib}
<1>1. PICK n \in Nat : n = Len(f)
  BY LenProperties
<1>2. DOMAIN f = 1 .. n
  BY <1>1, LenProperties
<1>3. PICK g : g = Append(f, lib)
  OBVIOUS
<1>4. /\ g \in Seq(Libs) /\ Len(g) = n + 1 /\ g[n + 1] = lib
      /\ \A x \in 1 .. n : g[x] = f[x]
  BY <1>1, <1>3, AppendProperties
<1>5. DOMAIN g = 1 .. n + 1
  BY <1>4, LenProperties
<1>6. \A x \in 1 .. n : f[x] # lib
  BY <1>2 DEF Calc!Range
<1>7. Calc!IsInjective(g)
  <2>1. \A x, y \in 1 .. n : f[x] = f[y] => x = y
    BY <1>2 DEF Calc!IsInjective
  <2>2. \A x, y \in 1 .. n + 1 : g[x] = g[y] => x = y
    BY <2>1, <1>4, <1>6
  <2>3. QED
    BY <2>2, <1>5 DEF Calc!IsInjective
<1>8. Calc!Range(g) = Calc!Range(f) \cup {lib}
  <2>1. 1 .. n + 1 = (1 .. n) \cup {n + 1}
    OBVIOUS
  <2>2. QED
    BY <2>1, <1>2, <1>4, <1>5 DEF Calc!Range
<1>9. QED
  BY <1>3, <1>4, <1>7, <1>8

LEMMA CalcBegins ==
  ASSUME Calc!Init
  PROVE  CInv
<1>1. Calc!Range(<<>>) = {} /\ Calc!IsInjective(<<>>) /\ <<>> \in Seq(Libs)
  BY DEF Calc!Range, Calc!IsInjective
<1>2. QED
  BY <1>1 DEF Calc!Init, CInv, Calc!MenuHolds

LEMMA CalcStep ==
  ASSUME CInv, \/ CLoad \/ CLoaded \/ CReadNumber \/ CReadNothing \/ CReadArgs \/ CCall
  PROVE  CInv'
<1>1. ASSUME NEW lib \in Libs, Calc!Load(lib)
      PROVE  CInv'
  <2>1. /\ calcPlace = "load" /\ lib \in unread /\ unread' = unread \ {lib}
        /\ calcPlace' \in {"load", "loaded"} /\ operation' = operation /\ typed' = typed
    BY <1>1 DEF Calc!Load
  <2>2. handles = Calc!Range(func) /\ lib \notin Calc!Range(func)
    BY <2>1 DEF CInv, Calc!MenuHolds
  <2>3. CASE func' = func /\ handles' = handles
    BY <2>1, <2>2, <2>3 DEF CInv, Calc!MenuHolds
  <2>4. CASE func' # func \/ handles' # handles
    <3>1. /\ lib \notin Others \cup Broken /\ handles' = handles \cup ({lib} \ Foreign)
          /\ func' = IF lib \in Foreign THEN func ELSE Append(func, lib)
      BY <1>1, <2>4 DEF Calc!Load, Calc!Opened
    <3>2. CASE lib \in Foreign
      BY <2>4, <3>1, <3>2
    <3>3. CASE lib \notin Foreign
      <4>1. /\ func' \in Seq(Libs) /\ Calc!IsInjective(func')
            /\ Calc!Range(func') = Calc!Range(func) \cup {lib}
        BY <2>2, <3>1, <3>3, Plugged DEF CInv, Calc!MenuHolds
      <4>2. handles' = Calc!Range(func')
        BY <2>2, <3>1, <3>3, <4>1
      <4>3. QED
        BY <2>1, <3>1, <3>3, <4>1, <4>2 DEF CInv, Calc!MenuHolds
    <3>4. QED
      BY <3>2, <3>3
  <2>5. QED
    BY <2>3, <2>4
<1>2. CASE Calc!Loaded
  <2>1. /\ calcPlace \in {"load", "loaded"} /\ calcPlace' = IF func = <<>> THEN "nothing" ELSE "menu"
        /\ UNCHANGED <<calc, unread, func, handles, operation, jammed, typed, called>>
    BY <1>2 DEF Calc!Loaded
  <2>2. func = <<>> => Calc!Range(func) = {}
    BY DEF Calc!Range
  <2>3. QED
    BY <2>1, <2>2 DEF CInv, Calc!MenuHolds
<1>3. CASE (\E number \in Calc!Numbers : Calc!ReadNumber(number)) \/ Calc!ReadNothing
  <2>1. /\ calcPlace = "menu" /\ UNCHANGED <<calc, unread, func>> /\ (typed' # Calc!Nothing => operation' = typed')
        /\ \/ operation' = Calc!OpCount + 1 /\ calcPlace' = "exited" /\ handles' = {}
           \/ calcPlace' \in {"menu", "args"} /\ handles' = handles
    BY <1>3 DEF Calc!ReadNumber, Calc!ReadNothing, Calc!Chosen, CInv, Calc!MenuHolds
  <2>2. Calc!OpCount' = Calc!OpCount
    BY <2>1 DEF Calc!OpCount
  <2>3. QED
    BY <2>1, <2>2 DEF CInv, Calc!MenuHolds
<1>4. CASE Calc!ReadArgs \/ Calc!Call
  <2>1. /\ calcPlace \in {"args", "call"} /\ calcPlace' \in {"call", "menu", "crashed"}
        /\ UNCHANGED <<unread, func, handles, operation, typed>>
    BY <1>4 DEF Calc!ReadArgs, Calc!Call
  <2>2. QED
    BY <2>1 DEF CInv, Calc!MenuHolds
<1>5. QED
  BY <1>1, <1>2, <1>3, <1>4 DEF CLoad, CLoaded, CReadNumber, CReadNothing, CReadArgs, CCall

-----------------------------------------------------------------------------
(* The chmod simulator.                                                    *)

BitsAssumption == Who \subseteq {"u", "g", "o"} /\ Rights \subseteq {"r", "w", "x"}

Agree == bits \subseteq Bits!AllBits /\ Bits!AsChmod

\* On a clause that chmod(1) reads as the program does, both do the same.
LEMMA SameChange ==
  ASSUME BitsAssumption, NEW clause \in Bits!Clauses, Bits!Understood(clause),
         NEW b, b \subseteq Bits!AllBits
  PROVE  Bits!Changed(b, clause) = Bits!ByChmod(b, clause)
<1>1. clause \in Seq(Bits!Chars)
  BY SeqDef DEF Bits!Clauses, Bits!BoundedSeq, Bits!SeqOf
<1>2. PICK n \in Nat : n = Len(clause) /\ DOMAIN clause = 1 .. n
  BY <1>1, LenProperties
<1>3. PICK k \in 2 .. n :
        /\ clause[k] \in Bits!Ops
        /\ \A x \in 1 .. k - 1 : clause[x] \in Who \cup {"a"}
        /\ \A x \in k + 1 .. n : clause[x] \in Rights
        /\ clause[k] = "=" => Bits!Named(clause) = Who
  BY <1>2 DEF Bits!Understood
<1>4. \A x \in 1 .. n : clause[x] \in Bits!Ops <=> x = k
  BY <1>3 DEF BitsAssumption, Bits!Ops
<1>5. {x \in 1 .. Len(clause) : clause[x] \in Bits!Ops} = {k}
  BY <1>2, <1>3, <1>4
<1>6. Bits!Min({k}) = k /\ Bits!Max({k}) = k
  BY <1>3 DEF Bits!Min, Bits!Max
<1>7. /\ Bits!SelectInSeq(clause, LAMBDA c : c \in Bits!Ops) = k
      /\ Bits!SelectLastInSeq(clause, LAMBDA c : c \in Bits!Ops) = k
  BY <1>5, <1>6 DEF Bits!SelectInSeq, Bits!SelectLastInSeq
<1>8. Bits!Op(clause) = clause[k]
  <2>1. PICK I : I = {x \in 1 .. Len(clause) : clause[x] \in Bits!Ops}
    OBVIOUS
  <2>2. I # {} /\ Bits!Max(I) = k
    BY <1>5, <1>6, <2>1
  <2>3. \A x \in k + 1 .. Len(clause) : clause[x] \in Rights
    BY <1>2, <1>3
  <2>4. Bits!Op(clause) = LET j == Bits!Max(I)
                          IN  IF j > 0 /\ \A x \in j + 1 .. Len(clause) : clause[x] \in Rights
                              THEN clause[j] ELSE "="
    BY <2>1, <2>2 DEF Bits!Op, Bits!SelectLastInSeq
  <2>5. QED
    BY <1>3, <2>2, <2>3, <2>4
<1> DEFINE users == Bits!Range(SubSeq(clause, 1, k - 1))
           rights == Bits!Range(SubSeq(clause, k + 1, n))
<1>9. users = {clause[x] : x \in 1 .. k - 1} /\ rights = {clause[x] : x \in k + 1 .. n}
  <2>1. users = {clause[x] : x \in 1 .. k - 1}
    <3>1. PICK s : s = SubSeq(clause, 1, k - 1)
      OBVIOUS
    <3>2. DOMAIN s = 1 .. k - 1 /\ \A x \in 1 .. k - 1 : s[x] = clause[x]
      BY <1>1, <1>2, <3>1
    <3>3. QED
      BY <3>1, <3>2 DEF Bits!Range
  <2>2. rights = {clause[x] : x \in k + 1 .. n}
    <3>1. PICK s : s = SubSeq(clause, k + 1, n)
      OBVIOUS
    <3>2. DOMAIN s = 1 .. n - k /\ \A x \in 1 .. n - k : s[x] = clause[x + k]
      BY <1>1, <1>2, <3>1
    <3>3. \A x \in k + 1 .. n : x - k \in 1 .. n - k /\ clause[x] = s[x - k]
      BY <3>2
    <3>4. \A x \in 1 .. n - k : x + k \in k + 1 .. n
      OBVIOUS
    <3>5. rights = {s[x] : x \in 1 .. n - k}
      BY <3>1, <3>2 DEF Bits!Range
    <3>6. QED
      BY <3>2, <3>3, <3>4, <3>5
  <2>3. QED
    BY <2>1, <2>2
<1>10. users \subseteq Who \cup {"a"} /\ rights \subseteq Rights
  BY <1>3, <1>9
<1>11. Bits!Range(clause) = users \cup rights \cup {clause[k]}
  <2>1. Bits!Range(clause) = {clause[x] : x \in 1 .. n}
    BY <1>2 DEF Bits!Range
  <2>2. \A x \in 1 .. n : x \in 1 .. k - 1 \/ x = k \/ x \in k + 1 .. n
    OBVIOUS
  <2>3. \A x \in (1 .. k - 1) \cup {k} \cup (k + 1 .. n) : x \in 1 .. n
    OBVIOUS
  <2>4. QED
    BY <2>1, <2>2, <2>3, <1>9
<1> HIDE DEF users, rights
<1>12. Bits!Named(clause) = {w \in Who : w \in users \/ "a" \in users}
  BY <1>3, <1>10, <1>11 DEF Bits!Named, BitsAssumption, Bits!Ops
<1>13. Bits!Range(clause) \cap Rights = rights
  BY <1>3, <1>10, <1>11 DEF BitsAssumption, Bits!Ops
<1>14. Bits!Mask(clause) = {x \in Bits!AllBits : (x[1] \in users \/ "a" \in users) /\ x[2] \in rights}
  BY <1>10, <1>12, <1>13 DEF Bits!Mask, Bits!AllBits
<1>15. Bits!ByChmod(b, clause) =
        {x \in Bits!AllBits :
           LET meant == (x[1] \in users \/ "a" \in users) /\ x[2] \in rights
           IN  CASE clause[k] = "+" -> x \in b \/ meant
                 [] clause[k] = "-" -> x \in b /\ ~meant
                 [] OTHER -> IF x[1] \in users \/ "a" \in users THEN meant ELSE x \in b}
  BY <1>2, <1>7 DEF Bits!ByChmod, users, rights
<1>16. CASE clause[k] = "+"
  BY <1>8, <1>14, <1>15, <1>16 DEF Bits!Changed
<1>17. CASE clause[k] = "-"
  BY <1>8, <1>14, <1>15, <1>17 DEF Bits!Changed
<1>18. CASE clause[k] = "="
  <2>1. \A x \in Bits!AllBits : x[1] \in users \/ "a" \in users
    BY <1>3, <1>12, <1>18 DEF Bits!AllBits
  <2>2. QED
    BY <1>8, <1>14, <1>15, <1>18, <2>1 DEF Bits!Changed
<1>19. QED
  BY <1>3, <1>16, <1>17, <1>18 DEF Bits!Ops

LEMMA BitsStep ==
  ASSUME BitsAssumption, Agree, BEnter \/ BEnterWrong \/ BBeginChange \/ BClause \/ BEndChange \/ BExit
  PROVE  Agree'
<1>1. CASE BEnter \/ BEnterWrong
  BY <1>1 DEF BEnter, BEnterWrong, Bits!Enter, Bits!EnterWrong, Bits!SetTo, Agree, Bits!AsChmod
<1>2. CASE BBeginChange \/ BEndChange \/ BExit
  BY <1>2 DEF BBeginChange, BEndChange, BExit, Bits!BeginChange, Bits!EndChange, Bits!Exit,
              Agree, Bits!AsChmod
<1>3. ASSUME NEW clause \in Bits!Clauses, Bits!Clause(clause)
      PROVE  Agree'
  <2>1. CASE UNCHANGED <<bits, wanted, plain>>
    BY <2>1 DEF Agree, Bits!AsChmod
  <2>2. CASE /\ bits' = Bits!Changed(bits, clause) /\ plain' = (plain /\ Bits!Understood(clause))
             /\ wanted' = IF plain' THEN Bits!ByChmod(wanted, clause) ELSE bits'
    <3>1. Bits!Changed(bits, clause) \subseteq Bits!AllBits
      BY DEF Bits!Changed, Bits!Mask, Bits!Named, Bits!AllBits, Agree
    <3>2. plain' => bits' = wanted'
      BY <2>2, SameChange DEF Agree, Bits!AsChmod
    <3>3. QED
      BY <2>2, <3>1, <3>2 DEF Agree, Bits!AsChmod
  <2>3. QED
    BY <1>3, <2>1, <2>2 DEF Bits!Clause
<1>4. QED
  BY <1>1, <1>2, <1>3 DEF BClause

-----------------------------------------------------------------------------
(* The programs.                                                           *)

LEMMA Assumed == ItemAssumption /\ ListAssumption /\ BookAssumption /\ BitsAssumption
BY Module2Assumption DEF ItemAssumption, ListAssumption, BookAssumption, BitsAssumption

\* What holds while one of the programs runs.
ProgramsInv ==
  /\ program = "queue" => QInv
  /\ program = "list" => ListInv
  /\ program = "plain" => PlainInv
  /\ program = "array" => BInv
  /\ program = "calc" => CInv
  /\ program = "bits" => Agree

LEMMA ProgramsBegin ==
  ASSUME Init
  PROVE  ProgramsInv
BY QueueBegins, BeginInv, BookBegins, CalcBegins, Assumed DEF Init, ProgramsInv, Bits!Init, Agree, Bits!AsChmod

\* The formulas below are about one program's variables: what leaves these alone, keeps them.
LEMMA ListRests ==
  ASSUME UNCHANGED listVars
  PROVE  (ListInv => ListInv') /\ (PlainInv => PlainInv')
BY DEF listVars, ListInv, PlainInv, History, Owed, Held, List!Editing

LEMMA OneProgram ==
  ASSUME Next
  PROVE  /\ program' = program
         /\ program = "queue" =>
              QInit \/ QInsert \/ QPopFirst \/ QPopWith \/ QPopNotLower \/ QUseWild \/ QExit
         /\ program # "queue" => UNCHANGED queueVars
         /\ program = "list" =>
              LAdd \/ LDel \/ LBeginEdit \/ LEditId \/ LEditLastName \/ LEditOther \/ LEndEdit \/ LExit
         /\ program = "plain" =>
              PAdd \/ PDel \/ PBeginEdit \/ PEditId \/ PEditLastName \/ PEditOther \/ PEndEdit \/ PExit
         /\ program = "array" =>
              AInit \/ AAdd \/ AAutoFill \/ ADel
                \/ ABeginEdit \/ AEditId \/ AEditName \/ AEditOther \/ AEndEdit \/ AExit
         /\ program = "calc" => CLoad \/ CLoaded \/ CReadNumber \/ CReadNothing \/ CReadArgs \/ CCall
         /\ program = "bits" => BEnter \/ BEnterWrong \/ BBeginChange \/ BClause \/ BEndChange \/ BExit
<1> DEFINE InOther == program \in {"tree", "net"} /\ program' = program /\ UNCHANGED queueVars
<1>1. CASE QInit \/ QInsert \/ QPopFirst \/ QPopWith \/ QPopNotLower \/ QUseWild \/ QExit
  <2>1. program = "queue" /\ program' = program
    BY <1>1 DEF QInit, QInsert, QPopFirst, QPopWith, QPopNotLower, QUseWild, QExit, InQueue
  <2>2. QED
    BY <1>1, <2>1
<1>2. CASE LAdd \/ LDel \/ LBeginEdit \/ LEditId \/ LEditLastName \/ LEditOther \/ LEndEdit \/ LExit
  <2>1. program = "list" /\ program' = program /\ UNCHANGED queueVars
    BY <1>2 DEF LAdd, LDel, LBeginEdit, LEditId, LEditLastName, LEditOther, LEndEdit, LExit, InList
  <2>2. QED
    BY <1>2, <2>1
<1>3. CASE PAdd \/ PDel \/ PBeginEdit \/ PEditId \/ PEditLastName \/ PEditOther \/ PEndEdit \/ PExit
  <2>1. program = "plain" /\ program' = program /\ UNCHANGED queueVars
    BY <1>3 DEF PAdd, PDel, PBeginEdit, PEditId, PEditLastName, PEditOther, PEndEdit, PExit, InPlain
  <2>2. QED
    BY <1>3, <2>1
<1>4. CASE \/ AInit \/ AAdd \/ AAutoFill \/ ADel
           \/ ABeginEdit \/ AEditId \/ AEditName \/ AEditOther \/ AEndEdit \/ AExit
  <2>1. program = "array" /\ program' = program /\ UNCHANGED queueVars
    BY <1>4 DEF AInit, AAdd, AAutoFill, ADel, ABeginEdit, AEditId, AEditName, AEditOther, AEndEdit, AExit, InArray
  <2>2. QED
    BY <1>4, <2>1
<1>5. CASE TAdd \/ THandleDel \/ TDel \/ TBeginEdit \/ TEditLastName \/ TEditOther \/ TEndEdit \/ TExit
  <2>1. InOther
    BY <1>5 DEF TAdd, THandleDel, TDel, TBeginEdit, TEditLastName, TEditOther, TEndEdit, TExit, InTree
  <2>2. QED
    BY <2>1
<1>6. CASE CLoad \/ CLoaded \/ CReadNumber \/ CReadNothing \/ CReadArgs \/ CCall
  <2>1. program = "calc" /\ program' = program /\ UNCHANGED queueVars
    BY <1>6 DEF CLoad, CLoaded, CReadNumber, CReadNothing, CReadArgs, CCall, InCalc
  <2>2. QED
    BY <1>6, <2>1
<1>7. CASE BEnter \/ BEnterWrong \/ BBeginChange \/ BClause \/ BEndChange \/ BExit
  <2>1. program = "bits" /\ program' = program /\ UNCHANGED queueVars
    BY <1>7 DEF BEnter, BEnterWrong, BBeginChange, BClause, BEndChange, BExit, InBits
  <2>2. QED
    BY <1>7, <2>1
<1>8. CASE NStart \/ NTest
  <2>1. InOther
    BY <1>8 DEF NStart, NTest, InNet, toolVars
  <2>2. QED
    BY <2>1
<1>9. QED
  BY <1>1, <1>2, <1>3, <1>4, <1>5, <1>6, <1>7, <1>8 DEF Next

LEMMA ListProgram ==
  ASSUME program = "list", ListInv, Next
  PROVE  ListInv'
<1>1. CASE LAdd
  BY <1>1, AddStep, Assumed DEF LAdd
<1>2. CASE LDel
  BY <1>2, DelStep, Assumed DEF LDel
<1>3. CASE LBeginEdit \/ LEditOther \/ LEndEdit \/ LExit
  <2>1. (\E id \in Ids : List!BeginEdit(id)) \/ List!EditOther \/ List!EndEdit \/ List!Exit
    BY <1>3 DEF LBeginEdit, LEditOther, LEndEdit, LExit
  <2>2. History' /\ list' = list /\ Owed' = Owed /\ clashed' = clashed /\ starved' = starved
    BY <2>1, DialogueSteps, Assumed DEF ListInv
  <2>3. QED
    BY <2>2 DEF ListInv
<1>4. CASE LEditId
  <2>1. PICK id \in Ids : List!EditId(id)
    BY <1>4 DEF LEditId
  <2>2. History' /\ (There(list.contact, Owed) => There(list.contact, Owed)') /\ (clashed => clashed')
    BY <2>1, EditIdStep, Assumed DEF ListInv
  <2>3. starved' = starved
    BY <2>1 DEF List!EditId
  <2>4. QED
    BY <2>2, <2>3 DEF ListInv
<1>5. CASE LEditLastName
  BY <1>5, EditLastNameStep, Assumed DEF LEditLastName
<1>6. QED
  BY <1>1, <1>2, <1>3, <1>4, <1>5, OneProgram

LEMMA PlainProgram ==
  ASSUME program = "plain", PlainInv, Next
  PROVE  PlainInv'
<1>1. CASE PAdd
  BY <1>1, PlainAddStep, Assumed DEF PAdd
<1>2. CASE PDel
  BY <1>2, DelStep, Assumed DEF PDel
<1>3. CASE PBeginEdit \/ PEditOther \/ PEndEdit \/ PExit
  <2>1. (\E id \in Ids : List!BeginEdit(id)) \/ List!EditOther \/ List!EndEdit \/ List!Exit
    BY <1>3 DEF PBeginEdit, PEditOther, PEndEdit, PExit,
                List!PlainBeginEdit, List!PlainEditOther, List!PlainEndEdit, List!PlainExit
  <2>2. History' /\ list' = list /\ Owed' = Owed /\ listCall.place # "crashed"
    BY <2>1, DialogueSteps, Assumed DEF PlainInv
  <2>3. QED
    BY <2>2 DEF PlainInv
<1>4. CASE PEditId
  <2>1. PICK id \in Ids : List!EditId(id)
    BY <1>4 DEF PEditId, List!PlainEditId
  <2>2. History' /\ (There(list.contact, Owed) => There(list.contact, Owed)')
    BY <2>1, EditIdStep, Assumed DEF PlainInv
  <2>3. listCall.place # "crashed"
    BY <2>1 DEF List!EditId, List!Editing
  <2>4. QED
    BY <2>2, <2>3 DEF PlainInv
<1>5. CASE PEditLastName
  BY <1>5, PlainEditLastNameStep, Assumed DEF PEditLastName
<1>6. QED
  BY <1>1, <1>2, <1>3, <1>4, <1>5, OneProgram

LEMMA ArrayProgram ==
  ASSUME program = "array", BInv, Next
  PROVE  BInv'
<1>1. Array!Next
  <2>1. CASE AInit \/ ADel \/ ABeginEdit \/ AEditId \/ AEditOther \/ AEndEdit \/ AExit
    BY <2>1 DEF AInit, ADel, ABeginEdit, AEditId, AEditOther, AEndEdit, AExit, Array!Next
  <2>2. CASE AAdd \/ AAutoFill \/ AEditName
    BY <2>2 DEF AAdd, AAutoFill, AEditName, Array!Next
  <2>3. QED
    BY <2>1, <2>2, OneProgram
<1>2. QED
  BY <1>1, BInvStep, Assumed

LEMMA ProgramsStep ==
  ASSUME ProgramsInv, [Next]_vars
  PROVE  ProgramsInv'
<1>1. CASE Next
  BY <1>1, OneProgram, QueueStep, ListProgram, PlainProgram, ArrayProgram, CalcStep, BitsStep, Assumed DEF ProgramsInv
<1>2. CASE UNCHANGED vars
  <2>1. UNCHANGED listVars /\ UNCHANGED Array!vars /\ program' = program
    BY <1>2 DEF vars, bookVars, arrayVars, Array!vars
  <2>2. BInv => BInv'
    BY <2>1, BInvStep, Assumed
  <2>3. CInv => CInv'
    BY <1>2 DEF vars, toolVars, calcVars, CInv, Calc!MenuHolds, Calc!OpCount
  <2>4. Agree => Agree'
    BY <1>2 DEF vars, toolVars, bitsVars, Agree, Bits!AsChmod
  <2>5. QInv => QInv'
    BY <1>2 DEF vars, queueVars, QInv, Line
  <2>6. QED
    BY <2>1, <2>2, <2>3, <2>4, <2>5, ListRests DEF ProgramsInv
<1>3. QED
  BY <1>1, <1>2

\* The priority queue (module2/4.2), with any number of items and any priorities: each of the
\* three pops takes, of the items that satisfy its condition, the most important one and among
\* equal ones the one that came first, and it returns 0 only if there is none.
THEOREM PopsTakeFirst == Spec => QueuePopsFirstThatSuits
<1>1. ProgramsInv /\ [Next]_vars => [Queue!PopTakesFirst]_(Queue!vars)
  <2> SUFFICES ASSUME ProgramsInv, [Next]_vars
               PROVE  [Queue!PopTakesFirst]_(Queue!vars)
    OBVIOUS
  <2>1. CASE Next /\ program = "queue"
    BY <2>1, OneProgram, QueueStep, Assumed DEF ProgramsInv
  <2>2. CASE UNCHANGED queueVars
    BY <2>2 DEF queueVars, Queue!vars
  <2>3. CASE UNCHANGED vars
    BY <2>2, <2>3 DEF vars
  <2>4. QED
    BY <2>1, <2>2, <2>3, OneProgram
<1>2. QED
  BY <1>1, ProgramsBegin, ProgramsStep, PTL DEF Spec, QueuePopsFirstThatSuits, Queue!PopsFirstThatSuits

\* The doubly linked phonebooks (module2/6.1 and 4.1), with any number of nodes, ids and names
\* and any sequence of operations: the list stays sorted and its links agree, no contact is lost
\* but by delContact, by addNode's refusal of an id that letter i has doubled, or for lack of
\* memory, and an editing dialogue changes the contact it began with.
THEOREM ListStaysIntact == Spec => []ListIntact
<1>1. ProgramsInv => ListIntact
  BY Ordered, NoneLost, Assumed DEF ProgramsInv, ListInv, PlainInv, ListIntact
<1>2. QED
  BY <1>1, ProgramsBegin, ProgramsStep, PTL DEF Spec

\* The array phonebook (module2/2.1), however often it grows, shrinks and is sorted, whatever
\* order qsort gives to equal names: there is room for the contact that addContact writes, the
\* book is sorted and holds each contact once, from its addition to its deletion, and ids are
\* unique as long as no edit took the one of contact[0] (menu.c:171).
THEOREM ArrayStaysIntact == Spec => []ArrayIntact
<1>1. ProgramsInv => ArrayIntact
  BY BookIsIntact DEF ProgramsInv, ArrayIntact
<1>2. QED
  BY <1>1, ProgramsBegin, ProgramsStep, PTL DEF Spec

\* The calculators (module2/2.2, 2.3 and 6.3), with any plugins in libs/ in any order: each line
\* of the menu has a library of its own that is open, no other is, and all are closed at the
\* exit; and what runs is the line last typed, however often the input is unreadable after it.
THEOREM MenuAlwaysHolds == Spec => []MenuHolds
<1>1. ProgramsInv => MenuHolds
  BY DEF ProgramsInv, CInv, MenuHolds
<1>2. QED
  BY <1>1, ProgramsBegin, ProgramsStep, PTL DEF Spec

\* The chmod simulator (module2/3.1), after any number of commands of any length: the bits are
\* those that chmod(1) would have made, as long as each clause has users, one operation and
\* rights, and a '=' names all users (chmod.c:130).
THEOREM BitsStayAsChmod == Spec => [](program = "bits" => Bits!AsChmod)
<1>1. ProgramsInv => (program = "bits" => Bits!AsChmod)
  BY DEF ProgramsInv, Agree
<1>2. QED
  BY <1>1, ProgramsBegin, ProgramsStep, PTL DEF Spec

=============================================================================
