--------------------------- MODULE ShmSysVProofs ---------------------------
(***************************************************************************)
(* Theorems about ShmSysV, for any number of consumers, any segment size,   *)
(* any bound on the drawn counts and any number of killed processes.       *)
(***************************************************************************)
EXTENDS ShmSysVInv, TLAPS

\* An offset that points to a block or to the place of the next one is inside.
LEMMA PointersAreOffsets ==
  ASSUME PointerInv
  PROVE  ptr \in Offsets /\ \A c \in Consumers : off[c] \in Offsets
<1>1. ASSUME NEW p, Pointer(p) PROVE p \in Offsets
  BY <1>1, ShmAssumption DEF Pointer, Offsets, HeaderWords
<1>2. QED
  BY <1>1 DEF PointerInv

\* Block ends are positive numbers.
LEMMA EndIsNat ==
  ASSUME TypeOK, NEW o \in Offsets
  PROVE  o \in Nat /\ size[o] \in Nat /\ End(o) \in Nat /\ End(o) > 0
<1>1. o \in Nat /\ size[o] \in Nat
  BY ShmAssumption DEF TypeOK, Offsets
<1>2. QED
  BY <1>1 DEF End, HeaderWords

\* Behind the header that ends the chain nothing is waiting to be claimed.
LEMMA NothingAfter ==
  ASSUME TypeOK, LayoutInv, NEW p, Pointer(p), next[p] = 0,
         NEW o \in Offsets, p < o
  PROVE  count[o] = 0
<1>1. SUFFICES ASSUME size[o] > 0 PROVE FALSE
  BY DEF LayoutInv, TypeOK
<1>2. p \in Offsets /\ o \in Nat /\ size[o] \in Nat
  BY ShmAssumption DEF Pointer, Offsets, HeaderWords, TypeOK
<1>3. p < curr /\ size[p] > 0
  BY <1>1, <1>2 DEF LayoutInv, Pointer, TypeOK
<1>4. End(p) <= o /\ End(p) # 0
  BY <1>1, <1>2, <1>3, EndIsNat DEF LayoutInv
<1>5. End(p) + HeaderWords + 1 > Total
  <2>1. next[p] = IF End(p) + HeaderWords + 1 <= Total THEN End(p) ELSE 0
    BY <1>2, <1>3 DEF LayoutInv
  <2>2. QED
    BY <2>1, <1>2, <1>3, <1>4, ShmAssumption DEF End, HeaderWords, TypeOK
<1>6. End(o) <= Total
  BY <1>1 DEF LayoutInv
<1>7. QED
  BY <1>1, <1>2, <1>3, <1>4, <1>5, <1>6, ShmAssumption DEF End, HeaderWords, TypeOK

\* Between a header and the next one of the chain nothing is waiting either.
LEMMA NothingBetween ==
  ASSUME TypeOK, LayoutInv, NEW p, Pointer(p), next[p] # 0,
         NEW o \in Offsets, p < o, o < next[p]
  PROVE  count[o] = 0
<1>1. SUFFICES ASSUME size[o] > 0 PROVE FALSE
  BY DEF LayoutInv, TypeOK
<1>2. p \in Offsets
  BY ShmAssumption DEF Pointer, Offsets, HeaderWords, TypeOK
<1>3. size[p] > 0 /\ p < curr
  BY <1>2 DEF LayoutInv, Pointer, TypeOK
<1>4. next[p] = End(p) /\ End(p) <= o
  BY <1>1, <1>2, <1>3 DEF LayoutInv
<1>5. End(p) \in Nat /\ o \in Nat
  BY <1>2, EndIsNat
<1>6. QED
  BY <1>4, <1>5

-----------------------------------------------------------------------------
\* Every step keeps the types; the semaphore stays within 0..1 because only the
\* process inside gives its unit back, or has it given back when it is killed.
LEMMA TypeOKStep == IInv /\ [Next]_vars => TypeOK'
<1> SUFFICES ASSUME IInv, [Next]_vars PROVE TypeOK'
  OBVIOUS
<1>0. TypeOK /\ SemInv /\ PointerInv
  BY DEF IInv
<1> USE <1>0, ShmAssumption DEF producer, consumer, history, ipc
<1>1. CASE PShmget
  BY <1>1 DEF PShmget, TypeOK, ProducerStates, IpcStates
<1>2. CASE PSemget
  BY <1>2 DEF PSemget, TypeOK, ProducerStates, IpcStates
<1>3. CASE PSetval
  BY <1>3 DEF PSetval, TypeOK, ProducerStates
<1>4. CASE PDraw
  BY <1>4 DEF PDraw, More, MaxPossible, TypeOK, ProducerStates, HeaderWords
<1>5. CASE PLock
  BY <1>5 DEF PLock, SemLock, TypeOK, ProducerStates
<1>6. CASE PWrite
  BY <1>6 DEF PWrite, TypeOK, ProducerStates
<1>7. CASE PLink
  <2>1. NewBlock \in Nat
    BY DEF TypeOK, NewBlock, HeaderWords
  <2>2. next' \in [Offsets -> Nat]
    BY <2>1, <1>7 DEF PLink, TypeOK
  <2>3. QED
    BY <2>1, <2>2, <1>7 DEF PLink, TypeOK, SemUnlock, ProducerStates
<1>8. CASE PGenerated
  BY <1>8 DEF PGenerated, More, MaxPossible, TypeOK, ProducerStates
<1>9. CASE PPoll
  BY <1>9 DEF PPoll, SemLock, TypeOK, ProducerStates
<1>10. CASE PScan
  BY PointersAreOffsets, <1>0, <1>10 DEF PScan, SemUnlock, TypeOK, ProducerStates
<1>11. CASE PRemoveShm
  BY <1>11 DEF PRemoveShm, TypeOK, ProducerStates, IpcStates
<1>12. CASE PRemoveSem
  BY <1>12 DEF PRemoveSem, TypeOK, ProducerStates, IpcStates
<1>13. CASE PDie
  BY <1>13 DEF PDie, TypeOK, ProducerStates, SemInv, InCS, ProducerInCS, Holding,
       Attached
<1>14. ASSUME NEW c \in Consumers, CShmget(c) PROVE TypeOK'
  BY <1>14 DEF CShmget, TypeOK, ConsumerStates, Attached, Holding, Ended
<1>15. ASSUME NEW c \in Consumers, CAttach(c) PROVE TypeOK'
  BY <1>15 DEF CAttach, TypeOK, ConsumerStates, Attached, Holding, Ended
<1>16. ASSUME NEW c \in Consumers, CLock(c) PROVE TypeOK'
  BY <1>16 DEF CLock, ConsumerLock, Usable, SemLock, TypeOK, ConsumerStates, Attached,
       Holding, Ended
<1>17. ASSUME NEW c \in Consumers, CReadCount(c) PROVE TypeOK'
  BY PointersAreOffsets, <1>0, <1>17 DEF CReadCount, TypeOK, ConsumerStates, Attached,
       Holding, Ended
<1>18. ASSUME NEW c \in Consumers, CReadNext(c) PROVE TypeOK'
  BY PointersAreOffsets, <1>0, <1>18 DEF CReadNext, TypeOK, ConsumerStates, Attached,
       Holding, Ended
<1>19. ASSUME NEW c \in Consumers, CTake(c) PROVE TypeOK'
  BY PointersAreOffsets, <1>0, <1>19 DEF CTake, ConsumerUnlock, LeaveScope, Usable,
       SemUnlock, TypeOK, ConsumerStates, Attached, Holding, Ended
<1>20. ASSUME NEW c \in Consumers, CPrint(c) PROVE TypeOK'
  BY <1>20 DEF CPrint, TypeOK, ConsumerStates, Attached, Holding, Ended
<1>21. ASSUME NEW c \in Consumers, CEnd(c) PROVE TypeOK'
  BY <1>21 DEF CEnd, ConsumerUnlock, LeaveScope, Usable, SemUnlock, TypeOK,
       ConsumerStates, Attached, Holding, Ended
<1>22. ASSUME NEW c \in Consumers, CSkip(c) PROVE TypeOK'
  BY <1>22 DEF CSkip, ConsumerUnlock, LeaveScope, Usable, SemUnlock, TypeOK,
       ConsumerStates, Attached, Holding, Ended
<1>23. ASSUME NEW c \in Consumers, CDie(c) PROVE TypeOK'
  BY <1>23 DEF CDie, Usable, TypeOK, ConsumerStates, Attached, Holding, Ended, SemInv,
       InCS, ProducerInCS
<1>24. CASE UNCHANGED vars
  BY <1>24 DEF vars, TypeOK
<1>. QED
  BY <1>1, <1>2, <1>3, <1>4, <1>5, <1>6, <1>7, <1>8, <1>9, <1>10, <1>11, <1>12, <1>13,
       <1>14, <1>15, <1>16, <1>17, <1>18, <1>19, <1>20, <1>21, <1>22, <1>23, <1>24 DEF
       Next, Producing, Consuming, Finished

\* Every step keeps what is known of the semaphore.
LEMMA SemInvStep == IInv /\ [Next]_vars => SemInv'
<1> SUFFICES ASSUME IInv, [Next]_vars PROVE SemInv'
  OBVIOUS
<1>0. TypeOK /\ SemInv
  BY DEF IInv
<1> USE <1>0, ShmAssumption DEF producer, consumer, history, ipc
<1>1. CASE PShmget
  BY <1>1 DEF PShmget, TypeOK, SemInv, InCS, ProducerInCS, ProducerStates,
       ConsumerStates, Holding, Attached, Ended
<1>2. CASE PSemget
  BY <1>2 DEF PSemget, TypeOK, SemInv, InCS, ProducerInCS, ProducerStates,
       ConsumerStates, Holding, Attached, Ended
<1>3. CASE PSetval
  BY <1>3 DEF PSetval, TypeOK, SemInv, InCS, ProducerInCS, ProducerStates,
       ConsumerStates, Holding, Attached, Ended
<1>4. CASE PDraw
  BY <1>4 DEF PDraw, More, MaxPossible, TypeOK, SemInv, InCS, ProducerInCS,
       ProducerStates, ConsumerStates, Holding, Attached, Ended
<1>5. CASE PLock
  BY <1>5 DEF PLock, SemLock, TypeOK, SemInv, InCS, ProducerInCS, ProducerStates,
       ConsumerStates, Holding, Attached, Ended
<1>6. CASE PWrite
  BY <1>6 DEF PWrite, TypeOK, SemInv, InCS, ProducerInCS, ProducerStates,
       ConsumerStates, Holding, Attached, Ended
<1>7. CASE PLink
  BY <1>7 DEF PLink, SemUnlock, NewBlock, TypeOK, SemInv, InCS, ProducerInCS,
       ProducerStates, ConsumerStates, Holding, Attached, Ended
<1>8. CASE PGenerated
  BY <1>8 DEF PGenerated, More, MaxPossible, TypeOK, SemInv, InCS, ProducerInCS,
       ProducerStates, ConsumerStates, Holding, Attached, Ended
<1>9. CASE PPoll
  BY <1>9 DEF PPoll, SemLock, TypeOK, SemInv, InCS, ProducerInCS, ProducerStates,
       ConsumerStates, Holding, Attached, Ended
<1>10. CASE PScan
  BY <1>10 DEF PScan, SemUnlock, TypeOK, SemInv, InCS, ProducerInCS, ProducerStates,
       ConsumerStates, Holding, Attached, Ended
<1>11. CASE PRemoveShm
  BY <1>11 DEF PRemoveShm, TypeOK, SemInv, InCS, ProducerInCS, ProducerStates,
       ConsumerStates, Holding, Attached, Ended
<1>12. CASE PRemoveSem
  BY <1>12 DEF PRemoveSem, TypeOK, SemInv, InCS, ProducerInCS, ProducerStates,
       ConsumerStates, Holding, Attached, Ended
<1>13. CASE PDie
  BY <1>13 DEF PDie, TypeOK, SemInv, InCS, ProducerInCS, ProducerStates,
       ConsumerStates, Holding, Attached, Ended
<1>14. ASSUME NEW c \in Consumers, CShmget(c) PROVE SemInv'
  BY <1>14 DEF CShmget, TypeOK, SemInv, InCS, ProducerInCS, ProducerStates,
       ConsumerStates, Holding, Attached, Ended
<1>15. ASSUME NEW c \in Consumers, CAttach(c) PROVE SemInv'
  <2>1. /\ UNCHANGED <<shm, sem, val, ppc>>
        /\ \A d \in Consumers \ {c} : cpc'[d] = cpc[d] /\ semOK'[d] = semOK[d]
    BY <1>15 DEF CAttach, TypeOK
  <2>2. /\ cpc'[c] \in {"lock", "exited"}
        /\ semOK'[c] = (sem = "up")
    BY <1>15 DEF CAttach, TypeOK
  <2>3. ~InCS(c)'
    BY <2>2 DEF InCS, Holding
  <2>4. \A d \in Consumers : InCS(d)' => InCS(d)
    BY <2>1, <2>3 DEF InCS
  <2>5. QED
    BY <2>1, <2>2, <2>4 DEF SemInv, ProducerInCS
<1>16. ASSUME NEW c \in Consumers, CLock(c) PROVE SemInv'
  BY <1>16 DEF CLock, ConsumerLock, Usable, SemLock, TypeOK, SemInv, InCS,
       ProducerInCS, ProducerStates, ConsumerStates, Holding, Attached, Ended
<1>17. ASSUME NEW c \in Consumers, CReadCount(c) PROVE SemInv'
  BY <1>17 DEF CReadCount, TypeOK, SemInv, InCS, ProducerInCS, ProducerStates,
       ConsumerStates, Holding, Attached, Ended
<1>18. ASSUME NEW c \in Consumers, CReadNext(c) PROVE SemInv'
  BY <1>18 DEF CReadNext, TypeOK, SemInv, InCS, ProducerInCS, ProducerStates,
       ConsumerStates, Holding, Attached, Ended
<1>19. ASSUME NEW c \in Consumers, CTake(c) PROVE SemInv'
  BY <1>19 DEF CTake, ConsumerUnlock, LeaveScope, Usable, SemUnlock, TypeOK, SemInv,
       InCS, ProducerInCS, ProducerStates, ConsumerStates, Holding, Attached, Ended
<1>20. ASSUME NEW c \in Consumers, CPrint(c) PROVE SemInv'
  BY <1>20 DEF CPrint, TypeOK, SemInv, InCS, ProducerInCS, ProducerStates,
       ConsumerStates, Holding, Attached, Ended
<1>21. ASSUME NEW c \in Consumers, CEnd(c) PROVE SemInv'
  BY <1>21 DEF CEnd, ConsumerUnlock, LeaveScope, Usable, SemUnlock, TypeOK, SemInv,
       InCS, ProducerInCS, ProducerStates, ConsumerStates, Holding, Attached, Ended
<1>22. ASSUME NEW c \in Consumers, CSkip(c) PROVE SemInv'
  BY <1>22 DEF CSkip, ConsumerUnlock, LeaveScope, Usable, SemUnlock, TypeOK, SemInv,
       InCS, ProducerInCS, ProducerStates, ConsumerStates, Holding, Attached, Ended
<1>23. ASSUME NEW c \in Consumers, CDie(c) PROVE SemInv'
  BY <1>23 DEF CDie, Usable, TypeOK, SemInv, InCS, ProducerInCS, ProducerStates,
       ConsumerStates, Holding, Attached, Ended
<1>24. CASE UNCHANGED vars
  BY <1>24 DEF vars, TypeOK, SemInv, InCS, ProducerInCS, ProducerStates,
       ConsumerStates, Holding, Attached, Ended
<1>. QED
  BY <1>1, <1>2, <1>3, <1>4, <1>5, <1>6, <1>7, <1>8, <1>9, <1>10, <1>11, <1>12, <1>13,
       <1>14, <1>15, <1>16, <1>17, <1>18, <1>19, <1>20, <1>21, <1>22, <1>23, <1>24 DEF
       Next, Producing, Consuming, Finished

\* Every step keeps the blocks laid out one after the other up to curr.
LEMMA LayoutInvStep == IInv /\ [Next]_vars => LayoutInv'
<1> SUFFICES ASSUME IInv, [Next]_vars PROVE LayoutInv'
  OBVIOUS
<1>0. TypeOK /\ LayoutInv /\ PointerInv /\ ClaimInv
  BY DEF IInv
<1> USE <1>0, ShmAssumption DEF producer, consumer, history, ipc
<1>1. CASE PShmget
  BY <1>1 DEF PShmget, TypeOK, LayoutInv, Closing, End, HeaderWords, Offsets
<1>2. CASE PSemget
  BY <1>2 DEF PSemget, TypeOK, LayoutInv, Closing, End, HeaderWords, Offsets
<1>3. CASE PSetval
  BY <1>3 DEF PSetval, TypeOK, LayoutInv, Closing, End, HeaderWords, Offsets
<1>4. CASE PDraw
  BY <1>4 DEF PDraw, More, MaxPossible, TypeOK, LayoutInv, Closing, End, HeaderWords,
       Offsets
<1>5. CASE PLock
  BY <1>5 DEF PLock, SemLock, TypeOK, LayoutInv, Closing, End, HeaderWords, Offsets
<1>6. CASE PWrite
  <2>1. curr \in Offsets /\ draw \in Nat /\ draw > 0 /\ curr + 2 + draw <= Total
    BY <1>6 DEF PWrite, LayoutInv, TypeOK, Offsets, HeaderWords
  <2>2. \A o \in Offsets : /\ size'[o] = IF o = curr THEN draw ELSE size[o]
                           /\ next'[o] = IF o = curr THEN 0 ELSE next[o]
                           /\ count'[o] = IF o = curr THEN draw ELSE count[o]
    BY <2>1, <1>6 DEF PWrite, TypeOK
  <2>3. UNCHANGED <<curr, draw, took>> /\ ppc' = "link"
    BY <1>6 DEF PWrite
  <2>4. size[curr] = 0
    BY <2>1, <1>6 DEF PWrite, LayoutInv, TypeOK
  <2>5. \A o \in Offsets : size[o] > 0 => o < curr /\ End(o) <= curr
    <3>1. \A o \in Offsets : size[o] > 0 => o <= curr
      BY DEF LayoutInv
    <3>2. \A o \in Offsets : size[o] > 0 /\ o < curr => End(o) <= curr
      BY DEF LayoutInv
    <3>3. QED
      BY <3>1, <3>2, <2>1, <2>4 DEF Offsets
  <2>6. \A o \in Offsets : End(o)' = IF o = curr THEN curr + 2 + draw ELSE End(o)
    BY <2>2 DEF End, HeaderWords
  <2>7. \A o, q \in Offsets : size'[o] > 0 /\ size'[q] > 0 /\ o < q => End(o)' <= q
    <3>1. \A o, q \in Offsets : size[o] > 0 /\ size[q] > 0 /\ o < q => End(o) <= q
      BY DEF LayoutInv
    <3>2. QED
      BY <2>1, <2>2, <2>5, <2>6, <3>1 DEF Offsets
  <2>8. \A o \in Offsets : size'[o] > 0 /\ o < curr =>
       /\ End(o)' <= curr
       /\ End(o)' = curr \/ (End(o)' \in Offsets /\ size'[End(o)'] > 0)
       /\ next'[o] = IF End(o)' + HeaderWords + 1 <= Total THEN End(o)' ELSE 0
    <3>1. \A o \in Offsets : size[o] > 0 /\ o < curr =>
       /\ End(o) <= curr
       /\ End(o) = curr \/ (End(o) \in Offsets /\ size[End(o)] > 0)
       /\ next[o] = IF End(o) + HeaderWords + 1 <= Total THEN End(o) ELSE 0
      BY DEF LayoutInv
    <3>2. \A o \in Offsets : o < curr => End(o)' = End(o) /\ size'[o] = size[o] /\ next'[o] = next[o]
      BY <2>2, <2>6, <2>1 DEF Offsets
    <3>3. \A e \in Offsets : size[e] > 0 => size'[e] > 0
      BY <2>2, <2>1
    <3>4. QED
      BY <3>1, <3>2, <3>3
  <2>9. \A o \in Offsets : size'[o] > 0 => o <= curr /\ End(o)' <= Total
    BY <2>1, <2>2, <2>5, <2>6 DEF LayoutInv, Offsets
  <2>10. \A o \in Offsets : size'[o] = 0 => count'[o] = 0 /\ next'[o] = 0 /\ took'[o] = 0
    BY <2>1, <2>2, <2>3 DEF LayoutInv, TypeOK, Offsets
  <2>11. \A o \in Offsets : o = curr /\ size'[o] > 0 => next'[o] = 0 /\ size'[o] = draw
    BY <2>1, <2>2, <2>3 
  <2>12. size'[curr] > 0
    BY <2>1, <2>2
  <2>13. curr > 0 => size'[0] > 0
    <3>1. curr > 0 => size[0] > 0
      BY DEF LayoutInv
    <3>2. 0 \in Offsets
      BY DEF Offsets, HeaderWords
    <3>3. QED
      BY <2>1, <2>2, <3>1, <3>2
  <2> QED
    BY <2>1, <2>3, <2>7, <2>8, <2>9, <2>10, <2>11, <2>12, <2>13, <1>6 DEF PWrite,
         LayoutInv, Closing, HeaderWords
<1>7. CASE PLink
  <2>1. curr \in Offsets /\ draw \in Nat /\ draw > 0 /\ size[curr] = draw /\ curr' = End(curr) /\ curr' \in Nat
    BY <1>7 DEF PLink, LayoutInv, TypeOK, Offsets, HeaderWords, NewBlock, End
  <2>2. \A o \in Offsets : next'[o] = IF o = curr /\ End(curr) + HeaderWords + 1 <= Total THEN End(curr) ELSE next[o]
    BY <2>1, <1>7 DEF PLink, TypeOK, NewBlock, End
  <2>3. UNCHANGED <<size, count, took>> /\ ppc' = "gen" /\ draw' = 0 /\ curr < curr' /\ curr' <= Total
    BY <2>1, <1>7 DEF PLink, LayoutInv, history, End, HeaderWords, Offsets
  <2>4. next[curr] = 0
    BY <2>1 DEF LayoutInv
  <2>5. \A o \in Offsets : size[o] > 0 => o < curr' /\ o <= curr
    BY <2>1, <2>3 DEF LayoutInv, TypeOK, Offsets
  <2>6. \A o \in Offsets : size[o] > 0 =>
       /\ End(o) <= curr'
       /\ End(o) = curr' \/ (End(o) \in Offsets /\ size[End(o)] > 0)
       /\ next'[o] = IF End(o) + HeaderWords + 1 <= Total THEN End(o) ELSE 0
    <3> SUFFICES ASSUME NEW o \in Offsets, size[o] > 0
        PROVE /\ End(o) <= curr'
              /\ End(o) = curr' \/ (End(o) \in Offsets /\ size[End(o)] > 0)
              /\ next'[o] = IF End(o) + HeaderWords + 1 <= Total THEN End(o) ELSE 0
      OBVIOUS
    <3>1. CASE o = curr
      <4>1. End(o) = curr' /\ next[o] = 0
        BY <3>1, <2>1, <2>4
      <4>2. next'[o] = IF End(o) + HeaderWords + 1 <= Total THEN End(o) ELSE 0
        BY <3>1, <4>1, <2>2
      <4> QED
        BY <4>1, <4>2, <2>1
    <3>2. CASE o # curr
      <4>1. o < curr
        BY <3>2, <2>5, <2>1 DEF Offsets
      <4>2. next'[o] = next[o]
        BY <3>2, <2>2
      <4>3. /\ End(o) <= curr
            /\ End(o) = curr \/ (End(o) \in Offsets /\ size[End(o)] > 0)
            /\ next[o] = IF End(o) + HeaderWords + 1 <= Total THEN End(o) ELSE 0
        BY <4>1 DEF LayoutInv
      <4>4. End(o) \in Nat
        <5>1. o \in Nat /\ size[o] \in Nat
          BY DEF TypeOK, Offsets
        <5>2. QED
          BY <5>1 DEF End, HeaderWords
      <4> QED
        BY <4>2, <4>3, <4>4, <2>1, <2>3 DEF TypeOK
    <3> QED
      BY <3>1, <3>2
  <2>7. \A o \in Offsets : size[o] = 0 => next'[o] = 0
    BY <2>1, <2>2 DEF LayoutInv, TypeOK
  <2>8. size[0] > 0
    BY <2>1 DEF LayoutInv, TypeOK, Offsets
  <2>9. \A o : End(o)' = End(o)
    BY <2>3 DEF End
  <2>10. \A o \in Offsets : o = curr' => ~ size[o] > 0
    BY <2>5, <2>3, <2>1 DEF Offsets
  <2>11. \A o \in Offsets : size[o] > 0 => o <= curr'
    BY <2>5, <2>3, <2>1 DEF Offsets
  <2> QED
    BY <2>3, <2>6, <2>7, <2>8, <2>9, <2>10, <2>11 DEF LayoutInv, Closing
<1>8. CASE PGenerated
  BY <1>8 DEF PGenerated, More, MaxPossible, TypeOK, LayoutInv, Closing, End,
       HeaderWords, Offsets
<1>9. CASE PPoll
  BY <1>9 DEF PPoll, SemLock, TypeOK, LayoutInv, Closing, End, HeaderWords, Offsets
<1>10. CASE PScan
  BY <1>10 DEF PScan, SemUnlock, TypeOK, LayoutInv, Closing, End, HeaderWords, Offsets
<1>11. CASE PRemoveShm
  BY <1>11 DEF PRemoveShm, TypeOK, LayoutInv, Closing, End, HeaderWords, Offsets
<1>12. CASE PRemoveSem
  BY <1>12 DEF PRemoveSem, TypeOK, LayoutInv, Closing, End, HeaderWords, Offsets
<1>13. CASE PDie
  BY <1>13 DEF PDie, TypeOK, LayoutInv, Closing, End, HeaderWords, Offsets
<1>14. ASSUME NEW c \in Consumers, CShmget(c) PROVE LayoutInv'
  BY <1>14 DEF CShmget, TypeOK, LayoutInv, Closing, End, HeaderWords, Offsets
<1>15. ASSUME NEW c \in Consumers, CAttach(c) PROVE LayoutInv'
  BY <1>15 DEF CAttach, TypeOK, LayoutInv, Closing, End, HeaderWords, Offsets
<1>16. ASSUME NEW c \in Consumers, CLock(c) PROVE LayoutInv'
  BY <1>16 DEF CLock, ConsumerLock, Usable, SemLock, TypeOK, LayoutInv, Closing, End,
       HeaderWords, Offsets
<1>17. ASSUME NEW c \in Consumers, CReadCount(c) PROVE LayoutInv'
  BY <1>17 DEF CReadCount, TypeOK, LayoutInv, Closing, End, HeaderWords, Offsets
<1>18. ASSUME NEW c \in Consumers, CReadNext(c) PROVE LayoutInv'
  BY <1>18 DEF CReadNext, TypeOK, LayoutInv, Closing, End, HeaderWords, Offsets
<1>19. ASSUME NEW c \in Consumers, CTake(c) PROVE LayoutInv'
  <2>1. size[off[c]] > 0 /\ off[c] \in Offsets
    BY PointersAreOffsets, <1>19 DEF CTake, ClaimInv, TypeOK
  <2>2. \A o \in Offsets : size[o] = 0 => count'[o] = count[o] /\ took'[o] = took[o]
    BY <2>1, <1>19 DEF CTake, TypeOK
  <2>3. UNCHANGED <<curr, ppc, draw, size, next>>
    BY <1>19 DEF CTake, producer
  <2>4. QED
    BY <2>2, <2>3 DEF LayoutInv, End, Closing
<1>20. ASSUME NEW c \in Consumers, CPrint(c) PROVE LayoutInv'
  BY <1>20 DEF CPrint, TypeOK, LayoutInv, Closing, End, HeaderWords, Offsets
<1>21. ASSUME NEW c \in Consumers, CEnd(c) PROVE LayoutInv'
  BY <1>21 DEF CEnd, ConsumerUnlock, LeaveScope, Usable, SemUnlock, TypeOK, LayoutInv,
       Closing, End, HeaderWords, Offsets
<1>22. ASSUME NEW c \in Consumers, CSkip(c) PROVE LayoutInv'
  BY <1>22 DEF CSkip, ConsumerUnlock, LeaveScope, Usable, SemUnlock, TypeOK,
       LayoutInv, Closing, End, HeaderWords, Offsets
<1>23. ASSUME NEW c \in Consumers, CDie(c) PROVE LayoutInv'
  BY <1>23 DEF CDie, Usable, TypeOK, LayoutInv, Closing, End, HeaderWords, Offsets
<1>24. CASE UNCHANGED vars
  BY <1>24 DEF vars, TypeOK, LayoutInv, Closing, End, HeaderWords, Offsets
<1>. QED
  BY <1>1, <1>2, <1>3, <1>4, <1>5, <1>6, <1>7, <1>8, <1>9, <1>10, <1>11, <1>12, <1>13,
       <1>14, <1>15, <1>16, <1>17, <1>18, <1>19, <1>20, <1>21, <1>22, <1>23, <1>24 DEF
       Next, Producing, Consuming, Finished

\* Every step keeps all offsets on a block or on the place of the next one.
LEMMA PointerInvStep == IInv /\ [Next]_vars => PointerInv'
<1> SUFFICES ASSUME IInv, [Next]_vars PROVE PointerInv'
  OBVIOUS
<1>0. TypeOK /\ LayoutInv /\ PointerInv
  BY DEF IInv
<1> USE <1>0, ShmAssumption DEF producer, consumer, history, ipc
<1>1. CASE PShmget
  BY <1>1 DEF PShmget, TypeOK, PointerInv, Pointer
<1>2. CASE PSemget
  BY <1>2 DEF PSemget, TypeOK, PointerInv, Pointer
<1>3. CASE PSetval
  BY <1>3 DEF PSetval, TypeOK, PointerInv, Pointer
<1>4. CASE PDraw
  BY <1>4 DEF PDraw, More, MaxPossible, TypeOK, PointerInv, Pointer
<1>5. CASE PLock
  BY <1>5 DEF PLock, SemLock, TypeOK, PointerInv, Pointer
<1>6. CASE PWrite
  BY <1>6 DEF PWrite, TypeOK, PointerInv, Pointer
<1>7. CASE PLink
  <2>1. curr \in Offsets /\ curr' \in Nat /\ curr < curr' /\ curr' = NewBlock /\ size[curr] > 0 /\ size' = size
    BY ShmAssumption, <1>7 DEF PLink, LayoutInv, TypeOK, Offsets, HeaderWords,
         NewBlock, history
  <2>2. ASSUME NEW p, Pointer(p) PROVE Pointer(p)'
    BY <2>1, <2>2 DEF Pointer, Offsets
  <2>3. ASSUME curr' + HeaderWords + 1 <= Total PROVE Pointer(curr)'
    BY <2>1, <2>3 DEF Pointer, Offsets, HeaderWords
  <2>4. ASSUME curr' + HeaderWords + 1 <= Total PROVE (curr' \in Nat /\ curr' <= curr' /\ curr' + HeaderWords + 1 <= Total)
    BY <2>1, <2>4 DEF Pointer, Offsets, HeaderWords
  <2>5. ASSUME NEW o \in Offsets PROVE Pointer(next[o])'
    <3>1. CASE next'[o] = next[o]
      BY <3>1, <2>2 DEF PointerInv, Pointer
    <3>2. CASE next'[o] = curr' /\ curr' + HeaderWords + 1 <= Total
      BY <3>2, <2>1 DEF Pointer, HeaderWords
    <3>3. QED
      BY <3>1, <3>2, <2>1, <1>7 DEF PLink, TypeOK
  <2> QED
    BY <2>2, <2>5, <1>7 DEF PointerInv, PLink, consumer, Pointer
<1>8. CASE PGenerated
  BY <1>8 DEF PGenerated, More, MaxPossible, TypeOK, PointerInv, Pointer
<1>9. CASE PPoll
  BY <1>9 DEF PPoll, SemLock, TypeOK, PointerInv, Pointer
<1>10. CASE PScan
  <2>1. Pointer(next[ptr])
    BY PointersAreOffsets DEF PointerInv
  <2>2. ptr' \in {0, ptr, next[ptr]} /\ UNCHANGED <<size, curr, next, off, nxt>>
    BY <1>10 DEF PScan, history, consumer
  <2>3. QED
    BY <2>1, <2>2 DEF PointerInv, Pointer
<1>11. CASE PRemoveShm
  BY <1>11 DEF PRemoveShm, TypeOK, PointerInv, Pointer
<1>12. CASE PRemoveSem
  BY <1>12 DEF PRemoveSem, TypeOK, PointerInv, Pointer
<1>13. CASE PDie
  BY <1>13 DEF PDie, TypeOK, PointerInv, Pointer
<1>14. ASSUME NEW c \in Consumers, CShmget(c) PROVE PointerInv'
  BY <1>14 DEF CShmget, TypeOK, PointerInv, Pointer
<1>15. ASSUME NEW c \in Consumers, CAttach(c) PROVE PointerInv'
  BY <1>15 DEF CAttach, TypeOK, PointerInv, Pointer
<1>16. ASSUME NEW c \in Consumers, CLock(c) PROVE PointerInv'
  BY <1>16 DEF CLock, ConsumerLock, Usable, SemLock, TypeOK, PointerInv, Pointer
<1>17. ASSUME NEW c \in Consumers, CReadCount(c) PROVE PointerInv'
  BY <1>17 DEF CReadCount, TypeOK, PointerInv, Pointer
<1>18. ASSUME NEW c \in Consumers, CReadNext(c) PROVE PointerInv'
  <2>1. Pointer(next[off[c]])
    BY PointersAreOffsets DEF PointerInv
  <2>2. nxt' = [nxt EXCEPT ![c] = next[off[c]]] /\ UNCHANGED <<size, curr, next, off, ptr>>
    BY <1>18 DEF CReadNext, history, producer
  <2>3. ASSUME NEW d \in Consumers PROVE Pointer(nxt'[d])
    BY <2>1, <2>2 DEF PointerInv, TypeOK
  <2>4. QED
    BY <2>2, <2>3 DEF PointerInv, Pointer
<1>19. ASSUME NEW c \in Consumers, CTake(c) PROVE PointerInv'
  BY <1>19 DEF CTake, ConsumerUnlock, LeaveScope, Usable, SemUnlock, TypeOK,
       PointerInv, Pointer
<1>20. ASSUME NEW c \in Consumers, CPrint(c) PROVE PointerInv'
  BY <1>20 DEF CPrint, TypeOK, PointerInv, Pointer
<1>21. ASSUME NEW c \in Consumers, CEnd(c) PROVE PointerInv'
  BY <1>21 DEF CEnd, ConsumerUnlock, LeaveScope, Usable, SemUnlock, TypeOK,
       PointerInv, Pointer
<1>22. ASSUME NEW c \in Consumers, CSkip(c) PROVE PointerInv'
  BY <1>22 DEF CSkip, ConsumerUnlock, LeaveScope, Usable, SemUnlock, TypeOK,
       PointerInv, Pointer
<1>23. ASSUME NEW c \in Consumers, CDie(c) PROVE PointerInv'
  BY <1>23 DEF CDie, Usable, TypeOK, PointerInv, Pointer
<1>24. CASE UNCHANGED vars
  BY <1>24 DEF vars, TypeOK, PointerInv, Pointer
<1>. QED
  BY <1>1, <1>2, <1>3, <1>4, <1>5, <1>6, <1>7, <1>8, <1>9, <1>10, <1>11, <1>12, <1>13,
       <1>14, <1>15, <1>16, <1>17, <1>18, <1>19, <1>20, <1>21, <1>22, <1>23, <1>24 DEF
       Next, Producing, Consuming, Finished

\* Every step keeps the bookkeeping of claims.
LEMMA ClaimInvStep == IInv /\ [Next]_vars => ClaimInv'
<1> SUFFICES ASSUME IInv, [Next]_vars PROVE ClaimInv'
  OBVIOUS
<1>0. TypeOK /\ SemInv /\ LayoutInv /\ PointerInv /\ ClaimInv /\ WalkInv
  BY DEF IInv
<1> USE <1>0, ShmAssumption DEF producer, consumer, history, ipc
<1>1. CASE PShmget
  BY <1>1 DEF PShmget, TypeOK, ClaimInv, Closing
<1>2. CASE PSemget
  BY <1>2 DEF PSemget, TypeOK, ClaimInv, Closing
<1>3. CASE PSetval
  BY <1>3 DEF PSetval, TypeOK, ClaimInv, Closing
<1>4. CASE PDraw
  BY <1>4 DEF PDraw, More, MaxPossible, TypeOK, ClaimInv, Closing
<1>5. CASE PLock
  BY <1>5 DEF PLock, SemLock, TypeOK, ClaimInv, Closing
<1>6. CASE PWrite
  <2>1. curr \in Offsets /\ size[curr] = 0 /\ took[curr] = 0 /\ draw > 0
    BY ShmAssumption, <1>6 DEF PWrite, LayoutInv, TypeOK, Offsets, HeaderWords
  <2>2. \A o \in Offsets : /\ size'[o] = IF o = curr THEN draw ELSE size[o]
                           /\ count'[o] = IF o = curr THEN draw ELSE count[o]
    BY <2>1, <1>6 DEF PWrite, TypeOK
  <2>3. \A c \in Consumers : off[c] \in Offsets
    BY PointersAreOffsets
  <2>4. UNCHANGED <<cpc, cnt, off, semOK, took>> /\ ~Closing'
    BY <1>6 DEF PWrite, consumer, Closing
  <2>5. \A o \in Offsets : size'[o] > 0 => count'[o] = IF took[o] = 0 THEN size'[o] ELSE 0
    BY <2>1, <2>2 DEF ClaimInv
  <2>6. \A c \in Consumers :
          cpc[c] \in {"readnext", "take"} /\ cnt[c] > 0 => cnt[c] = size'[off[c]]
    BY <2>1, <2>2, <2>3 DEF ClaimInv
  <2>7. \A o \in Offsets : count[o] > 0 => count'[o] > 0
    BY <2>1, <2>2
  <2> QED
    BY <2>3, <2>4, <2>5, <2>6, <2>7 DEF ClaimInv
<1>7. CASE PLink
  BY <1>7 DEF PLink, SemUnlock, NewBlock, TypeOK, ClaimInv, Closing
<1>8. CASE PGenerated
  BY <1>8 DEF PGenerated, More, MaxPossible, TypeOK, ClaimInv, Closing
<1>9. CASE PPoll
  BY <1>9 DEF PPoll, SemLock, TypeOK, ClaimInv, Closing
<1>10. CASE PScan
  <2>1. UNCHANGED <<cpc, cnt, off, semOK, took, count, size>>
    BY <1>10 DEF PScan, consumer, history
  <2>2. ASSUME Closing' PROVE \A o \in Offsets : count[o] = 0
    <3>1. count[ptr] = 0 /\ next[ptr] = 0 /\ Pointer(ptr)
      BY <2>2, <1>10 DEF PScan, Closing, PointerInv
    <3>2. \A o \in Offsets : o < ptr => count[o] = 0
      BY <1>10 DEF PScan, WalkInv
    <3>3. \A o \in Offsets : o > ptr => count[o] = 0
      BY <3>1, NothingAfter DEF TypeOK, Offsets
    <3> QED
      BY <3>1, <3>2, <3>3, PointersAreOffsets DEF TypeOK, Offsets
  <2> QED
    BY <2>1, <2>2 DEF ClaimInv
<1>11. CASE PRemoveShm
  BY <1>11 DEF PRemoveShm, TypeOK, ClaimInv, Closing
<1>12. CASE PRemoveSem
  BY <1>12 DEF PRemoveSem, TypeOK, ClaimInv, Closing
<1>13. CASE PDie
  BY <1>13 DEF PDie, TypeOK, ClaimInv, Closing
<1>14. ASSUME NEW c \in Consumers, CShmget(c) PROVE ClaimInv'
  BY <1>14 DEF CShmget, TypeOK, ClaimInv, Closing
<1>15. ASSUME NEW c \in Consumers, CAttach(c) PROVE ClaimInv'
  <2>1. (\A d \in Consumers : semOK'[d]) => \A d \in Consumers : semOK[d]
    BY <1>15 DEF CAttach, SemInv, TypeOK
  <2>2. \A d \in Consumers : cpc'[d] \in {"readnext", "take"} => cpc[d] = cpc'[d]
    BY <1>15 DEF CAttach, TypeOK
  <2>3. UNCHANGED <<cnt, off, took, count, size, ppc>>
    BY <1>15 DEF CAttach, producer, history
  <2> QED
    BY <2>1, <2>2, <2>3 DEF ClaimInv, Closing
<1>16. ASSUME NEW c \in Consumers, CLock(c) PROVE ClaimInv'
  BY <1>16 DEF CLock, ConsumerLock, Usable, SemLock, TypeOK, ClaimInv, Closing
<1>17. ASSUME NEW c \in Consumers, CReadCount(c) PROVE ClaimInv'
  <2>1. off[c] \in Offsets
    BY PointersAreOffsets
  <2>2. count[off[c]] > 0 => count[off[c]] = size[off[c]]
    BY <2>1 DEF ClaimInv, LayoutInv, TypeOK
  <2>3. \A d \in Consumers : d # c => cnt'[d] = cnt[d] /\ cpc'[d] = cpc[d]
    BY <1>17 DEF CReadCount, TypeOK
  <2>4. cnt'[c] = count[off[c]] /\ cpc'[c] = "readnext"
    BY <1>17 DEF CReadCount, TypeOK
  <2>5. UNCHANGED <<off, took, count, size, ppc, semOK>>
    BY <1>17 DEF CReadCount, producer, history
  <2> QED
    BY <2>2, <2>3, <2>4, <2>5 DEF ClaimInv, Closing
<1>18. ASSUME NEW c \in Consumers, CReadNext(c) PROVE ClaimInv'
  BY <1>18 DEF CReadNext, TypeOK, ClaimInv, Closing
<1>19. ASSUME NEW c \in Consumers, CTake(c) PROVE ClaimInv'
  <2>1. off[c] \in Offsets /\ size[off[c]] > 0
    BY PointersAreOffsets, <1>19 DEF CTake, ClaimInv, TypeOK
  <2>2. \A o \in Offsets : /\ count'[o] = IF o = off[c] THEN 0 ELSE count[o]
                           /\ took'[o] = IF o = off[c] THEN took[o] + 1 ELSE took[o]
    BY <2>1, <1>19 DEF CTake, TypeOK
  <2>3. \A d \in Consumers : d # c => cnt'[d] = cnt[d] /\ cpc'[d] = cpc[d] /\ off'[d] = off[d]
    BY <1>19 DEF CTake, LeaveScope, TypeOK
  <2>4. cpc'[c] = "print" /\ UNCHANGED <<size, ppc, semOK>>
    BY <1>19 DEF CTake, TypeOK, producer
  <2>5. \A o \in Offsets : size[o] > 0 => count'[o] = IF took'[o] = 0 THEN size[o] ELSE 0
    BY <2>2 DEF ClaimInv, TypeOK
  <2>6. ASSUME \A d \in Consumers : semOK[d]
        PROVE  /\ \A o \in Offsets : took'[o] <= 1
               /\ \A d \in Consumers :
                     cpc'[d] \in {"readnext", "take"} /\ cnt'[d] > 0 => count'[off'[d]] > 0
    <3>1. count[off[c]] > 0
      BY <2>6, <1>19 DEF CTake, ClaimInv
    <3>2. took[off[c]] = 0
      BY <3>1, <2>1 DEF ClaimInv
    <3>3. ~Closing /\ sem = "up"
      BY <2>6, <3>1, <2>1, <1>19 DEF ClaimInv, SemInv, CTake, Attached, Holding,
           TypeOK, IpcStates, Closing
    <3>4. \A d \in Consumers : d # c => cpc[d] \notin {"readnext", "take"}
      BY <2>6, <3>3, <1>19 DEF SemInv, InCS, Holding, CTake
    <3> QED
      BY <2>2, <2>3, <2>4, <2>6, <3>2, <3>4 DEF ClaimInv
  <2>7. Closing => \A o \in Offsets : count'[o] = 0
    BY <2>2 DEF ClaimInv
  <2> QED
    BY <2>3, <2>4, <2>5, <2>6, <2>7 DEF ClaimInv, Closing
<1>20. ASSUME NEW c \in Consumers, CPrint(c) PROVE ClaimInv'
  BY <1>20 DEF CPrint, TypeOK, ClaimInv, Closing
<1>21. ASSUME NEW c \in Consumers, CEnd(c) PROVE ClaimInv'
  BY <1>21 DEF CEnd, ConsumerUnlock, LeaveScope, Usable, SemUnlock, TypeOK, ClaimInv,
       Closing
<1>22. ASSUME NEW c \in Consumers, CSkip(c) PROVE ClaimInv'
  BY <1>22 DEF CSkip, ConsumerUnlock, LeaveScope, Usable, SemUnlock, TypeOK, ClaimInv,
       Closing
<1>23. ASSUME NEW c \in Consumers, CDie(c) PROVE ClaimInv'
  BY <1>23 DEF CDie, Usable, TypeOK, ClaimInv, Closing
<1>24. CASE UNCHANGED vars
  BY <1>24 DEF vars, TypeOK, ClaimInv, Closing
<1>. QED
  BY <1>1, <1>2, <1>3, <1>4, <1>5, <1>6, <1>7, <1>8, <1>9, <1>10, <1>11, <1>12, <1>13,
       <1>14, <1>15, <1>16, <1>17, <1>18, <1>19, <1>20, <1>21, <1>22, <1>23, <1>24 DEF
       Next, Producing, Consuming, Finished

\* Every step keeps what a walk has established behind it.
LEMMA WalkInvStep == IInv /\ [Next]_vars => WalkInv'
<1> SUFFICES ASSUME IInv, [Next]_vars PROVE WalkInv'
  OBVIOUS
<1>0. TypeOK /\ SemInv /\ LayoutInv /\ PointerInv /\ ClaimInv /\ WalkInv
  BY DEF IInv
<1> USE <1>0, ShmAssumption DEF producer, consumer, history, ipc
<1>1. CASE PShmget
  BY <1>1 DEF PShmget, TypeOK, WalkInv, InCS, Holding
<1>2. CASE PSemget
  BY <1>2 DEF PSemget, TypeOK, WalkInv, InCS, Holding
<1>3. CASE PSetval
  BY <1>3 DEF PSetval, TypeOK, WalkInv, InCS, Holding
<1>4. CASE PDraw
  BY <1>4 DEF PDraw, More, MaxPossible, TypeOK, WalkInv, InCS, Holding
<1>5. CASE PLock
  BY <1>5 DEF PLock, SemLock, TypeOK, WalkInv, InCS, Holding
<1>6. CASE PWrite
  <2>1. curr \in Offsets
    BY ShmAssumption, <1>6 DEF PWrite, LayoutInv, TypeOK, Offsets, HeaderWords
  <2>2. \A o \in Offsets : o # curr => count'[o] = count[o] /\ next'[o] = next[o]
    BY <2>1, <1>6 DEF PWrite, TypeOK
  <2>3. UNCHANGED <<cpc, cnt, off, semOK, nxt, processed, ptr>> /\ ppc' = "link"
    BY <1>6 DEF PWrite, consumer
  <2>4. \A c \in Consumers : ~InCS(c)
    BY <1>6 DEF PWrite, SemInv, ProducerInCS
  <2>5. \A c \in Consumers, o \in Offsets : o < off[c] => count'[o] = count[o]
    BY <2>1, <2>2, PointersAreOffsets DEF PointerInv, Pointer, Offsets
  <2>6. ptr = 0
    BY <1>6 DEF WalkInv, PWrite
  <2> QED
    BY <2>3, <2>4, <2>5, <2>6 DEF WalkInv, InCS, Holding
<1>7. CASE PLink
  <2>1. UNCHANGED <<cpc, cnt, off, semOK, nxt, processed, ptr, count>> /\ ppc' = "gen"
    BY <1>7 DEF PLink, consumer
  <2>2. \A c \in Consumers : ~InCS(c)
    BY <1>7 DEF PLink, SemInv, ProducerInCS
  <2>3. ptr = 0
    BY <1>7 DEF WalkInv, PLink
  <2> QED
    BY <2>1, <2>2, <2>3 DEF WalkInv, InCS, Holding
<1>8. CASE PGenerated
  BY <1>8 DEF PGenerated, More, MaxPossible, TypeOK, WalkInv, InCS, Holding
<1>9. CASE PPoll
  <2>1. UNCHANGED <<consumer, ptr, count, next>> /\ ppc' = "scan"
    BY <1>9 DEF PPoll
  <2>2. ptr = 0
    BY <1>9 DEF WalkInv, PPoll
  <2>3. \A o \in Offsets : ~(o < ptr)
    BY <2>2 DEF Offsets
  <2> QED
    BY <2>1, <2>3 DEF WalkInv, InCS, consumer
<1>10. CASE PScan
  <2>1. UNCHANGED <<consumer, count, next>>
    BY <1>10 DEF PScan
  <2>2. ASSUME ppc' = "scan" PROVE \A o \in Offsets : o < ptr' => count[o] = 0
    <3>1. count[ptr] = 0 /\ next[ptr] # 0 /\ ptr' = next[ptr] /\ Pointer(ptr)
      BY <2>2, <1>10 DEF PScan, PointerInv
    <3>2. \A o \in Offsets : o < ptr => count[o] = 0
      BY <1>10 DEF PScan, WalkInv
    <3>3. \A o \in Offsets : ptr < o /\ o < next[ptr] => count[o] = 0
      BY <3>1, NothingBetween
    <3> QED
      BY <3>1, <3>2, <3>3, PointersAreOffsets DEF TypeOK, Offsets
  <2>3. ppc' \notin {"scan", "dead"} => ptr' = 0
    BY <1>10 DEF PScan
  <2> QED
    BY <2>1, <2>2, <2>3 DEF WalkInv, InCS, consumer
<1>11. CASE PRemoveShm
  BY <1>11 DEF PRemoveShm, TypeOK, WalkInv, InCS, Holding
<1>12. CASE PRemoveSem
  BY <1>12 DEF PRemoveSem, TypeOK, WalkInv, InCS, Holding
<1>13. CASE PDie
  BY <1>13 DEF PDie, TypeOK, WalkInv, InCS, Holding
<1>14. ASSUME NEW c \in Consumers, CShmget(c) PROVE WalkInv'
  BY <1>14 DEF CShmget, TypeOK, WalkInv, InCS, Holding
<1>15. ASSUME NEW c \in Consumers, CAttach(c) PROVE WalkInv'
  <2>1. \A d \in Consumers : d # c => cpc'[d] = cpc[d] /\ semOK'[d] = semOK[d]
    BY <1>15 DEF CAttach, TypeOK
  <2>2. cpc'[c] \in {"lock", "exited"} /\ off[c] = 0
    BY <1>15 DEF CAttach, TypeOK, WalkInv
  <2>3. UNCHANGED <<cnt, off, nxt, processed, count, next, ptr, ppc>>
    BY <1>15 DEF CAttach, producer
  <2>4. \A o \in Offsets : ~(o < off[c])
    BY <2>2 DEF Offsets
  <2> QED
    BY <2>1, <2>2, <2>3, <2>4 DEF WalkInv, InCS, Holding
<1>16. ASSUME NEW c \in Consumers, CLock(c) PROVE WalkInv'
  BY <1>16 DEF CLock, ConsumerLock, Usable, SemLock, TypeOK, WalkInv, InCS, Holding
<1>17. ASSUME NEW c \in Consumers, CReadCount(c) PROVE WalkInv'
  BY <1>17 DEF CReadCount, TypeOK, WalkInv, InCS, Holding
<1>18. ASSUME NEW c \in Consumers, CReadNext(c) PROVE WalkInv'
  BY <1>18 DEF CReadNext, TypeOK, WalkInv, InCS, Holding
<1>19. ASSUME NEW c \in Consumers, CTake(c) PROVE WalkInv'
  BY <1>19 DEF CTake, ConsumerUnlock, LeaveScope, Usable, SemUnlock, TypeOK, WalkInv,
       InCS, Holding
<1>20. ASSUME NEW c \in Consumers, CPrint(c) PROVE WalkInv'
  BY <1>20 DEF CPrint, TypeOK, WalkInv, InCS, Holding
<1>21. ASSUME NEW c \in Consumers, CEnd(c) PROVE WalkInv'
  <2>1. \A d \in Consumers : d # c => /\ cpc'[d] = cpc[d] /\ cnt'[d] = cnt[d] /\ nxt'[d] = nxt[d]
                                      /\ off'[d] = off[d] /\ processed'[d] = processed[d]
    BY <1>21 DEF CEnd, LeaveScope, TypeOK
  <2>2. \/ cpc'[c] = "empty" /\ off'[c] = off[c] /\ processed'[c] = processed[c]
        \/ cpc'[c] = "lock" /\ off'[c] = 0
    BY <1>21 DEF CEnd, TypeOK
  <2>3. UNCHANGED <<semOK, count, next, ptr, ppc>>
    BY <1>21 DEF CEnd, producer
  <2>4. off'[c] = 0 => \A o \in Offsets : ~(o < off'[c])
    BY DEF Offsets
  <2> QED
    BY <2>1, <2>2, <2>3, <2>4 DEF WalkInv, InCS, Holding
<1>22. ASSUME NEW c \in Consumers, CSkip(c) PROVE WalkInv'
  <2>1. \A d \in Consumers : d # c => /\ cpc'[d] = cpc[d] /\ cnt'[d] = cnt[d] /\ nxt'[d] = nxt[d]
                                      /\ off'[d] = off[d]
    BY <1>22 DEF CSkip, LeaveScope, TypeOK
  <2>2. cpc'[c] = "lock" /\ off'[c] = nxt[c]
    BY <1>22 DEF CSkip, TypeOK
  <2>3. UNCHANGED <<semOK, count, next, ptr, ppc, processed>>
    BY <1>22 DEF CSkip, producer
  <2>4. ASSUME semOK[c], processed[c] = 0 PROVE \A o \in Offsets : o < nxt[c] => count[o] = 0
    <3>1. nxt[c] = next[off[c]] /\ nxt[c] # 0 /\ Pointer(off[c]) /\ off[c] \in Offsets
      BY <2>4, PointersAreOffsets, <1>22 DEF CSkip, WalkInv, PointerInv
    <3>2. count[off[c]] = 0
      BY <2>4, <1>22 DEF CSkip, WalkInv, InCS, Holding
    <3>3. \A o \in Offsets : o < off[c] => count[o] = 0
      BY <2>4 DEF WalkInv
    <3>4. \A o \in Offsets : off[c] < o /\ o < next[off[c]] => count[o] = 0
      BY <3>1, NothingBetween
    <3> QED
      BY <3>1, <3>2, <3>3, <3>4 DEF TypeOK, Offsets
  <2> QED
    BY <2>1, <2>2, <2>3, <2>4 DEF WalkInv, InCS, Holding
<1>23. ASSUME NEW c \in Consumers, CDie(c) PROVE WalkInv'
  BY <1>23 DEF CDie, Usable, TypeOK, WalkInv, InCS, Holding
<1>24. CASE UNCHANGED vars
  BY <1>24 DEF vars, TypeOK, WalkInv, InCS, Holding
<1>. QED
  BY <1>1, <1>2, <1>3, <1>4, <1>5, <1>6, <1>7, <1>8, <1>9, <1>10, <1>11, <1>12, <1>13,
       <1>14, <1>15, <1>16, <1>17, <1>18, <1>19, <1>20, <1>21, <1>22, <1>23, <1>24 DEF
       Next, Producing, Consuming, Finished

-----------------------------------------------------------------------------
\* The initial state satisfies the invariant.
LEMMA IInvInit == Init => IInv
<1> SUFFICES ASSUME Init PROVE IInv
  OBVIOUS
<1> USE ShmAssumption DEF Init
<1>1. TypeOK
  BY DEF TypeOK, IpcStates, ProducerStates, ConsumerStates
<1>2. SemInv
  BY DEF SemInv, InCS, ProducerInCS, Holding, Attached
<1>3. LayoutInv
  BY DEF LayoutInv, Closing
<1>4. PointerInv
  BY DEF PointerInv, Pointer, HeaderWords, Offsets
<1>5. ClaimInv
  BY DEF ClaimInv, Closing
<1>6. WalkInv
  BY DEF WalkInv, InCS, Holding, Offsets
<1>7. QED
  BY <1>1, <1>2, <1>3, <1>4, <1>5, <1>6 DEF IInv

\* The invariant holds in every reachable state.
THEOREM Invariance == Spec => []IInv
<1>1. IInv /\ [Next]_vars => IInv'
  BY TypeOKStep, SemInvStep, LayoutInvStep, PointerInvStep, ClaimInvStep, WalkInvStep
     DEF IInv
<1>2. QED
  BY IInvInit, <1>1, PTL DEF Spec

\* Every variable keeps its type; the semaphore of semaphor.h never exceeds one.
THEOREM TypeCorrect == Spec => []TypeOK
<1>1. IInv => TypeOK
  BY DEF IInv
<1>2. QED
  BY Invariance, <1>1, PTL

\* The semaphore excludes: at most one process that uses it is between
\* semaphor_lock and semaphor_unlock, whoever is killed and wherever.
THEOREM Exclusion == Spec => []MutualExclusion
<1>1. IInv => MutualExclusion
  BY DEF IInv, SemInv, InCS, ProducerInCS, MutualExclusion
<1>2. QED
  BY Invariance, <1>1, PTL

\* No header or number read or written lies outside the segment, and no block
\* overlaps another, whatever counts are drawn.
THEOREM MemorySafety == Spec => []InBounds
<1>1. ASSUME IInv PROVE InBounds
  <2> USE <1>1, ShmAssumption DEF IInv
  <2>1. \A o \in Written : o + HeaderWords + size[o] <= Total
    BY DEF LayoutInv, Written, End
  <2>2. \A o, q \in Written : o < q => o + HeaderWords + size[o] <= q
    BY DEF LayoutInv, Written, End
  <2>3. ASSUME NEW p, Pointer(p) PROVE p + HeaderWords <= Total
    BY <2>3 DEF Pointer, HeaderWords
  <2>4. ASSUME NEW c \in Consumers, cpc[c] = "take"
        PROVE  off[c] + HeaderWords + cnt[c] <= Total
    <3>1. cnt[c] = size[off[c]] /\ cnt[c] > 0
      BY <2>4 DEF ClaimInv
    <3>2. off[c] \in Written
      BY <3>1, PointersAreOffsets DEF Written
    <3>3. QED
      BY <3>1, <3>2, <2>1
  <2>5. QED
    BY <2>1, <2>2, <2>3, <2>4 DEF InBounds, PointerInv
<1>2. QED
  BY Invariance, <1>1, PTL

\* With the semaphore found by every consumer, no block is claimed twice, although
\* consumers run on without it once the producer has removed it.
THEOREM ClaimedOnce == Spec => []TakenOnce
<1>1. ASSUME IInv PROVE TakenOnce
  <2>1. SUFFICES ASSUME NEW o \in Offsets, took[o] > 1, \A c \in Consumers : semOK[c] = TRUE
                 PROVE  FALSE
    BY <1>1 DEF TakenOnce, IInv, TypeOK
  <2>2. took[o] <= 1 /\ took[o] \in Nat
    BY <1>1, <2>1 DEF IInv, ClaimInv, TypeOK
  <2>3. QED
    BY <2>1, <2>2
<1>2. QED
  BY Invariance, <1>1, PTL

\* A consumer that leaves with "memory is empty" and uses the semaphore has found
\* every block written so far claimed, however many consumers work beside it.
THEOREM EmptyExitIsTrue == Spec => EmptyExit
<1>1. ASSUME IInv, [Next]_vars
      PROVE  [\A c \in Consumers :
                semOK[c] /\ cpc[c] = "end" /\ cpc'[c] = "empty"
                => \A o \in Written : count[o] = 0]_vars
  <2>0. TypeOK /\ LayoutInv /\ PointerInv /\ WalkInv
    BY <1>1 DEF IInv
  <2> USE <2>0, ShmAssumption
  <2>1. SUFFICES ASSUME NEW c \in Consumers, semOK[c], cpc[c] = "end", cpc'[c] = "empty",
                        NEW o \in Offsets
                 PROVE  count[o] = 0
    BY DEF Written
  <2>2. processed[c] = 0
    <3>1. \E d \in Consumers : CEnd(d) /\ d = c
      BY <1>1, <2>1 DEF Next, Producing, Consuming, Finished, TypeOK, vars, consumer,
         PShmget, PSemget, PSetval, PDraw, PLock, PWrite, PLink, PGenerated, PPoll,
         PScan, PRemoveShm, PRemoveSem, PDie, CShmget, CAttach, CLock, CReadCount,
         CReadNext, CTake, CPrint, CEnd, CSkip, CDie
    <3>2. QED
      BY <3>1, <2>1 DEF CEnd, TypeOK
  <2>3. \A q \in Offsets : q < off[c] => count[q] = 0
    BY <2>1, <2>2 DEF WalkInv
  <2>4. count[off[c]] = 0 /\ next[off[c]] = 0
    BY <2>1 DEF WalkInv, InCS, Holding
  <2>5. Pointer(off[c]) /\ off[c] \in Offsets
    BY PointersAreOffsets DEF PointerInv
  <2>6. off[c] < o => count[o] = 0
    BY <2>4, <2>5, NothingAfter
  <2>7. QED
    BY <2>3, <2>4, <2>5, <2>6 DEF Offsets
<1>2. QED
  BY Invariance, <1>1, PTL DEF Spec, EmptyExit

-----------------------------------------------------------------------------
\* A step of the processes is a step of the pool or leaves it as it is.
LEMMA PoolStep ==
  ASSUME IInv, [Next]_vars
  PROVE  [Pool!PoolNext]_(Pool!poolVars)
<1>0. TypeOK /\ SemInv /\ LayoutInv /\ PointerInv /\ ClaimInv
  BY DEF IInv
<1> USE <1>0, ShmAssumption
<1>1. CASE PWrite
  <2>1. curr \in Offsets /\ size[curr] = 0 /\ draw > 0
    BY <1>1 DEF PWrite, LayoutInv, TypeOK, Offsets, HeaderWords
  <2>2. Written' = Written \cup {curr} /\ curr \notin Written
    BY <1>1, <2>1 DEF PWrite, Written, TypeOK
  <2>3. shm # "gone" /\ UNCHANGED <<shm, took>>
    BY <1>1 DEF PWrite, SemInv, ipc
  <2>4. Pool!Produce(curr)
    BY <2>1, <2>2, <2>3 DEF Pool!Produce
  <2>5. QED
    BY <2>1, <2>4 DEF Pool!PoolNext
<1>2. ASSUME NEW c \in Consumers, CTake(c) PROVE [Pool!PoolNext]_(Pool!poolVars)
  <2>1. off[c] \in Offsets /\ size[off[c]] > 0
    BY <1>2, PointersAreOffsets DEF CTake, ClaimInv, TypeOK
  <2>2. \A o \in Offsets : took'[o] = IF o = off[c] THEN took[o] + 1 ELSE took[o]
    BY <1>2, <2>1 DEF CTake, TypeOK
  <2>3. {o \in Offsets : took'[o] > 0} = {o \in Offsets : took[o] > 0} \cup {off[c]}
    BY <2>1, <2>2 DEF TypeOK
  <2>4. UNCHANGED <<shm, size>> /\ Written' = Written /\ off[c] \in Written
    BY <1>2, <2>1 DEF CTake, ipc, Written
  <2>5. CASE took[off[c]] = 0
    <3>1. PICK b \in Offsets : b = off[c]
      BY <2>1
    <3>2. Pool!Take(b)
      BY <2>1, <2>3, <2>4, <2>5, <3>1 DEF Pool!Take
    <3>3. QED
      BY <3>1, <3>2 DEF Pool!PoolNext
  <2>6. CASE took[off[c]] # 0
    <3>1. off[c] \in {o \in Offsets : took[o] > 0}
      BY <2>1, <2>6 DEF TypeOK
    <3>2. QED
      BY <2>3, <2>4, <3>1 DEF Pool!poolVars
  <2>7. QED
    BY <2>5, <2>6
<1>3. CASE PRemoveShm
  <2>1. shm # "gone" /\ shm' = "gone" /\ UNCHANGED <<took, size>>
    BY <1>3 DEF PRemoveShm, SemInv, history
  <2>2. \A o \in Offsets : size[o] > 0 <=> took[o] > 0
    BY <1>3 DEF PRemoveShm, ClaimInv, Closing, LayoutInv, TypeOK
  <2>3. Written = {o \in Offsets : took[o] > 0} /\ Written' = Written
    BY <2>1, <2>2 DEF Written
  <2>4. Pool!Close
    BY <2>1, <2>3 DEF Pool!Close
  <2>5. QED
    BY <2>4 DEF Pool!PoolNext
<1>4. CASE UNCHANGED <<size, took>> /\ (shm' = shm \/ (shm' = "up" /\ shm # "gone"))
  BY <1>4 DEF Pool!poolVars, Written
<1>5. CASE PShmget
  BY <1>4, <1>5 DEF PShmget, SemInv, history
<1>6. CASE \/ PSemget \/ PSetval \/ PDraw \/ PLock \/ PLink \/ PGenerated \/ PPoll
           \/ PScan \/ PRemoveSem \/ PDie
  BY <1>4, <1>6 DEF PSemget, PSetval, PDraw, PLock, PLink, PGenerated, PPoll, PScan,
     PRemoveSem, PDie, history, ipc
<1>7. ASSUME NEW c \in Consumers,
             \/ CShmget(c) \/ CAttach(c) \/ CLock(c) \/ CReadCount(c) \/ CReadNext(c)
             \/ CPrint(c) \/ CEnd(c) \/ CSkip(c) \/ CDie(c)
      PROVE  [Pool!PoolNext]_(Pool!poolVars)
  BY <1>4, <1>7 DEF CShmget, CAttach, CLock, CReadCount, CReadNext, CPrint, CEnd, CSkip,
     CDie, history, ipc
<1>8. CASE UNCHANGED vars
  BY <1>4, <1>8 DEF vars, history, ipc
<1>9. QED
  BY <1>1, <1>2, <1>3, <1>5, <1>6, <1>7, <1>8 DEF Next, Producing, Consuming, Finished

\* The processes of module3/04 implement the abstract pool of blocks.
THEOREM Refinement == Spec => ImplementsPool
<1>1. Init => Pool!PoolInit
  BY DEF Init, Pool!PoolInit, Written
<1>2. QED
  BY Invariance, PoolStep, <1>1, PTL DEF Spec, ImplementsPool, Pool!PoolSpec

=============================================================================

