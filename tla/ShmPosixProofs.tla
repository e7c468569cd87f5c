--------------------------- MODULE ShmPosixProofs ---------------------------
(***************************************************************************)
(* Theorems about ShmPosix, for any sets of producers and consumers, any    *)
(* number of blocks and of killed processes.                               *)
(***************************************************************************)
EXTENDS ShmPosixInv, TLAPS, FiniteSetTheorems

\* Every step keeps the types; a semaphore does not exceed one because only the process
\* inside posts it.
LEMMA TypeOKStep == IInv /\ [Next]_vars => TypeOK'
<1> SUFFICES ASSUME IInv, [Next]_vars PROVE TypeOK'
  OBVIOUS
<1>0. TypeOK
  BY DEF IInv
<1>a. \A p \in Producers :
        /\ ppc[p] \in Inner => val[p] = 0
        /\ link[p][at[p]] # 0 => link[p][at[p]] \in Blocks
  BY PosixAssumption DEF IInv, SemInv, Unit, TypeOK, Blocks
<1>b. \A c \in Consumers : cpc[c] \in Holding =>
        semh[c] \in Producers /\ val[semh[c]] = 0 /\ seg[c] \in Producers
  BY DEF IInv, SemInv, Handles, TypeOK, Names, Attached
<1>c. /\ 1 \in Blocks
      /\ \A b \in Blocks : b < MaxBlocks => b + 1 \in Blocks /\ b + 1 \in 0 .. MaxBlocks
  BY PosixAssumption DEF Blocks
<1>d. \A p \in Producers : \A v \in 0 .. 1 : [val EXCEPT ![p] = v] \in [Producers -> 0 .. 1]
  BY <1>0 DEF TypeOK
<1>e. \A p \in Producers : val[p] \in Nat /\ (val[p] > 0 => val[p] - 1 \in 0 .. 1)
                           /\ (val[p] = 0 => val[p] + 1 \in 0 .. 1)
  BY <1>0 DEF TypeOK
<1>f. \A c \in Consumers : cpc[c] = "skip" => nxt[c] \in Blocks
  BY PosixAssumption DEF IInv, SemInv, Handles, TypeOK, Blocks
<1> USE <1>0, PosixAssumption DEF names, memory, producer, consumer, PGo, CGo,
       ProducerStates, ConsumerStates, Attached, Holding, Ended, Names, Inner
<1>1. ASSUME NEW p \in Producers, PShmOpen(p) PROVE TypeOK'
  BY <1>1 DEF PShmOpen, TypeOK
<1>2. ASSUME NEW p \in Producers, PTruncate(p) PROVE TypeOK'
  BY <1>2 DEF PTruncate, TypeOK
<1>3. ASSUME NEW p \in Producers, PSemOpen(p) PROVE TypeOK'
  <2>1. val' \in [Producers -> 0 .. 1]
    <3>1. CASE val' = val
      BY <3>1 DEF TypeOK
    <3>2. CASE val' = [val EXCEPT ![p] = 1]
      BY <3>2, <1>d
    <3>3. QED
      BY <1>3, <3>1, <3>2 DEF PSemOpen
  <2>2. ppc' \in [Producers -> ProducerStates] /\ semName' \in Names
    BY <1>3 DEF PSemOpen, TypeOK
  <2>3. QED
    BY <1>3, <2>1, <2>2 DEF PSemOpen, TypeOK
<1>4. ASSUME NEW p \in Producers, PWait(p) PROVE TypeOK'
  BY <1>4 DEF PWait, Wait, TypeOK
<1>5. ASSUME NEW p \in Producers, PWrite(p) PROVE TypeOK'
  BY <1>5 DEF PWrite, TypeOK
<1>6. ASSUME NEW p \in Producers, PLink(p) PROVE TypeOK'
  <2>1. val' \in [Producers -> 0 .. 1]
    BY <1>6, <1>a, <1>d, <1>e DEF PLink, Post, TypeOK
  <2>2. at' \in [Producers -> Blocks] /\ ppc' \in [Producers -> ProducerStates]
    <3>1. CASE at' = [at EXCEPT ![p] = 1] /\ ppc' = [ppc EXCEPT ![p] = "poll"]
      BY <3>1, <1>c DEF TypeOK
    <3>2. CASE at[p] < MaxBlocks /\ at' = [at EXCEPT ![p] = @ + 1]
               /\ ppc' = [ppc EXCEPT ![p] = "gen"]
      BY <3>2, <1>c DEF TypeOK
    <3>3. QED
      BY <1>6, <3>1, <3>2 DEF PLink
  <2>4. link' \in [Producers -> [Blocks -> 0 .. MaxBlocks]]
    <3>1. CASE link' = link
      BY <3>1 DEF TypeOK
    <3>2. CASE at[p] < MaxBlocks /\ link' = [link EXCEPT ![p][at[p]] = at[p] + 1]
      <4>1. at[p] \in Blocks /\ at[p] + 1 \in 0 .. MaxBlocks
        BY <3>2, <1>c DEF TypeOK
      <4>2. QED
        BY <3>2, <4>1 DEF TypeOK
    <3>3. QED
      BY <1>6, <3>1, <3>2 DEF PLink
  <2>3. QED
    BY <1>6, <2>1, <2>2, <2>4 DEF PLink, TypeOK
<1>7. ASSUME NEW p \in Producers, PPoll(p) PROVE TypeOK'
  BY <1>7 DEF PPoll, Wait, TypeOK
<1>8. ASSUME NEW p \in Producers, PScan(p) PROVE TypeOK'
  <2>1. val' \in [Producers -> 0 .. 1]
    <3>1. CASE val' = val
      BY <3>1 DEF TypeOK
    <3>2. CASE Post(p)
      BY <1>8, <3>2, <1>a, <1>d, <1>e DEF PScan, Post
    <3>3. QED
      BY <1>8, <3>1, <3>2 DEF PScan
  <2>4. ppc' \in [Producers -> ProducerStates]
    <3>1. ppc' \in {ppc, [ppc EXCEPT ![p] = "poll"], [ppc EXCEPT ![p] = "rmshm"]}
      BY <1>8 DEF PScan
    <3>2. QED
      BY <3>1 DEF TypeOK
  <2>2. at' \in [Producers -> Blocks]
    BY <1>8, <1>a, <1>c DEF PScan, TypeOK
  <2>3. QED
    BY <1>8, <2>1, <2>2, <2>4 DEF PScan, TypeOK
<1>9. ASSUME NEW p \in Producers, PRemoveShm(p) PROVE TypeOK'
  BY <1>9 DEF PRemoveShm, TypeOK
<1>10. ASSUME NEW p \in Producers, PRemoveSem(p) PROVE TypeOK'
  BY <1>10 DEF PRemoveSem, TypeOK
<1>11. ASSUME NEW p \in Producers, PDie(p) PROVE TypeOK'
  BY <1>11 DEF PDie, TypeOK
<1>12. ASSUME NEW c \in Consumers, CMap(c) PROVE TypeOK'
  BY <1>12 DEF CMap, TypeOK
<1>13. ASSUME NEW c \in Consumers, COpenSem(c) PROVE TypeOK'
  BY <1>13 DEF COpenSem, TypeOK
<1>14. ASSUME NEW c \in Consumers, CLock(c) PROVE TypeOK'
  <2>1. val' \in [Producers -> 0 .. 1]
    <3>1. CASE val' = val
      BY <3>1 DEF TypeOK
    <3>2. CASE semh[c] # None /\ Wait(semh[c])
      <4>1. semh[c] \in Producers
        BY <3>2 DEF TypeOK
      <4>2. QED
        BY <3>2, <4>1, <1>d, <1>e DEF Wait
    <3>3. QED
      BY <1>14, <3>1, <3>2 DEF CLock
  <2>2. cpc' \in [Consumers -> ConsumerStates]
    BY <1>14 DEF CLock, TypeOK
  <2>3. QED
    BY <1>14, <2>1, <2>2 DEF CLock, TypeOK
<1>15. ASSUME NEW c \in Consumers, CReadCount(c) PROVE TypeOK'
  <2>1. cpc' \in [Consumers -> ConsumerStates]
    BY <1>15 DEF CReadCount, TypeOK
  <2>2. cnt' \in [Consumers -> BOOLEAN]
    <3>1. seg[c] \in Producers /\ pos[c] \in Blocks
      BY <1>15, <1>b DEF CReadCount, TypeOK
    <3>2. full[seg[c]][pos[c]] \in BOOLEAN
      BY <3>1 DEF TypeOK
    <3>3. QED
      BY <1>15, <3>2 DEF CReadCount, TypeOK
  <2>3. QED
    BY <1>15, <2>1, <2>2 DEF CReadCount, TypeOK
<1>16. ASSUME NEW c \in Consumers, CReadNext(c) PROVE TypeOK'
  BY <1>16, <1>b DEF CReadNext, TypeOK
<1>17. ASSUME NEW c \in Consumers, CTake(c) PROVE TypeOK'
  <2>1. val' \in [Producers -> 0 .. 1]
    BY <1>17, <1>b, <1>d, <1>e DEF CTake, Post
  <2>2. pos' \in [Consumers -> Blocks] /\ cpc' \in [Consumers -> ConsumerStates]
    <3>1. Target(c) \in Blocks
      BY <1>c DEF Target, TypeOK, Blocks
    <3>2. QED
      BY <1>17, <3>1 DEF CTake, TypeOK
  <2>3. cnt' \in [Consumers -> BOOLEAN] /\ nxt' \in [Consumers -> 0 .. MaxBlocks]
    BY <1>17 DEF CTake, LeaveScope, TypeOK
  <2>4. full' \in [Producers -> [Blocks -> BOOLEAN]] /\ took' \in [Producers -> [Blocks -> Nat]]
    BY <1>17, <1>b DEF CTake, TypeOK
  <2>5. QED
    BY <1>17, <2>1, <2>2, <2>3, <2>4 DEF CTake, TypeOK
<1>18. ASSUME NEW c \in Consumers, CPrint(c) PROVE TypeOK'
  BY <1>18 DEF CPrint, TypeOK
<1>19. ASSUME NEW c \in Consumers, CEnd(c) PROVE TypeOK'
  BY <1>19, <1>b, <1>c DEF CEnd, Post, LeaveScope, TypeOK
<1>20. ASSUME NEW c \in Consumers, CSkip(c) PROVE TypeOK'
  BY <1>20, <1>b, <1>f DEF CSkip, Post, LeaveScope, TypeOK
<1>21. ASSUME NEW c \in Consumers, CDie(c) PROVE TypeOK'
  BY <1>21 DEF CDie, TypeOK
<1>22. CASE UNCHANGED vars
  BY <1>22 DEF vars, TypeOK
<1>. QED
  BY <1>1, <1>2, <1>3, <1>4, <1>5, <1>6, <1>7, <1>8, <1>9, <1>10, <1>11, <1>12, <1>13,
       <1>14, <1>15, <1>16, <1>17, <1>18, <1>19, <1>20, <1>21, <1>22 DEF Next,
       Producing, Consuming

\* Every step keeps what the names denote.
LEMMA NameInvStep == IInv /\ [Next]_vars => NameInv'
<1> SUFFICES ASSUME IInv, [Next]_vars, NEW q \in Producers PROVE Naming(q)'
  BY DEF NameInv
<1>0. TypeOK /\ \A p \in Producers : Naming(p)
  BY DEF IInv, NameInv
<1> USE <1>0, PosixAssumption DEF names, memory, producer, consumer, PGo, CGo,
       Generating, Closing, Opening
<1>1. ASSUME NEW p \in Producers, PShmOpen(p) PROVE Naming(q)'
  BY <1>1 DEF PShmOpen, TypeOK, Naming
<1>2. ASSUME NEW p \in Producers, PTruncate(p) PROVE Naming(q)'
  BY <1>2 DEF PTruncate, TypeOK, Naming
<1>3. ASSUME NEW p \in Producers, PSemOpen(p) PROVE Naming(q)'
  BY <1>3 DEF PSemOpen, TypeOK, Naming
<1>4. ASSUME NEW p \in Producers, PWait(p) PROVE Naming(q)'
  BY <1>4 DEF PWait, Wait, TypeOK, Naming
<1>5. ASSUME NEW p \in Producers, PWrite(p) PROVE Naming(q)'
  BY <1>5 DEF PWrite, TypeOK, Naming
<1>6. ASSUME NEW p \in Producers, PLink(p) PROVE Naming(q)'
  BY <1>6 DEF PLink, Post, TypeOK, Naming
<1>7. ASSUME NEW p \in Producers, PPoll(p) PROVE Naming(q)'
  BY <1>7 DEF PPoll, Wait, TypeOK, Naming
<1>8. ASSUME NEW p \in Producers, PScan(p) PROVE Naming(q)'
  BY <1>8 DEF PScan, Post, TypeOK, Naming
<1>9. ASSUME NEW p \in Producers, PRemoveShm(p) PROVE Naming(q)'
  BY <1>9 DEF PRemoveShm, TypeOK, Naming
<1>10. ASSUME NEW p \in Producers, PRemoveSem(p) PROVE Naming(q)'
  BY <1>10 DEF PRemoveSem, TypeOK, Naming
<1>11. ASSUME NEW p \in Producers, PDie(p) PROVE Naming(q)'
  BY <1>11 DEF PDie, TypeOK, Naming
<1>12. ASSUME NEW c \in Consumers, CMap(c) PROVE Naming(q)'
  BY <1>12 DEF CMap, TypeOK, Naming
<1>13. ASSUME NEW c \in Consumers, COpenSem(c) PROVE Naming(q)'
  BY <1>13 DEF COpenSem, TypeOK, Naming
<1>14. ASSUME NEW c \in Consumers, CLock(c) PROVE Naming(q)'
  BY <1>14 DEF CLock, Wait, TypeOK, Naming
<1>15. ASSUME NEW c \in Consumers, CReadCount(c) PROVE Naming(q)'
  BY <1>15 DEF CReadCount, TypeOK, Naming
<1>16. ASSUME NEW c \in Consumers, CReadNext(c) PROVE Naming(q)'
  BY <1>16 DEF CReadNext, TypeOK, Naming
<1>17. ASSUME NEW c \in Consumers, CTake(c) PROVE Naming(q)'
  BY <1>17 DEF CTake, Post, Target, LeaveScope, TypeOK, Naming
<1>18. ASSUME NEW c \in Consumers, CPrint(c) PROVE Naming(q)'
  BY <1>18 DEF CPrint, TypeOK, Naming
<1>19. ASSUME NEW c \in Consumers, CEnd(c) PROVE Naming(q)'
  BY <1>19 DEF CEnd, Post, LeaveScope, TypeOK, Naming
<1>20. ASSUME NEW c \in Consumers, CSkip(c) PROVE Naming(q)'
  BY <1>20 DEF CSkip, Post, LeaveScope, TypeOK, Naming
<1>21. ASSUME NEW c \in Consumers, CDie(c) PROVE Naming(q)'
  BY <1>21 DEF CDie, TypeOK, Naming
<1>22. CASE UNCHANGED vars
  BY <1>22 DEF vars, TypeOK, Naming
<1>. QED
  BY <1>1, <1>2, <1>3, <1>4, <1>5, <1>6, <1>7, <1>8, <1>9, <1>10, <1>11, <1>12, <1>13,
       <1>14, <1>15, <1>16, <1>17, <1>18, <1>19, <1>20, <1>21, <1>22 DEF Next,
       Producing, Consuming

\* Every step keeps a producer's unit: a consumer that posts its semaphore was the one
\* inside.
LEMMA UnitStep == IInv /\ [Next]_vars => \A q \in Producers : Unit(q)'
<1> SUFFICES ASSUME IInv, [Next]_vars, NEW q \in Producers PROVE Unit(q)'
  OBVIOUS
<1>0. TypeOK /\ Unit(q) /\ Naming(q) /\ \A d \in Consumers : Handles(d)
  BY DEF IInv, NameInv, SemInv
<1> USE <1>0, PosixAssumption DEF names, memory, producer, consumer, PGo, CGo,
       Inner, Opening, Holding
<1>1. ASSUME NEW p \in Producers, PShmOpen(p) PROVE Unit(q)'
  BY <1>1 DEF PShmOpen, TypeOK, Unit, Naming, Handles
<1>2. ASSUME NEW p \in Producers, PTruncate(p) PROVE Unit(q)'
  BY <1>2 DEF PTruncate, TypeOK, Unit, Naming, Handles
<1>3. ASSUME NEW p \in Producers, PSemOpen(p) PROVE Unit(q)'
  BY <1>3 DEF PSemOpen, TypeOK, Unit, Naming, Handles
<1>4. ASSUME NEW p \in Producers, PWait(p) PROVE Unit(q)'
  BY <1>4 DEF PWait, Wait, TypeOK, Unit, Naming, Handles
<1>5. ASSUME NEW p \in Producers, PWrite(p) PROVE Unit(q)'
  BY <1>5 DEF PWrite, TypeOK, Unit, Naming, Handles
<1>6. ASSUME NEW p \in Producers, PLink(p) PROVE Unit(q)'
  BY <1>6 DEF PLink, Post, TypeOK, Unit, Naming, Handles
<1>7. ASSUME NEW p \in Producers, PPoll(p) PROVE Unit(q)'
  BY <1>7 DEF PPoll, Wait, TypeOK, Unit, Naming, Handles
<1>8. ASSUME NEW p \in Producers, PScan(p) PROVE Unit(q)'
  BY <1>8 DEF PScan, Post, TypeOK, Unit, Naming, Handles
<1>9. ASSUME NEW p \in Producers, PRemoveShm(p) PROVE Unit(q)'
  BY <1>9 DEF PRemoveShm, TypeOK, Unit, Naming, Handles
<1>10. ASSUME NEW p \in Producers, PRemoveSem(p) PROVE Unit(q)'
  BY <1>10 DEF PRemoveSem, TypeOK, Unit, Naming, Handles
<1>11. ASSUME NEW p \in Producers, PDie(p) PROVE Unit(q)'
  BY <1>11 DEF PDie, TypeOK, Unit, Naming, Handles
<1>12. ASSUME NEW c \in Consumers, CMap(c) PROVE Unit(q)'
  BY <1>12 DEF CMap, TypeOK, Unit, Naming, Handles
<1>13. ASSUME NEW c \in Consumers, COpenSem(c) PROVE Unit(q)'
  BY <1>13 DEF COpenSem, TypeOK, Unit, Naming, Handles
<1>14. ASSUME NEW c \in Consumers, CLock(c) PROVE Unit(q)'
  BY <1>14 DEF CLock, Wait, TypeOK, Unit, Naming, Handles
<1>15. ASSUME NEW c \in Consumers, CReadCount(c) PROVE Unit(q)'
  BY <1>15 DEF CReadCount, TypeOK, Unit, Naming, Handles
<1>16. ASSUME NEW c \in Consumers, CReadNext(c) PROVE Unit(q)'
  BY <1>16 DEF CReadNext, TypeOK, Unit, Naming, Handles
<1>17. ASSUME NEW c \in Consumers, CTake(c) PROVE Unit(q)'
  BY <1>17 DEF CTake, Post, Target, LeaveScope, TypeOK, Unit, Naming, Handles
<1>18. ASSUME NEW c \in Consumers, CPrint(c) PROVE Unit(q)'
  BY <1>18 DEF CPrint, TypeOK, Unit, Naming, Handles
<1>19. ASSUME NEW c \in Consumers, CEnd(c) PROVE Unit(q)'
  BY <1>19 DEF CEnd, Post, LeaveScope, TypeOK, Unit, Naming, Handles
<1>20. ASSUME NEW c \in Consumers, CSkip(c) PROVE Unit(q)'
  BY <1>20 DEF CSkip, Post, LeaveScope, TypeOK, Unit, Naming, Handles
<1>21. ASSUME NEW c \in Consumers, CDie(c) PROVE Unit(q)'
  BY <1>21 DEF CDie, TypeOK, Unit, Naming, Handles
<1>22. CASE UNCHANGED vars
  BY <1>22 DEF vars, TypeOK, Unit, Naming, Handles
<1>. QED
  BY <1>1, <1>2, <1>3, <1>4, <1>5, <1>6, <1>7, <1>8, <1>9, <1>10, <1>11, <1>12, <1>13,
       <1>14, <1>15, <1>16, <1>17, <1>18, <1>19, <1>20, <1>21, <1>22 DEF Next,
       Producing, Consuming

\* Every step keeps what a consumer's handles stand for.
LEMMA HandlesStep == IInv /\ [Next]_vars => \A d \in Consumers : Handles(d)'
<1> SUFFICES ASSUME IInv, [Next]_vars, NEW d \in Consumers PROVE Handles(d)'
  OBVIOUS
<1>0. TypeOK /\ Handles(d)
  BY DEF IInv, SemInv
<1>a. \A p \in Producers : Naming(p) /\ Unit(p)
  BY DEF IInv, NameInv, SemInv
<1>b. \A e \in Consumers : Alone(d, e) /\ Handles(e)
  BY DEF IInv, SemInv
<1> USE <1>0, PosixAssumption DEF names, memory, producer, consumer, PGo, CGo,
       Holding, Attached
<1>1. ASSUME NEW p \in Producers, PShmOpen(p) PROVE Handles(d)'
  BY <1>1, <1>a DEF PShmOpen, TypeOK, Handles, Mixed, Naming, Unit, Inner, Opening,
       Names
<1>2. ASSUME NEW p \in Producers, PTruncate(p) PROVE Handles(d)'
  BY <1>2, <1>a DEF PTruncate, TypeOK, Handles, Mixed, Naming, Unit, Inner, Opening,
       Names
<1>3. ASSUME NEW p \in Producers, PSemOpen(p) PROVE Handles(d)'
  BY <1>3, <1>a DEF PSemOpen, TypeOK, Handles, Mixed, Naming, Unit, Inner, Opening,
       Names
<1>4. ASSUME NEW p \in Producers, PWait(p) PROVE Handles(d)'
  BY <1>4, <1>a DEF PWait, Wait, TypeOK, Handles, Mixed, Naming, Unit, Inner, Opening,
       Names
<1>5. ASSUME NEW p \in Producers, PWrite(p) PROVE Handles(d)'
  BY <1>5, <1>a DEF PWrite, TypeOK, Handles, Mixed, Naming, Unit, Inner, Opening,
       Names
<1>6. ASSUME NEW p \in Producers, PLink(p) PROVE Handles(d)'
  BY <1>6, <1>a DEF PLink, Post, TypeOK, Handles, Mixed, Naming, Unit, Inner, Opening,
       Names
<1>7. ASSUME NEW p \in Producers, PPoll(p) PROVE Handles(d)'
  BY <1>7, <1>a DEF PPoll, Wait, TypeOK, Handles, Mixed, Naming, Unit, Inner, Opening,
       Names
<1>8. ASSUME NEW p \in Producers, PScan(p) PROVE Handles(d)'
  BY <1>8, <1>a DEF PScan, Post, TypeOK, Handles, Mixed, Naming, Unit, Inner, Opening,
       Names
<1>9. ASSUME NEW p \in Producers, PRemoveShm(p) PROVE Handles(d)'
  BY <1>9, <1>a DEF PRemoveShm, TypeOK, Handles, Mixed, Naming, Unit, Inner, Opening,
       Names
<1>10. ASSUME NEW p \in Producers, PRemoveSem(p) PROVE Handles(d)'
  BY <1>10, <1>a DEF PRemoveSem, TypeOK, Handles, Mixed, Naming, Unit, Inner, Opening,
       Names
<1>11. ASSUME NEW p \in Producers, PDie(p) PROVE Handles(d)'
  BY <1>11, <1>a DEF PDie, TypeOK, Handles, Mixed, Naming, Unit, Inner, Opening, Names
<1>12. ASSUME NEW c \in Consumers, CMap(c) PROVE Handles(d)'
  BY <1>12 DEF CMap, TypeOK, Handles, Mixed, Names
<1>13. ASSUME NEW c \in Consumers, COpenSem(c) PROVE Handles(d)'
  BY <1>13 DEF COpenSem, TypeOK, Handles, Mixed
<1>14. ASSUME NEW c \in Consumers, CLock(c) PROVE Handles(d)'
  BY <1>14, <1>a, <1>b DEF CLock, Wait, TypeOK, Handles, Mixed, Unit, Names, Inner
<1>15. ASSUME NEW c \in Consumers, CReadCount(c) PROVE Handles(d)'
  BY <1>15, <1>a DEF CReadCount, TypeOK, Handles, Mixed, Naming, Names
<1>16. ASSUME NEW c \in Consumers, CReadNext(c) PROVE Handles(d)'
  BY <1>16 DEF CReadNext, TypeOK, Handles, Mixed
<1>17. ASSUME NEW c \in Consumers, CTake(c) PROVE Handles(d)'
  BY <1>17, <1>b DEF CTake, Post, Target, LeaveScope, TypeOK, Handles, Mixed, Alone
<1>18. ASSUME NEW c \in Consumers, CPrint(c) PROVE Handles(d)'
  BY <1>18 DEF CPrint, TypeOK, Handles, Mixed
<1>19. ASSUME NEW c \in Consumers, CEnd(c) PROVE Handles(d)'
  BY <1>19, <1>b DEF CEnd, Post, LeaveScope, TypeOK, Handles, Mixed, Alone
<1>20. ASSUME NEW c \in Consumers, CSkip(c) PROVE Handles(d)'
  BY <1>20, <1>b DEF CSkip, Post, LeaveScope, TypeOK, Handles, Mixed, Alone
<1>21. ASSUME NEW c \in Consumers, CDie(c) PROVE Handles(d)'
  BY <1>21 DEF CDie, TypeOK, Handles, Mixed
<1>22. CASE UNCHANGED vars
  BY <1>22 DEF vars, TypeOK, Handles, Mixed
<1>. QED
  BY <1>1, <1>2, <1>3, <1>4, <1>5, <1>6, <1>7, <1>8, <1>9, <1>10, <1>11, <1>12, <1>13,
       <1>14, <1>15, <1>16, <1>17, <1>18, <1>19, <1>20, <1>21, <1>22 DEF Next,
       Producing, Consuming

\* Every step keeps the consumers out of each other's way.
LEMMA AloneStep == IInv /\ [Next]_vars => \A d, e \in Consumers : Alone(d, e)'
<1> SUFFICES ASSUME IInv, [Next]_vars, NEW d \in Consumers, NEW e \in Consumers
             PROVE  Alone(d, e)'
  OBVIOUS
<1>0. TypeOK /\ Alone(d, e) /\ Handles(d) /\ Handles(e)
  BY DEF IInv, SemInv
<1> USE <1>0, PosixAssumption DEF names, memory, producer, consumer, PGo, CGo,
       Attached, Holding
<1>1. ASSUME NEW p \in Producers, PShmOpen(p) PROVE Alone(d, e)'
  BY <1>1 DEF PShmOpen, TypeOK, Handles, Alone, Names
<1>2. ASSUME NEW p \in Producers, PTruncate(p) PROVE Alone(d, e)'
  BY <1>2 DEF PTruncate, TypeOK, Handles, Alone, Names
<1>3. ASSUME NEW p \in Producers, PSemOpen(p) PROVE Alone(d, e)'
  BY <1>3 DEF PSemOpen, TypeOK, Handles, Alone, Names
<1>4. ASSUME NEW p \in Producers, PWait(p) PROVE Alone(d, e)'
  BY <1>4 DEF PWait, Wait, TypeOK, Handles, Alone, Names
<1>5. ASSUME NEW p \in Producers, PWrite(p) PROVE Alone(d, e)'
  BY <1>5 DEF PWrite, TypeOK, Handles, Alone, Names
<1>6. ASSUME NEW p \in Producers, PLink(p) PROVE Alone(d, e)'
  BY <1>6 DEF PLink, Post, TypeOK, Handles, Alone, Names
<1>7. ASSUME NEW p \in Producers, PPoll(p) PROVE Alone(d, e)'
  BY <1>7 DEF PPoll, Wait, TypeOK, Handles, Alone, Names
<1>8. ASSUME NEW p \in Producers, PScan(p) PROVE Alone(d, e)'
  BY <1>8 DEF PScan, Post, TypeOK, Handles, Alone, Names
<1>9. ASSUME NEW p \in Producers, PRemoveShm(p) PROVE Alone(d, e)'
  BY <1>9 DEF PRemoveShm, TypeOK, Handles, Alone, Names
<1>10. ASSUME NEW p \in Producers, PRemoveSem(p) PROVE Alone(d, e)'
  BY <1>10 DEF PRemoveSem, TypeOK, Handles, Alone, Names
<1>11. ASSUME NEW p \in Producers, PDie(p) PROVE Alone(d, e)'
  BY <1>11 DEF PDie, TypeOK, Handles, Alone, Names
<1>12. ASSUME NEW c \in Consumers, CMap(c) PROVE Alone(d, e)'
  BY <1>12 DEF CMap, TypeOK, Handles, Alone, Names
<1>13. ASSUME NEW c \in Consumers, COpenSem(c) PROVE Alone(d, e)'
  BY <1>13 DEF COpenSem, TypeOK, Handles, Alone, Names
<1>14. ASSUME NEW c \in Consumers, CLock(c) PROVE Alone(d, e)'
  BY <1>14 DEF CLock, Wait, TypeOK, Handles, Alone, Names
<1>15. ASSUME NEW c \in Consumers, CReadCount(c) PROVE Alone(d, e)'
  BY <1>15 DEF CReadCount, TypeOK, Handles, Alone, Names
<1>16. ASSUME NEW c \in Consumers, CReadNext(c) PROVE Alone(d, e)'
  BY <1>16 DEF CReadNext, TypeOK, Handles, Alone, Names
<1>17. ASSUME NEW c \in Consumers, CTake(c) PROVE Alone(d, e)'
  BY <1>17 DEF CTake, Post, Target, LeaveScope, TypeOK, Handles, Alone, Names
<1>18. ASSUME NEW c \in Consumers, CPrint(c) PROVE Alone(d, e)'
  BY <1>18 DEF CPrint, TypeOK, Handles, Alone, Names
<1>19. ASSUME NEW c \in Consumers, CEnd(c) PROVE Alone(d, e)'
  BY <1>19 DEF CEnd, Post, LeaveScope, TypeOK, Handles, Alone, Names
<1>20. ASSUME NEW c \in Consumers, CSkip(c) PROVE Alone(d, e)'
  BY <1>20 DEF CSkip, Post, LeaveScope, TypeOK, Handles, Alone, Names
<1>21. ASSUME NEW c \in Consumers, CDie(c) PROVE Alone(d, e)'
  BY <1>21 DEF CDie, TypeOK, Handles, Alone, Names
<1>22. CASE UNCHANGED vars
  BY <1>22 DEF vars, TypeOK, Handles, Alone, Names
<1>. QED
  BY <1>1, <1>2, <1>3, <1>4, <1>5, <1>6, <1>7, <1>8, <1>9, <1>10, <1>11, <1>12, <1>13,
       <1>14, <1>15, <1>16, <1>17, <1>18, <1>19, <1>20, <1>21, <1>22 DEF Next,
       Producing, Consuming

\* Every step keeps the chains.
LEMMA ChainStep ==
  IInv /\ [Next]_vars => \A q \in Producers : \A b \in Blocks : Chain(q, b)'
<1> SUFFICES ASSUME IInv, [Next]_vars, NEW q \in Producers, NEW b \in Blocks
             PROVE  Chain(q, b)'
  OBVIOUS
<1>0. TypeOK /\ \A p \in Producers : \A e \in Blocks : Chain(p, e)
  BY DEF IInv, ChainInv
<1>b. b \in Nat /\ b >= 1 /\ at[q] \in Blocks /\ \A e \in Blocks : e \in Nat /\ e <= MaxBlocks
  BY <1>0, PosixAssumption DEF Blocks, TypeOK
<1>c. /\ at[q] \in Nat
      /\ b < at[q] + 1 => b < at[q] \/ b = at[q]
      /\ b = at[q] + 1 => b > at[q] /\ b # at[q]
      /\ b < at[q] \/ b = at[q] \/ b > at[q]
  <2>1. at[q] \in Nat /\ b \in Nat
    BY <1>b
  <2>2. QED
    BY <2>1
<1>a. \A c \in Consumers : cpc[c] = "take" => Produced(seg[c], pos[c]) /\ seg[c] \in Producers
  BY DEF IInv, ChainInv, SemInv, Knows, Handles, Attached, Holding, TypeOK, Names
<1> USE <1>0, PosixAssumption DEF names, memory, producer, consumer, PGo, CGo,
       Opening, Generating, Closing
<1>1. ASSUME NEW p \in Producers, PShmOpen(p) PROVE Chain(q, b)'
  BY <1>1 DEF PShmOpen, TypeOK, Chain, Produced
<1>2. ASSUME NEW p \in Producers, PTruncate(p) PROVE Chain(q, b)'
  BY <1>2 DEF PTruncate, TypeOK, Chain, Produced
<1>3. ASSUME NEW p \in Producers, PSemOpen(p) PROVE Chain(q, b)'
  BY <1>3 DEF PSemOpen, TypeOK, Chain, Produced
<1>4. ASSUME NEW p \in Producers, PWait(p) PROVE Chain(q, b)'
  BY <1>4 DEF PWait, Wait, TypeOK, Chain, Produced
<1>5. ASSUME NEW p \in Producers, PWrite(p) PROVE Chain(q, b)'
  BY <1>5 DEF PWrite, TypeOK, Chain, Produced
<1>6. ASSUME NEW p \in Producers, PLink(p) PROVE Chain(q, b)'
  <2>1. UNCHANGED <<full, took>> /\ ppc[p] = "link"
    BY <1>6 DEF PLink
  <2>2. CASE at[p] < MaxBlocks /\ link' = [link EXCEPT ![p][at[p]] = at[p] + 1]
             /\ at' = [at EXCEPT ![p] = @ + 1] /\ ppc' = [ppc EXCEPT ![p] = "gen"]
    <3>1. CASE q # p
      <4>1. ppc'[q] = ppc[q] /\ at'[q] = at[q] /\ link'[q] = link[q]
        BY <3>1, <2>2 DEF TypeOK
      <4>2. QED
        BY <4>1, <2>1, <1>b DEF Chain, Produced
    <3>2. CASE q = p
      <4>1. ppc'[q] = "gen" /\ at'[q] = at[q] + 1
            /\ \A e \in Blocks : link'[q][e] = IF e = at[q] THEN e + 1 ELSE link[q][e]
        BY <3>2, <2>2, <1>b DEF TypeOK
      <4>2. \A e \in Blocks : e > at[q] => ~Produced(q, e) /\ link[q][e] = 0
        BY <3>2, <2>1, <1>b DEF Chain
      <4>3. link'[q][b] \in {0, b + 1}
        BY <4>1, <1>b DEF Chain
      <4>4. link'[q][b] = 0 => \A e \in Blocks : e > b => ~Produced(q, e)' /\ link'[q][e] = 0
        BY <4>1, <4>2, <3>2, <2>1, <1>b DEF Chain, Produced
      <4>5. b < at'[q] => link'[q][b] # 0
        BY <4>1, <2>1, <3>2, <1>b, <1>c DEF Chain
      <4>6. b = at'[q] => link'[q][b] = 0 /\ ~Produced(q, b)'
        BY <4>1, <4>2, <2>1, <1>c DEF Produced
      <4>7. QED
        BY <4>1, <4>3, <4>4, <4>5, <4>6 DEF Chain
    <3>3. QED
      BY <3>1, <3>2
  <2>3. CASE link' = link /\ at' = [at EXCEPT ![p] = 1] /\ ppc' = [ppc EXCEPT ![p] = "poll"]
    <3>1. ppc'[q] = (IF q = p THEN "poll" ELSE ppc[q]) /\ at'[q] = IF q = p THEN 1 ELSE at[q]
      BY <2>3 DEF TypeOK
    <3>2. QED
      BY <3>1, <2>3, <2>1, <1>b DEF Chain, Produced
  <2>4. QED
    BY <1>6, <2>2, <2>3 DEF PLink
<1>7. ASSUME NEW p \in Producers, PPoll(p) PROVE Chain(q, b)'
  <2>1. UNCHANGED <<full, link, took, at>> /\ ppc[p] = "poll"
    BY <1>7 DEF PPoll
  <2>2. ppc'[q] = IF q = p THEN "scan" ELSE ppc[q]
    BY <1>7 DEF PPoll, TypeOK
  <2>3. QED
    BY <2>1, <2>2, <1>b DEF Chain, Produced
<1>8. ASSUME NEW p \in Producers, PScan(p) PROVE Chain(q, b)'
  <2>1. UNCHANGED <<full, link, took>> /\ ppc[p] = "scan" /\ at[p] \in Blocks
    BY <1>8 DEF PScan, TypeOK
  <2>2. CASE full[p][at[p]] /\ ppc' = [ppc EXCEPT ![p] = "poll"] /\ at' = [at EXCEPT ![p] = 1]
    <3>1. ppc'[q] = (IF q = p THEN "poll" ELSE ppc[q]) /\ at'[q] = IF q = p THEN 1 ELSE at[q]
      BY <2>2 DEF TypeOK
    <3>2. QED
      BY <3>1, <2>1, <1>b DEF Chain, Produced
  <2>3. CASE ~full[p][at[p]] /\ link[p][at[p]] # 0 /\ ppc' = ppc
             /\ at' = [at EXCEPT ![p] = link[p][@]]
    <3>1. link[p][at[p]] = at[p] + 1
      BY <2>1, <2>3 DEF Chain
    <3>2. at'[q] = IF q = p THEN at[q] + 1 ELSE at[q]
      BY <2>3, <3>1 DEF TypeOK
    <3>3. q = p /\ b < at[q] + 1 => ~full[q][b]
      BY <2>1, <2>3, <1>c DEF Chain
    <3>4. QED
      BY <3>2, <3>3, <2>1, <2>3, <1>b DEF Chain, Produced
  <2>4. CASE ~full[p][at[p]] /\ link[p][at[p]] = 0 /\ ppc' = [ppc EXCEPT ![p] = "rmshm"]
             /\ at' = [at EXCEPT ![p] = 1]
    <3>1. ppc'[q] = (IF q = p THEN "rmshm" ELSE ppc[q]) /\ at'[q] = IF q = p THEN 1 ELSE at[q]
      BY <2>4 DEF TypeOK
    <3>2. q = p => ~full[q][b]
      BY <2>1, <2>4, <1>b, <1>c DEF Chain, Produced
    <3>3. QED
      BY <3>1, <3>2, <2>1, <1>b DEF Chain, Produced
  <2>5. QED
    BY <1>8, <2>2, <2>3, <2>4 DEF PScan
<1>9. ASSUME NEW p \in Producers, PRemoveShm(p) PROVE Chain(q, b)'
  BY <1>9 DEF PRemoveShm, TypeOK, Chain, Produced
<1>10. ASSUME NEW p \in Producers, PRemoveSem(p) PROVE Chain(q, b)'
  BY <1>10 DEF PRemoveSem, TypeOK, Chain, Produced
<1>11. ASSUME NEW p \in Producers, PDie(p) PROVE Chain(q, b)'
  BY <1>11 DEF PDie, TypeOK, Chain, Produced
<1>12. ASSUME NEW c \in Consumers, CMap(c) PROVE Chain(q, b)'
  BY <1>12 DEF CMap, TypeOK, Chain, Produced
<1>13. ASSUME NEW c \in Consumers, COpenSem(c) PROVE Chain(q, b)'
  BY <1>13 DEF COpenSem, TypeOK, Chain, Produced
<1>14. ASSUME NEW c \in Consumers, CLock(c) PROVE Chain(q, b)'
  BY <1>14 DEF CLock, Wait, TypeOK, Chain, Produced
<1>15. ASSUME NEW c \in Consumers, CReadCount(c) PROVE Chain(q, b)'
  BY <1>15 DEF CReadCount, TypeOK, Chain, Produced
<1>16. ASSUME NEW c \in Consumers, CReadNext(c) PROVE Chain(q, b)'
  BY <1>16 DEF CReadNext, TypeOK, Chain, Produced
<1>17. ASSUME NEW c \in Consumers, CTake(c) PROVE Chain(q, b)'
  BY <1>17, <1>a DEF CTake, Post, Target, LeaveScope, TypeOK, Chain, Produced
<1>18. ASSUME NEW c \in Consumers, CPrint(c) PROVE Chain(q, b)'
  BY <1>18 DEF CPrint, TypeOK, Chain, Produced
<1>19. ASSUME NEW c \in Consumers, CEnd(c) PROVE Chain(q, b)'
  BY <1>19 DEF CEnd, Post, LeaveScope, TypeOK, Chain, Produced
<1>20. ASSUME NEW c \in Consumers, CSkip(c) PROVE Chain(q, b)'
  BY <1>20 DEF CSkip, Post, LeaveScope, TypeOK, Chain, Produced
<1>21. ASSUME NEW c \in Consumers, CDie(c) PROVE Chain(q, b)'
  BY <1>21 DEF CDie, TypeOK, Chain, Produced
<1>22. CASE UNCHANGED vars
  BY <1>22 DEF vars, TypeOK, Chain, Produced
<1>. QED
  BY <1>1, <1>2, <1>3, <1>4, <1>5, <1>6, <1>7, <1>8, <1>9, <1>10, <1>11, <1>12, <1>13,
       <1>14, <1>15, <1>16, <1>17, <1>18, <1>19, <1>20, <1>21, <1>22 DEF Next,
       Producing, Consuming

\* Every step keeps what a consumer knows of the block it has read.
LEMMA KnowsStep == IInv /\ [Next]_vars => \A d \in Consumers : Knows(d)'
<1> SUFFICES ASSUME IInv, [Next]_vars, NEW d \in Consumers PROVE Knows(d)'
  OBVIOUS
<1>0. TypeOK /\ Knows(d)
      /\ \A c \in Consumers :
           cpc[c] \in {"read", "readnext", "take"} => seg[c] \in Producers
  BY DEF IInv, ChainInv, SemInv, Handles, Attached, Holding, TypeOK, Names
<1> USE <1>0, PosixAssumption DEF names, memory, producer, consumer, PGo, CGo
<1>1. ASSUME NEW p \in Producers, PShmOpen(p) PROVE Knows(d)'
  BY <1>1 DEF PShmOpen, TypeOK, Knows, Produced
<1>2. ASSUME NEW p \in Producers, PTruncate(p) PROVE Knows(d)'
  BY <1>2 DEF PTruncate, TypeOK, Knows, Produced
<1>3. ASSUME NEW p \in Producers, PSemOpen(p) PROVE Knows(d)'
  BY <1>3 DEF PSemOpen, TypeOK, Knows, Produced
<1>4. ASSUME NEW p \in Producers, PWait(p) PROVE Knows(d)'
  BY <1>4 DEF PWait, Wait, TypeOK, Knows, Produced
<1>5. ASSUME NEW p \in Producers, PWrite(p) PROVE Knows(d)'
  BY <1>5 DEF PWrite, TypeOK, Knows, Produced
<1>6. ASSUME NEW p \in Producers, PLink(p) PROVE Knows(d)'
  BY <1>6 DEF PLink, Post, TypeOK, Knows, Produced
<1>7. ASSUME NEW p \in Producers, PPoll(p) PROVE Knows(d)'
  BY <1>7 DEF PPoll, Wait, TypeOK, Knows, Produced
<1>8. ASSUME NEW p \in Producers, PScan(p) PROVE Knows(d)'
  BY <1>8 DEF PScan, Post, TypeOK, Knows, Produced
<1>9. ASSUME NEW p \in Producers, PRemoveShm(p) PROVE Knows(d)'
  BY <1>9 DEF PRemoveShm, TypeOK, Knows, Produced
<1>10. ASSUME NEW p \in Producers, PRemoveSem(p) PROVE Knows(d)'
  BY <1>10 DEF PRemoveSem, TypeOK, Knows, Produced
<1>11. ASSUME NEW p \in Producers, PDie(p) PROVE Knows(d)'
  BY <1>11 DEF PDie, TypeOK, Knows, Produced
<1>12. ASSUME NEW c \in Consumers, CMap(c) PROVE Knows(d)'
  BY <1>12 DEF CMap, TypeOK, Knows, Produced
<1>13. ASSUME NEW c \in Consumers, COpenSem(c) PROVE Knows(d)'
  BY <1>13 DEF COpenSem, TypeOK, Knows, Produced
<1>14. ASSUME NEW c \in Consumers, CLock(c) PROVE Knows(d)'
  BY <1>14 DEF CLock, Wait, TypeOK, Knows, Produced
<1>15. ASSUME NEW c \in Consumers, CReadCount(c) PROVE Knows(d)'
  BY <1>15 DEF CReadCount, TypeOK, Knows, Produced
<1>16. ASSUME NEW c \in Consumers, CReadNext(c) PROVE Knows(d)'
  BY <1>16 DEF CReadNext, TypeOK, Knows, Produced
<1>17. ASSUME NEW c \in Consumers, CTake(c) PROVE Knows(d)'
  BY <1>17 DEF CTake, Post, Target, LeaveScope, TypeOK, Knows, Produced
<1>18. ASSUME NEW c \in Consumers, CPrint(c) PROVE Knows(d)'
  BY <1>18 DEF CPrint, TypeOK, Knows, Produced
<1>19. ASSUME NEW c \in Consumers, CEnd(c) PROVE Knows(d)'
  BY <1>19 DEF CEnd, Post, LeaveScope, TypeOK, Knows, Produced
<1>20. ASSUME NEW c \in Consumers, CSkip(c) PROVE Knows(d)'
  BY <1>20 DEF CSkip, Post, LeaveScope, TypeOK, Knows, Produced
<1>21. ASSUME NEW c \in Consumers, CDie(c) PROVE Knows(d)'
  BY <1>21 DEF CDie, TypeOK, Knows, Produced
<1>22. CASE UNCHANGED vars
  BY <1>22 DEF vars, TypeOK, Knows, Produced
<1>. QED
  BY <1>1, <1>2, <1>3, <1>4, <1>5, <1>6, <1>7, <1>8, <1>9, <1>10, <1>11, <1>12, <1>13,
       <1>14, <1>15, <1>16, <1>17, <1>18, <1>19, <1>20, <1>21, <1>22 DEF Next,
       Producing, Consuming

\* A segment that has an unguarded consumer keeps it: a process opens each object once.
LEMMA GuardedStep ==
  ASSUME IInv, [Next]_vars, NEW q \in Producers, Guarded(q)'
  PROVE  Guarded(q)
<1> SUFFICES ASSUME NEW d \in Consumers, seg[d] = q, Mixed(d) PROVE FALSE
  BY DEF Guarded
<1>1. TypeOK /\ Handles(d) /\ cpc[d] \notin {"start", "sem"}
  BY DEF IInv, SemInv, Handles, Mixed
<1>2. ASSUME NEW c \in Consumers, CMap(c) \/ COpenSem(c)
      PROVE  c # d
  BY <1>1, <1>2 DEF CMap, COpenSem
<1>3. seg'[d] = seg[d] /\ semh'[d] = semh[d]
  <2>1. CASE \E c \in Consumers : CMap(c) \/ COpenSem(c)
    BY <1>1, <1>2, <2>1 DEF CMap, COpenSem, TypeOK
  <2>2. CASE UNCHANGED consumer
    BY <2>2 DEF consumer
  <2>3. CASE \E c \in Consumers : \/ CLock(c) \/ CReadCount(c) \/ CReadNext(c) \/ CTake(c)
                                  \/ CPrint(c) \/ CEnd(c) \/ CSkip(c) \/ CDie(c)
    BY <2>3 DEF CLock, CReadCount, CReadNext, CTake, CPrint, CEnd, CSkip, CDie
  <2>4. ASSUME NEW p \in Producers, PShmOpen(p) \/ Producing(p) \/ PDie(p)
        PROVE  UNCHANGED consumer
    BY <2>4 DEF PShmOpen, Producing, PTruncate, PSemOpen, PWait, PWrite, PLink, PPoll, PScan,
                PRemoveShm, PRemoveSem, PDie
  <2>5. \/ UNCHANGED vars
        \/ \E p \in Producers : PShmOpen(p) \/ Producing(p) \/ PDie(p)
        \/ \E c \in Consumers : CMap(c) \/ Consuming(c) \/ CDie(c)
    BY DEF Next
  <2>6. UNCHANGED vars => UNCHANGED consumer
    BY DEF vars
  <2>7. QED
    BY <2>1, <2>2, <2>3, <2>4, <2>5, <2>6 DEF Consuming
<1>4. QED
  BY <1>3 DEF Guarded, Mixed

\* Every step keeps what is known of the claims in guarded segments.
LEMMA ClaimInvStep == IInv /\ [Next]_vars => ClaimInv'
<1> SUFFICES ASSUME IInv, [Next]_vars, NEW q \in Producers, Guarded(q)'
             PROVE  Claims(q)'
  BY DEF ClaimInv
<1>0. TypeOK /\ Guarded(q) /\ Claims(q)
  BY GuardedStep DEF IInv, ClaimInv
<1>a. \A c \in Consumers : seg[c] = q /\ cpc[c] \in {"read", "readnext", "take"} => semh[c] = q
  BY <1>0 DEF IInv, SemInv, Handles, Guarded, Mixed, Holding
<1>b. \A c, d \in Consumers :
        seg[c] = q /\ cpc[c] \in {"read", "readnext", "take"} /\
        seg[d] = q /\ cpc[d] \in {"read", "readnext", "take"} => c = d
  BY <1>a DEF IInv, SemInv, Alone, Holding
<1>c. \A c \in Consumers : cpc[c] \in {"read", "readnext", "take"} => seg[c] \in Producers
  BY <1>0 DEF IInv, SemInv, Handles, Attached, Holding, TypeOK, Names
<1>d. ppc[q] = "write" => took[q][at[q]] = 0
  BY <1>0 DEF IInv, ChainInv, Chain, Produced, TypeOK
<1> USE <1>0, PosixAssumption DEF names, memory, producer, consumer, PGo, CGo
<1>1. ASSUME NEW p \in Producers, PShmOpen(p) PROVE Claims(q)'
  BY <1>1 DEF PShmOpen, TypeOK, Claims
<1>2. ASSUME NEW p \in Producers, PTruncate(p) PROVE Claims(q)'
  BY <1>2 DEF PTruncate, TypeOK, Claims
<1>3. ASSUME NEW p \in Producers, PSemOpen(p) PROVE Claims(q)'
  BY <1>3 DEF PSemOpen, TypeOK, Claims
<1>4. ASSUME NEW p \in Producers, PWait(p) PROVE Claims(q)'
  BY <1>4 DEF PWait, Wait, TypeOK, Claims
<1>5. ASSUME NEW p \in Producers, PWrite(p) PROVE Claims(q)'
  BY <1>5, <1>d DEF PWrite, TypeOK, Claims
<1>6. ASSUME NEW p \in Producers, PLink(p) PROVE Claims(q)'
  BY <1>6 DEF PLink, Post, TypeOK, Claims
<1>7. ASSUME NEW p \in Producers, PPoll(p) PROVE Claims(q)'
  BY <1>7 DEF PPoll, Wait, TypeOK, Claims
<1>8. ASSUME NEW p \in Producers, PScan(p) PROVE Claims(q)'
  BY <1>8 DEF PScan, Post, TypeOK, Claims
<1>9. ASSUME NEW p \in Producers, PRemoveShm(p) PROVE Claims(q)'
  BY <1>9 DEF PRemoveShm, TypeOK, Claims
<1>10. ASSUME NEW p \in Producers, PRemoveSem(p) PROVE Claims(q)'
  BY <1>10 DEF PRemoveSem, TypeOK, Claims
<1>11. ASSUME NEW p \in Producers, PDie(p) PROVE Claims(q)'
  BY <1>11 DEF PDie, TypeOK, Claims
<1>12. ASSUME NEW c \in Consumers, CMap(c) PROVE Claims(q)'
  BY <1>12 DEF CMap, TypeOK, Claims
<1>13. ASSUME NEW c \in Consumers, COpenSem(c) PROVE Claims(q)'
  BY <1>13 DEF COpenSem, TypeOK, Claims
<1>14. ASSUME NEW c \in Consumers, CLock(c) PROVE Claims(q)'
  BY <1>14 DEF CLock, Wait, TypeOK, Claims
<1>15. ASSUME NEW c \in Consumers, CReadCount(c) PROVE Claims(q)'
  BY <1>15, <1>c DEF CReadCount, TypeOK, Claims
<1>16. ASSUME NEW c \in Consumers, CReadNext(c) PROVE Claims(q)'
  BY <1>16, <1>c DEF CReadNext, TypeOK, Claims
<1>17. ASSUME NEW c \in Consumers, CTake(c) PROVE Claims(q)'
  BY <1>17, <1>a, <1>b, <1>c DEF CTake, Post, Target, LeaveScope, TypeOK, Claims,
       IInv, ChainInv, Knows
<1>18. ASSUME NEW c \in Consumers, CPrint(c) PROVE Claims(q)'
  BY <1>18 DEF CPrint, TypeOK, Claims
<1>19. ASSUME NEW c \in Consumers, CEnd(c) PROVE Claims(q)'
  BY <1>19 DEF CEnd, Post, LeaveScope, TypeOK, Claims
<1>20. ASSUME NEW c \in Consumers, CSkip(c) PROVE Claims(q)'
  BY <1>20 DEF CSkip, Post, LeaveScope, TypeOK, Claims
<1>21. ASSUME NEW c \in Consumers, CDie(c) PROVE Claims(q)'
  BY <1>21 DEF CDie, TypeOK, Claims
<1>22. CASE UNCHANGED vars
  BY <1>22 DEF vars, TypeOK, Claims
<1>. QED
  BY <1>1, <1>2, <1>3, <1>4, <1>5, <1>6, <1>7, <1>8, <1>9, <1>10, <1>11, <1>12, <1>13,
       <1>14, <1>15, <1>16, <1>17, <1>18, <1>19, <1>20, <1>21, <1>22 DEF Next,
       Producing, Consuming

-----------------------------------------------------------------------------
\* No process has been started: no name, no semaphore, no block.
LEMMA IInvInit == Init => IInv
<1> SUFFICES ASSUME Init PROVE IInv
  OBVIOUS
<1> USE PosixAssumption DEF Init
<1>1. TypeOK
  <2>1. 1 \in Blocks /\ 0 \in 0 .. MaxBlocks /\ 0 \in 0 .. MaxCrashes
    BY DEF Blocks
  <2>2. QED
    BY <2>1 DEF TypeOK, Names, ProducerStates, ConsumerStates
<1>2. NameInv
  BY DEF NameInv, Naming, Generating, Closing, Opening
<1>3. SemInv
  BY DEF SemInv, Unit, Handles, Alone, Inner, Attached, Holding
<1>4. ChainInv
  BY DEF ChainInv, Chain, Knows, Produced, Generating, Closing, Opening, Blocks
<1>5. ClaimInv
  BY DEF ClaimInv, Claims
<1>6. QED
  BY <1>1, <1>2, <1>3, <1>4, <1>5 DEF IInv

\* The inductive invariant holds in every reachable state.
THEOREM Invariance == Spec => []IInv
<1>1. IInv /\ [Next]_vars => SemInv'
  BY UnitStep, HandlesStep, AloneStep DEF SemInv
<1>2. IInv /\ [Next]_vars => ChainInv'
  BY ChainStep, KnowsStep DEF ChainInv
<1>3. IInv /\ [Next]_vars => IInv'
  BY TypeOKStep, NameInvStep, <1>1, <1>2, ClaimInvStep DEF IInv
<1>4. QED
  BY IInvInit, <1>3, PTL DEF Spec

\* Every variable keeps its type; no semaphore that sem_open made with one exceeds it.
THEOREM TypeCorrect == Spec => []TypeOK
<1>1. IInv => TypeOK
  BY DEF IInv
<1>2. QED
  BY Invariance, <1>1, PTL

\* No two processes are between sem_wait and sem_post of one semaphore, however many
\* producers come and go, and whoever is killed.
THEOREM Exclusion == Spec => []OneInside
<1>1. ASSUME IInv PROVE OneInside
  <2>1. SUFFICES ASSUME NEW p \in Producers PROVE Cardinality(Inside(p)) <= 1
    BY DEF OneInside
  <2>2. ASSUME NEW x \in Inside(p), NEW y \in Inside(p) PROVE x = y
    <3>1. CASE x \in Producers /\ x = p /\ ppc[p] \in Inner
      BY <1>1, <3>1 DEF IInv, SemInv, Handles, Inside, Inner
    <3>2. CASE y \in Producers /\ y = p /\ ppc[p] \in Inner
      BY <1>1, <3>2 DEF IInv, SemInv, Handles, Inside, Inner
    <3>3. CASE /\ x \in Consumers /\ semh[x] = p /\ cpc[x] \in Holding
               /\ y \in Consumers /\ semh[y] = p /\ cpc[y] \in Holding
      BY <1>1, <3>3 DEF IInv, SemInv, Alone
    <3>4. QED
      BY <3>1, <3>2, <3>3 DEF Inside, Inner
  <2>3. CASE Inside(p) = {}
    BY <2>3, FS_EmptySet
  <2>4. CASE Inside(p) # {}
    <3>1. PICK x : Inside(p) = {x}
      BY <2>2, <2>4
    <3>2. QED
      BY <3>1, FS_Singleton
  <2>5. QED
    BY <2>3, <2>4
<1>2. QED
  BY Invariance, <1>1, PTL

\* A block is claimed twice, or a segment without size touched, only by consumers that
\* opened the objects of two producers.
THEOREM OnlyByMixing == Spec => []MixedOnly
<1>1. ASSUME IInv PROVE MixedOnly
  <2>1. ASSUME NEW p \in Producers, NEW b \in Blocks, took[p][b] > 1
        PROVE  \E c \in Consumers : seg[c] = p /\ Mixed(c)
    <3>1. took[p][b] \in Nat /\ ~(took[p][b] <= 1)
      BY <1>1, <2>1 DEF IInv, TypeOK
    <3>2. QED
      BY <1>1, <3>1 DEF IInv, ClaimInv, Guarded, Claims
  <2>2. NoBusError
    BY <1>1 DEF IInv, SemInv, Handles, NoBusError
  <2>3. QED
    BY <2>1, <2>2 DEF MixedOnly, TakenOnce
<1>2. QED
  BY Invariance, <1>1, PTL

-----------------------------------------------------------------------------
\* What a step leaves alone in the pool of q, if it leaves alone the blocks, the size and
\* the name.
LEMMA PoolStutters ==
  ASSUME NEW q \in Producers, UNCHANGED <<full[q], took[q], sized[q]>>,
         (shmName = q) <=> (shmName' = q)
  PROVE  UNCHANGED Pool(q)!poolVars
  BY DEF Pool!poolVars

\* Every step is one of the pool of each producer, or leaves that pool alone.
LEMMA PoolStep ==
  ASSUME IInv, [Next]_vars, NEW q \in Producers
  PROVE  Pool(q)!PoolNext \/ UNCHANGED Pool(q)!poolVars
<1>0. TypeOK /\ NameInv /\ ChainInv
  BY DEF IInv
<1> USE <1>0, PosixAssumption DEF names, memory, producer, consumer, PGo, CGo
<1>1. ASSUME NEW p \in Producers, PShmOpen(p) PROVE UNCHANGED Pool(q)!poolVars
  <2>1. UNCHANGED <<full, took, sized>>
    BY <1>1 DEF PShmOpen
  <2>2. CASE q = p /\ shmName' # shmName
    <3>1. ~sized[q] /\ ~sized'[q]
      BY <1>1, <2>1, <2>2 DEF PShmOpen, NameInv, Naming
    <3>2. QED
      BY <2>1, <3>1 DEF Pool!poolVars
  <2>3. CASE q # p \/ shmName' = shmName
    BY <1>1, <2>1, <2>3, PoolStutters DEF PShmOpen
  <2>4. QED
    BY <2>2, <2>3
<1>2. ASSUME NEW p \in Producers, PTruncate(p) PROVE UNCHANGED Pool(q)!poolVars
  <2>1. UNCHANGED <<full, took, shmName>>
    BY <1>2 DEF PTruncate
  <2>2. CASE q = p
    <3>1. shmName = q
      BY <1>2, <2>2 DEF PTruncate, NameInv, Naming
    <3>2. QED
      BY <2>1, <3>1 DEF Pool!poolVars
  <2>3. CASE q # p
    <3>1. sized'[q] = sized[q]
      BY <1>2, <2>3 DEF PTruncate, TypeOK
    <3>2. QED
      BY <2>1, <3>1, PoolStutters
  <2>4. QED
    BY <2>2, <2>3
<1>3. ASSUME NEW p \in Producers, PWrite(p)
      PROVE  Pool(q)!PoolNext \/ UNCHANGED Pool(q)!poolVars
  <2>1. UNCHANGED <<took, sized, shmName>>
    BY <1>3 DEF PWrite
  <2>2. CASE q = p
    <3>0. PICK b \in Blocks : b = at[q]
      BY DEF TypeOK
    <3>1. shmName = q /\ ~Produced(q, b)
      BY <1>3, <2>2, <3>0 DEF PWrite, TypeOK, NameInv, Naming, Generating, ChainInv, Chain
    <3>2. \A e \in Blocks : full'[q][e] <=> full[q][e] \/ e = b
      BY <1>3, <2>2, <3>0 DEF PWrite, TypeOK
    <3>3. Pool(q)!Produce(b)
      BY <2>1, <3>1, <3>2 DEF Pool!Produce, Produced
    <3>4. \E x \in Blocks : Pool(q)!Produce(x)
      BY <3>3
    <3>5. QED
      BY <3>4 DEF Pool!PoolNext
  <2>3. CASE q # p
    <3>1. full'[q] = full[q]
      BY <1>3, <2>3 DEF PWrite, TypeOK
    <3>2. QED
      BY <2>1, <3>1, PoolStutters
  <2>4. QED
    BY <2>2, <2>3
<1>4. ASSUME NEW p \in Producers, PRemoveShm(p)
      PROVE  Pool(q)!PoolNext \/ UNCHANGED Pool(q)!poolVars
  <2>1. UNCHANGED <<full, took, sized>> /\ shmName = p /\ shmName' = None /\ None # q
    BY <1>4 DEF PRemoveShm, NameInv, Naming
  <2>2. CASE q = p
    <3>1. sized[q] /\ \A b \in Blocks : ~full[q][b]
      BY <1>4, <2>2 DEF PRemoveShm, NameInv, Naming, ChainInv, Chain, Closing
    <3>2. Pool(q)!Close
      BY <2>1, <2>2, <3>1 DEF Pool!Close
    <3>3. QED
      BY <3>2 DEF Pool!PoolNext
  <2>3. CASE q # p
    BY <2>1, <2>3, PoolStutters
  <2>4. QED
    BY <2>2, <2>3
<1>5. ASSUME NEW c \in Consumers, CTake(c)
      PROVE  Pool(q)!PoolNext \/ UNCHANGED Pool(q)!poolVars
  <2>1. UNCHANGED <<sized, shmName>>
    BY <1>5 DEF CTake
  <2>2. CASE seg[c] = q
    <3>0. PICK b \in Blocks : b = pos[c]
      BY DEF TypeOK
    <3>1. Produced(q, b)
      BY <1>5, <2>2, <3>0 DEF CTake, TypeOK, ChainInv, Knows
    <3>2. \A e \in Blocks : /\ full'[q][e] <=> full[q][e] /\ e # b
                            /\ took'[q][e] = IF e = b THEN took[q][e] + 1 ELSE took[q][e]
      BY <1>5, <2>2, <3>0 DEF CTake, TypeOK
    <3>3. \A e \in Blocks : took[q][e] \in Nat
      BY DEF TypeOK
    <3>4. \A e \in Blocks : took'[q][e] > 0 <=> took[q][e] > 0 \/ e = b
      BY <3>2, <3>3
    <3>5. \A e \in Blocks : Produced(q, e)' <=> Produced(q, e)
      BY <3>1, <3>2, <3>4 DEF Produced
    <3>6. CASE took[q][b] > 0
      BY <2>1, <3>4, <3>5, <3>6 DEF Pool!poolVars, Produced
    <3>7. CASE ~(took[q][b] > 0)
      <4>1. Pool(q)!Take(b)
        BY <2>1, <3>1, <3>4, <3>5, <3>7 DEF Pool!Take, Produced
      <4>2. \E x \in Blocks : Pool(q)!Take(x)
        BY <4>1
      <4>3. QED
        BY <4>2 DEF Pool!PoolNext
    <3>8. QED
      BY <3>6, <3>7
  <2>3. CASE seg[c] # q
    <3>1. full'[q] = full[q] /\ took'[q] = took[q]
      BY <1>5, <2>3 DEF CTake, TypeOK
    <3>2. QED
      BY <2>1, <3>1, PoolStutters
  <2>4. QED
    BY <2>2, <2>3
<1>6. ASSUME NEW p \in Producers,
             PSemOpen(p) \/ PWait(p) \/ PLink(p) \/ PPoll(p) \/ PScan(p) \/ PRemoveSem(p)
             \/ PDie(p)
      PROVE  UNCHANGED <<full, took, sized, shmName>>
  BY <1>6 DEF PSemOpen, PWait, PLink, PPoll, PScan, PRemoveSem, PDie
<1>7. ASSUME NEW c \in Consumers,
             CMap(c) \/ COpenSem(c) \/ CLock(c) \/ CReadCount(c) \/ CReadNext(c) \/ CPrint(c)
             \/ CEnd(c) \/ CSkip(c) \/ CDie(c)
      PROVE  UNCHANGED <<full, took, sized, shmName>>
  BY <1>7 DEF CMap, COpenSem, CLock, CReadCount, CReadNext, CPrint, CEnd, CSkip, CDie
<1>8. CASE UNCHANGED <<full, took, sized, shmName>>
  BY <1>8, PoolStutters
<1>9. CASE UNCHANGED vars
  BY <1>8, <1>9 DEF vars
<1>. QED
  BY <1>1, <1>2, <1>3, <1>4, <1>5, <1>6, <1>7, <1>8, <1>9 DEF Next, Producing, Consuming

\* Whatever producers and consumers do, the segment of each producer is a pool: a block is
\* published once, and the segment is given up only after all of its blocks were claimed.
THEOREM Refinement == Spec => ImplementsPool
<1>1. Init => \A p \in Producers : Pool(p)!PoolInit
  BY DEF Init, Pool!PoolInit
<1>2. IInv /\ [Next]_vars =>
        [\A p \in Producers : Pool(p)!PoolNext \/ UNCHANGED Pool(p)!poolVars]_vars
  BY PoolStep
<1>3. QED
  BY Invariance, <1>1, <1>2, PTL DEF Spec, ImplementsPool

=============================================================================
