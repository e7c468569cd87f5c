----------------------------- MODULE ShmPosix ------------------------------
(***************************************************************************)
(* module3/05: the producer and the consumers of module3/04 over POSIX     *)
(* shared memory and a named POSIX semaphore.  The layout of the segment   *)
(* is that of ShmSysV and is abstracted here to a chain of numbered blocks; *)
(* what differs is modelled: names that are created exclusively and         *)
(* unlinked while others hold handles to the objects behind them, a        *)
(* semaphore that is born with value one and does not undo what a killed   *)
(* process did, and producers that are started while the names still, or   *)
(* again, exist.  The objects a producer creates carry its name.           *)
(***************************************************************************)
EXTENDS Integers, FiniteSets

CONSTANTS
  Producers, Consumers,   \* the processes the user may start, in any order
  None,                   \* no object: the name does not exist, the open failed
  MaxBlocks,              \* bound on the blocks of one producer
  MaxCrashes              \* bound on the number of processes that are killed

ASSUME PosixAssumption ==
  /\ MaxBlocks \in Nat \ {0} /\ MaxCrashes \in Nat
  /\ None \notin Producers

Blocks == 1 .. MaxBlocks
Names == Producers \cup {None}

VARIABLES
  shmName, semName,   \* whose object "/shm" and "/sem" name
  sized,      \* ftruncate was called on the segment of p
  val,        \* the value of p's semaphore
  full,       \* full[p][b]: block b of p has count # 0
  link,       \* link[p][b]: the next_addr of block b of p, 0 if none
  ppc, at,    \* where producer p is; its curr_ptr, or ptr in the final check
  cpc,        \* where consumer c is
  seg, semh,  \* whose segment it mapped, whose semaphore it opened
  pos,        \* offset
  cnt, nxt,   \* count and next_offset as read from the header
  processed,  \* processed_count > 0
  took,       \* history: how often block b of p was claimed
  crashes     \* how many processes were killed so far

names    == <<shmName, semName>>
memory   == <<full, link>>
producer == <<ppc, at>>
consumer == <<cpc, seg, semh, pos, cnt, nxt, processed>>
vars == <<names, sized, val, memory, producer, consumer, took, crashes>>

ProducerStates == {"start", "truncate", "sem", "gen", "write", "link", "poll", "scan",
                   "rmshm", "rmsem", "done", "failed", "dead"}
Holding  == {"read", "readnext", "take", "end", "skip"}
Attached == Holding \cup {"sem", "lock", "print"}
Ended    == {"exited", "empty", "segv", "bus", "dead"}
ConsumerStates == Attached \cup Ended \cup {"start"}

Init ==
  /\ shmName = None /\ semName = None
  /\ sized = [p \in Producers |-> FALSE] /\ val = [p \in Producers |-> 0]
  /\ full = [p \in Producers |-> [b \in Blocks |-> FALSE]]
  /\ link = [p \in Producers |-> [b \in Blocks |-> 0]]
  /\ ppc = [p \in Producers |-> "start"] /\ at = [p \in Producers |-> 1]
  /\ cpc = [c \in Consumers |-> "start"]
  /\ seg = [c \in Consumers |-> None] /\ semh = [c \in Consumers |-> None]
  /\ pos = [c \in Consumers |-> 1]
  /\ cnt = [c \in Consumers |-> FALSE] /\ nxt = [c \in Consumers |-> 0]
  /\ processed = [c \in Consumers |-> FALSE]
  /\ took = [p \in Producers |-> [b \in Blocks |-> 0]]
  /\ crashes = 0

-----------------------------------------------------------------------------
Wait(p) == val[p] > 0 /\ val' = [val EXCEPT ![p] = @ - 1]
Post(p) == val' = [val EXCEPT ![p] = @ + 1]

PGo(p, place) == ppc' = [ppc EXCEPT ![p] = place]
CGo(c, place) == cpc' = [cpc EXCEPT ![c] = place]

-----------------------------------------------------------------------------
(* A producer.                                                             *)

PShmOpen(p) ==
  /\ ppc[p] = "start"
  /\ \/ /\ shmName = None /\ shmName' = p
        /\ PGo(p, "truncate")
     \/ /\ shmName # None /\ UNCHANGED shmName
        /\ PGo(p, "failed")
  /\ UNCHANGED <<semName, sized, val, memory, at, consumer, took, crashes>>

PTruncate(p) ==
  /\ ppc[p] = "truncate"
  /\ sized' = [sized EXCEPT ![p] = TRUE]
  /\ PGo(p, "sem")
  /\ UNCHANGED <<names, val, memory, at, consumer, took, crashes>>

\* (Seeded fault: the semaphore is opened with value two.)
PSemOpenTwo(p) ==
  /\ ppc[p] = "sem"
  /\ \/ /\ semName = None /\ semName' = p
        /\ val' = [val EXCEPT ![p] = 2]
        /\ PGo(p, "gen")
     \/ /\ semName # None /\ UNCHANGED <<semName, val>>
        /\ PGo(p, "failed")
  /\ UNCHANGED <<shmName, sized, memory, at, consumer, took, crashes>>

\* A producer that fails here leaves its segment and its name behind.
PSemOpen(p) ==
  /\ ppc[p] = "sem"
  /\ \/ /\ semName = None /\ semName' = p
        /\ val' = [val EXCEPT ![p] = 1]
        /\ PGo(p, "gen")
     \/ /\ semName # None /\ UNCHANGED <<semName, val>>
        /\ PGo(p, "failed")
  /\ UNCHANGED <<shmName, sized, memory, at, consumer, took, crashes>>

PWait(p) ==
  /\ ppc[p] = "gen"
  /\ Wait(p)
  /\ PGo(p, "write")
  /\ UNCHANGED <<names, sized, memory, at, consumer, took, crashes>>

PWrite(p) ==
  /\ ppc[p] = "write"
  /\ full' = [full EXCEPT ![p][at[p]] = TRUE]
  /\ link' = [link EXCEPT ![p][at[p]] = 0]
  /\ PGo(p, "link")
  /\ UNCHANGED <<names, sized, val, at, consumer, took, crashes>>

\* The next block is announced, and the loop goes on, exactly when another
\* header fits with one number; that depends on the counts drawn so far.
PLink(p) ==
  /\ ppc[p] = "link"
  /\ Post(p)
  /\ \/ /\ at[p] < MaxBlocks
        /\ link' = [link EXCEPT ![p][at[p]] = at[p] + 1]
        /\ at' = [at EXCEPT ![p] = @ + 1]
        /\ PGo(p, "gen")
     \/ /\ at' = [at EXCEPT ![p] = 1]
        /\ PGo(p, "poll")
        /\ UNCHANGED link
  /\ UNCHANGED <<names, sized, full, consumer, took, crashes>>

PPoll(p) ==
  /\ ppc[p] = "poll"
  /\ Wait(p)
  /\ PGo(p, "scan")
  /\ UNCHANGED <<names, sized, memory, at, consumer, took, crashes>>

\* (Seeded fault: only the first block is looked at.)
PScanFirst(p) ==
  /\ ppc[p] = "scan"
  /\ Post(p)
  /\ PGo(p, IF full[p][1] THEN "poll" ELSE "rmshm")
  /\ UNCHANGED <<names, sized, memory, at, consumer, took, crashes>>

PScan(p) ==
  /\ ppc[p] = "scan"
  /\ \/ /\ full[p][at[p]]
        /\ Post(p)
        /\ PGo(p, "poll") /\ at' = [at EXCEPT ![p] = 1]
     \/ /\ ~full[p][at[p]] /\ link[p][at[p]] # 0
        /\ at' = [at EXCEPT ![p] = link[p][@]]
        /\ UNCHANGED <<val, ppc>>
     \/ /\ ~full[p][at[p]] /\ link[p][at[p]] = 0
        /\ Post(p)
        /\ PGo(p, "rmshm") /\ at' = [at EXCEPT ![p] = 1]
  /\ UNCHANGED <<names, sized, memory, consumer, took, crashes>>

\* The names are unlinked, whatever they name by now.
PRemoveShm(p) ==
  /\ ppc[p] = "rmshm"
  /\ shmName' = None
  /\ PGo(p, "rmsem")
  /\ UNCHANGED <<semName, sized, val, memory, at, consumer, took, crashes>>

PRemoveSem(p) ==
  /\ ppc[p] = "rmsem"
  /\ semName' = None
  /\ PGo(p, "done")
  /\ UNCHANGED <<shmName, sized, val, memory, at, consumer, took, crashes>>

-----------------------------------------------------------------------------
(* A consumer.                                                             *)

\* A failed shm_open is noticed by mmap.
CMap(c) ==
  /\ cpc[c] = "start"
  /\ seg' = [seg EXCEPT ![c] = shmName]
  /\ CGo(c, IF shmName = None THEN "exited" ELSE "sem")
  /\ UNCHANGED <<names, sized, val, memory, producer, semh, pos, cnt, nxt, processed,
                 took, crashes>>

\* The result of sem_open is not tested.
COpenSem(c) ==
  /\ cpc[c] = "sem"
  /\ semh' = [semh EXCEPT ![c] = semName]
  /\ CGo(c, "lock")
  /\ UNCHANGED <<names, sized, val, memory, producer, seg, pos, cnt, nxt, processed,
                 took, crashes>>

\* sem_wait on SEM_FAILED dereferences NULL; on an open semaphore it blocks
\* and never says EINVAL, whether the name was unlinked or not.
CLock(c) ==
  /\ cpc[c] = "lock"
  /\ \/ /\ semh[c] = None
        /\ CGo(c, "segv")
        /\ UNCHANGED val
     \/ /\ semh[c] # None
        /\ Wait(semh[c])
        /\ CGo(c, "read")
  /\ UNCHANGED <<names, sized, memory, producer, seg, semh, pos, cnt, nxt, processed,
                 took, crashes>>

\* A mapping beyond the end of the object raises SIGBUS.
CReadCount(c) ==
  /\ cpc[c] = "read"
  /\ \/ /\ sized[seg[c]]
        /\ cnt' = [cnt EXCEPT ![c] = full[seg[c]][pos[c]]]
        /\ CGo(c, "readnext")
     \/ /\ ~sized[seg[c]]
        /\ CGo(c, "bus")
        /\ UNCHANGED cnt
  /\ UNCHANGED <<names, sized, val, memory, producer, seg, semh, pos, nxt, processed,
                 took, crashes>>

CReadNext(c) ==
  /\ cpc[c] = "readnext"
  /\ LET next == link[seg[c]][pos[c]]
     IN  /\ nxt' = [nxt EXCEPT ![c] = next]
         /\ CGo(c, IF cnt[c] THEN "take" ELSE IF next = 0 THEN "end" ELSE "skip")
  /\ UNCHANGED <<names, sized, val, memory, producer, seg, semh, pos, cnt, processed,
                 took, crashes>>

\* Offset 0 is the first block.
Target(c) == IF nxt[c] = 0 THEN 1 ELSE nxt[c]

LeaveScope(c) == cnt' = [cnt EXCEPT ![c] = FALSE] /\ nxt' = [nxt EXCEPT ![c] = 0]

\* (Seeded fault: the block is released before it is marked as claimed.)
CTakeNoReset(c) ==
  /\ cpc[c] = "take"
  /\ took' = [took EXCEPT ![seg[c]][pos[c]] = @ + 1]
  /\ processed' = [processed EXCEPT ![c] = TRUE]
  /\ Post(semh[c])
  /\ pos' = [pos EXCEPT ![c] = Target(c)]
  /\ CGo(c, "print") /\ LeaveScope(c)
  /\ UNCHANGED <<names, sized, memory, producer, seg, semh, crashes>>

CTake(c) ==
  /\ cpc[c] = "take"
  /\ full' = [full EXCEPT ![seg[c]][pos[c]] = FALSE]
  /\ took' = [took EXCEPT ![seg[c]][pos[c]] = @ + 1]
  /\ processed' = [processed EXCEPT ![c] = TRUE]
  /\ Post(semh[c])
  /\ pos' = [pos EXCEPT ![c] = Target(c)]
  /\ CGo(c, "print") /\ LeaveScope(c)
  /\ UNCHANGED <<names, sized, link, producer, seg, semh, crashes>>

CPrint(c) ==
  /\ cpc[c] = "print"
  /\ CGo(c, "lock")
  /\ UNCHANGED <<names, sized, val, memory, producer, seg, semh, pos, cnt, nxt,
                 processed, took, crashes>>

\* (Seeded fault: the consumer returns without sem_post.)
CEndKeeps(c) ==
  /\ cpc[c] = "end"
  /\ pos' = [pos EXCEPT ![c] = 1]
  /\ processed' = [processed EXCEPT ![c] = FALSE]
  /\ CGo(c, IF processed[c] THEN "lock" ELSE "empty")
  /\ IF processed[c] THEN Post(semh[c]) ELSE UNCHANGED val
  /\ LeaveScope(c)
  /\ UNCHANGED <<names, sized, memory, producer, seg, semh, took, crashes>>

\* (Seeded fault: sem_post once for the pass and once for the block.)
CEndPostsTwice(c) ==
  /\ cpc[c] = "end"
  /\ pos' = [pos EXCEPT ![c] = 1]
  /\ processed' = [processed EXCEPT ![c] = FALSE]
  /\ CGo(c, IF processed[c] THEN "lock" ELSE "empty")
  /\ val' = [val EXCEPT ![semh[c]] = @ + 2]
  /\ LeaveScope(c)
  /\ UNCHANGED <<names, sized, memory, producer, seg, semh, took, crashes>>

CEnd(c) ==
  /\ cpc[c] = "end"
  /\ Post(semh[c])
  /\ pos' = [pos EXCEPT ![c] = 1]
  /\ processed' = [processed EXCEPT ![c] = FALSE]
  /\ CGo(c, IF processed[c] THEN "lock" ELSE "empty")
  /\ LeaveScope(c)
  /\ UNCHANGED <<names, sized, memory, producer, seg, semh, took, crashes>>

\* (Seeded fault: the offset does not move on.)
CSkipStays(c) ==
  /\ cpc[c] = "skip"
  /\ Post(semh[c])
  /\ CGo(c, "lock") /\ LeaveScope(c)
  /\ UNCHANGED <<names, sized, memory, producer, seg, semh, pos, processed, took, crashes>>

CSkip(c) ==
  /\ cpc[c] = "skip"
  /\ pos' = [pos EXCEPT ![c] = nxt[c]]
  /\ Post(semh[c])
  /\ CGo(c, "lock") /\ LeaveScope(c)
  /\ UNCHANGED <<names, sized, memory, producer, seg, semh, processed, took, crashes>>

-----------------------------------------------------------------------------
(* A process is killed.  What it did to a semaphore stays done.            *)

PDie(p) ==
  /\ crashes < MaxCrashes
  /\ ppc[p] \notin {"start", "done", "failed", "dead"}
  /\ crashes' = crashes + 1
  /\ PGo(p, "dead")
  /\ UNCHANGED <<names, sized, val, memory, at, consumer, took>>

CDie(c) ==
  /\ crashes < MaxCrashes
  /\ cpc[c] \in Attached
  /\ crashes' = crashes + 1
  /\ CGo(c, "dead")
  /\ UNCHANGED <<names, sized, val, memory, producer, seg, semh, pos, cnt, nxt,
                 processed, took>>

-----------------------------------------------------------------------------
Producing(p) ==
  \/ PTruncate(p) \/ PSemOpen(p)
  \/ PWait(p) \/ PWrite(p) \/ PLink(p)
  \/ PPoll(p) \/ PScan(p)
  \/ PRemoveShm(p) \/ PRemoveSem(p)

Consuming(c) ==
  \/ COpenSem(c) \/ CLock(c) \/ CReadCount(c) \/ CReadNext(c)
  \/ CTake(c) \/ CPrint(c) \/ CEnd(c) \/ CSkip(c)

Next ==
  \/ \E p \in Producers : PShmOpen(p) \/ Producing(p) \/ PDie(p)
  \/ \E c \in Consumers : CMap(c) \/ Consuming(c) \/ CDie(c)

Spec == Init /\ [][Next]_vars

\* A started process is scheduled, and is not kept from a semaphore for ever:
\* its rivals sleep for one or three seconds between two passes.
Fairness ==
  /\ \A p \in Producers : WF_vars(Producing(p)) /\ SF_vars(PWait(p)) /\ SF_vars(PPoll(p))
  /\ \A c \in Consumers : WF_vars(Consuming(c)) /\ SF_vars(CLock(c))

FairSpec == Spec /\ Fairness

-----------------------------------------------------------------------------
(* Properties.                                                             *)

\* Every variable keeps its type; in particular no semaphore exceeds one.
TypeOK ==
  /\ shmName \in Names /\ semName \in Names
  /\ sized \in [Producers -> BOOLEAN] /\ val \in [Producers -> 0 .. 1]
  /\ full \in [Producers -> [Blocks -> BOOLEAN]]
  /\ link \in [Producers -> [Blocks -> 0 .. MaxBlocks]]
  /\ ppc \in [Producers -> ProducerStates] /\ at \in [Producers -> Blocks]
  /\ cpc \in [Consumers -> ConsumerStates]
  /\ seg \in [Consumers -> Names] /\ semh \in [Consumers -> Names]
  /\ pos \in [Consumers -> Blocks]
  /\ cnt \in [Consumers -> BOOLEAN] /\ nxt \in [Consumers -> 0 .. MaxBlocks]
  /\ processed \in [Consumers -> BOOLEAN]
  /\ took \in [Producers -> [Blocks -> Nat]]
  /\ crashes \in 0 .. MaxCrashes

\* The consumer opened the segment of one producer and the semaphore of another:
\* the two opens straddle the end of one producer and the start of the next.
Mixed(c) == semh[c] # None /\ semh[c] # seg[c]

\* A block is claimed twice only when some consumer guards its segment with
\* another producer's semaphore (shm_open and sem_open are two steps,
\* consumer.c:5-14).
TakenOnce ==
  \A p \in Producers : \A b \in Blocks :
    took[p][b] > 1 => \E c \in Consumers : seg[c] = p /\ Mixed(c)

\* No consumer touches the segment before the producer gave it its size, although
\* nothing waits for ftruncate: whoever is too early finds no semaphore either.
\* Only a semaphore left by another producer lets it through.
NoBusError == \A c \in Consumers : cpc[c] = "bus" => Mixed(c)

\* Only consumers that mix two producers' objects claim a block twice or touch a
\* segment without size.
MixedOnly == TakenOnce /\ NoBusError

Inside(p) ==
  {x \in Producers : x = p /\ ppc[x] \in {"write", "link", "scan"}}
  \cup {c \in Consumers : semh[c] = p /\ cpc[c] \in Holding}

\* No two processes are between sem_wait and sem_post of one semaphore, also when
\* the producer has long unlinked it.
OneInside == \A p \in Producers : Cardinality(Inside(p)) <= 1

Pool(p) == INSTANCE BlockPool WITH
  produced <- {b \in Blocks : full[p][b] \/ took[p][b] > 0},
  taken <- {b \in Blocks : took[p][b] > 0},
  closed <- sized[p] /\ shmName # p

\* The processes implement the abstract pool of ShmSysV: a producer gives up its
\* segment only after all of its blocks were claimed.
ImplementsPool ==
  /\ \A p \in Producers : Pool(p)!PoolInit
  /\ [][\A p \in Producers : Pool(p)!PoolNext \/ UNCHANGED Pool(p)!poolVars]_vars

\* The semaphore was taken by a process that was killed before giving it back.
Lost(p) == crashes > 0 /\ p # None /\ val[p] = 0 /\ Inside(p) = {}

\* Every attached consumer ends, except behind a semaphore that a killed process
\* took with it (sem_wait has no undo).
ConsumersEnd ==
  \A c \in Consumers : cpc[c] \in Attached ~> cpc[c] \in Ended \/ Lost(semh[c])

\* A producer that starts to generate finishes once a consumer of its segment
\* and semaphore is attached when it polls, and nobody is killed meanwhile.
Drained ==
  \A p \in Producers :
    (ppc[p] = "poll" /\ \E c \in Consumers :
        seg[c] = p /\ semh[c] = p /\ cpc[c] \in Attached)
    ~> ppc[p] \in {"done", "dead"} \/ crashes > 0

=============================================================================
