------------------------------ MODULE ShmSysV ------------------------------
(***************************************************************************)
(* module3/04: one producer fills a System V shared-memory segment with a  *)
(* chain of variable-sized blocks; consumers walk the chain, claim each    *)
(* block and print its minimum and maximum; a System V semaphore guards    *)
(* every access.  The producer removes the segment and then the semaphore  *)
(* once it has seen every block claimed.                                   *)
(*                                                                         *)
(* Offsets are counted in words of sizeof(double) = 8 bytes: a header      *)
(* (struct Block, three ints padded to 16 bytes) is two words, a number is *)
(* one.  The numbers themselves are not modelled, only where they lie.     *)
(* Zero-filled memory is what a fresh segment holds, so a header nobody    *)
(* has written reads as count = 0, next_addr = 0.                          *)
(***************************************************************************)
EXTENDS Integers, FiniteSets

CONSTANTS
  Consumers,    \* the consumer processes
  Total,        \* TOTAL_SHM_SIZE, in words (512 in the code)
  MaxCount,     \* largest block the producer draws (15 in the code)
  MaxCrashes    \* bound on the number of processes that are killed

HeaderWords == 2

ASSUME ShmAssumption ==
  /\ Total \in Nat /\ Total > HeaderWords
  /\ MaxCount \in Nat \ {0}
  /\ MaxCrashes \in Nat

Offsets == 0 .. Total - 1

VARIABLES
  shm,        \* the segment: not created yet, usable, removed
  sem,        \* the semaphore: not created yet, usable, removed
  val,        \* its value
  count,      \* count[o], next[o]: the header at offset o
  next,
  ppc,        \* where the producer is
  curr,       \* curr_ptr - shared_data
  draw,       \* the count of the block being written
  ptr,        \* ptr - shared_data in the final check
  cpc,        \* where each consumer is
  semOK,      \* semid # -1: the consumer found the semaphore when it started
  off,        \* offset
  cnt,        \* count as read from the header
  nxt,        \* next_offset as read from the header
  processed,  \* processed_count
  size,       \* history: the count the block at o was written with, 0 if none
  took,       \* history: how many times the block at o was claimed
  crashes     \* how many processes were killed so far

ipc      == <<shm, sem>>
producer == <<ppc, curr, draw, ptr>>
consumer == <<cpc, semOK, off, cnt, nxt, processed>>
history  == <<size, took>>
vars == <<ipc, val, count, next, producer, consumer, history, crashes>>

IpcStates == {"none", "up", "gone"}
ProducerStates == {"shmget", "semget", "setval", "gen", "lock", "write", "link",
                   "poll", "scan", "rmshm", "rmsem", "done", "dead"}
Holding  == {"read", "readnext", "take", "end", "skip"}   \* between lock and unlock
Attached == Holding \cup {"lock", "print"}
Ended    == {"exited", "empty", "dead"}
ConsumerStates == Attached \cup Ended \cup {"start", "semget"}

Init ==
  /\ shm = "none" /\ sem = "none" /\ val = 0
  /\ count = [o \in Offsets |-> 0]
  /\ next = [o \in Offsets |-> 0]
  /\ ppc = "shmget" /\ curr = 0 /\ draw = 0 /\ ptr = 0
  /\ cpc = [c \in Consumers |-> "start"]
  /\ semOK = [c \in Consumers |-> TRUE]
  /\ off = [c \in Consumers |-> 0]
  /\ cnt = [c \in Consumers |-> 0]
  /\ nxt = [c \in Consumers |-> 0]
  /\ processed = [c \in Consumers |-> 0]
  /\ size = [o \in Offsets |-> 0]
  /\ took = [o \in Offsets |-> 0]
  /\ crashes = 0

-----------------------------------------------------------------------------
(* The semaphore: semaphor_lock is one -1 operation; semaphor_unlock waits *)
(* for zero and adds one.  Both fail at once, and their result is ignored, *)
(* when the process has no semaphore or it has been removed.               *)

SemLock == val = 1 /\ val' = val - 1
SemUnlock == val = 0 /\ val' = val + 1

Usable(c) == semOK[c] /\ sem = "up"
\* Seeded fault: the result of the lock is ignored and it does not wait.
ConsumerLockIgnored(c) == UNCHANGED val
ConsumerLock(c) == IF Usable(c) THEN SemLock ELSE UNCHANGED val
ConsumerUnlock(c) == IF Usable(c) THEN SemUnlock ELSE UNCHANGED val

-----------------------------------------------------------------------------
(* The producer.                                                           *)

\* shmget succeeds: no segment exists when this producer starts.
PShmget ==
  /\ ppc = "shmget"
  /\ shm' = "up"
  /\ ppc' = "semget"
  /\ UNCHANGED <<sem, val, count, next, curr, draw, ptr, consumer, history, crashes>>

\* A new System V semaphore has value 0 until SETVAL.
PSemget ==
  /\ ppc = "semget"
  /\ sem' = "up" /\ val' = 0
  /\ ppc' = "setval"
  /\ UNCHANGED <<shm, count, next, curr, draw, ptr, consumer, history, crashes>>

PSetval ==
  /\ ppc = "setval"
  /\ val' = 1
  /\ ppc' = "gen"
  /\ UNCHANGED <<ipc, count, next, curr, draw, ptr, consumer, history, crashes>>

\* Seeded fault: the room for the header is forgotten.
MaxPossibleNoHeader == Total - curr
MaxPossible == Total - curr - HeaderWords
More == curr + HeaderWords < Total /\ MaxPossible >= 1
NewBlock == curr + HeaderWords + draw

\* count = min(rand() % 15 + 1, max_possible_count)
PDraw ==
  /\ ppc = "gen" /\ More
  /\ \E rand \in 1 .. MaxCount :
       draw' = IF rand > MaxPossible THEN MaxPossible ELSE rand
  /\ ppc' = "lock"
  /\ UNCHANGED <<ipc, val, count, next, curr, ptr, consumer, history, crashes>>

PLock ==
  /\ ppc = "lock"
  /\ SemLock
  /\ ppc' = "write"
  /\ UNCHANGED <<ipc, count, next, curr, draw, ptr, consumer, history, crashes>>

PWrite ==
  /\ ppc = "write"
  /\ count' = [count EXCEPT ![curr] = draw]
  /\ next' = [next EXCEPT ![curr] = 0]
  /\ size' = [size EXCEPT ![curr] = draw]
  /\ ppc' = "link"
  /\ UNCHANGED <<ipc, val, curr, draw, ptr, consumer, took, crashes>>

\* The next header is announced only if it fits with at least one number.
PLink ==
  /\ ppc = "link"
  /\ next' = IF NewBlock + HeaderWords + 1 <= Total
             THEN [next EXCEPT ![curr] = NewBlock]
             ELSE next
  /\ SemUnlock
  /\ curr' = NewBlock /\ draw' = 0
  /\ ppc' = "gen"
  /\ UNCHANGED <<ipc, count, ptr, consumer, history, crashes>>

PGenerated ==
  /\ ppc = "gen" /\ ~More
  /\ ppc' = "poll"
  /\ UNCHANGED <<ipc, val, count, next, curr, draw, ptr, consumer, history, crashes>>

PPoll ==
  /\ ppc = "poll"
  /\ SemLock
  /\ ppc' = "scan"
  /\ UNCHANGED <<ipc, count, next, curr, draw, ptr, consumer, history, crashes>>

\* Seeded fault: the check ends at the last block without looking at its count.
PScanSkipsLast ==
  /\ ppc = "scan"
  /\ \/ /\ count[ptr] # 0 /\ next[ptr] # 0
        /\ SemUnlock
        /\ ppc' = "poll" /\ ptr' = 0
     \/ /\ count[ptr] = 0 /\ next[ptr] # 0
        /\ ptr' = next[ptr]
        /\ UNCHANGED <<val, ppc>>
     \/ /\ next[ptr] = 0
        /\ SemUnlock
        /\ ppc' = "rmshm" /\ ptr' = 0
  /\ UNCHANGED <<ipc, count, next, curr, draw, consumer, history, crashes>>

\* One block of the check: a block still full sends the producer to sleep(3).
PScan ==
  /\ ppc = "scan"
  /\ \/ /\ count[ptr] # 0
        /\ SemUnlock
        /\ ppc' = "poll" /\ ptr' = 0
     \/ /\ count[ptr] = 0 /\ next[ptr] # 0
        /\ ptr' = next[ptr]
        /\ UNCHANGED <<val, ppc>>
     \/ /\ count[ptr] = 0 /\ next[ptr] = 0
        /\ SemUnlock
        /\ ppc' = "rmshm" /\ ptr' = 0
  /\ UNCHANGED <<ipc, count, next, curr, draw, consumer, history, crashes>>

PRemoveShm ==
  /\ ppc = "rmshm"
  /\ shm' = "gone"
  /\ ppc' = "rmsem"
  /\ UNCHANGED <<sem, val, count, next, curr, draw, ptr, consumer, history, crashes>>

PRemoveSem ==
  /\ ppc = "rmsem"
  /\ sem' = "gone"
  /\ ppc' = "done"
  /\ UNCHANGED <<shm, val, count, next, curr, draw, ptr, consumer, history, crashes>>

-----------------------------------------------------------------------------
(* A consumer.  Its count and next_offset are local to one iteration: they  *)
(* are forgotten at the end of it, as draw and ptr are in the producer.     *)

CShmget(c) ==
  /\ cpc[c] = "start"
  /\ cpc' = [cpc EXCEPT ![c] = IF shm = "up" THEN "semget" ELSE "exited"]
  /\ UNCHANGED <<ipc, val, count, next, producer, semOK, off, cnt, nxt, processed,
                 history, crashes>>

\* A missing semaphore is reported and ignored.  A removed segment can still
\* be attached while another process keeps it alive.
CAttach(c) ==
  /\ cpc[c] = "semget"
  /\ semOK' = [semOK EXCEPT ![c] = sem = "up"]
  /\ cpc' = [cpc EXCEPT ![c] =
               IF shm = "up" \/ \E d \in Consumers : cpc[d] \in Attached
               THEN "lock" ELSE "exited"]
  /\ UNCHANGED <<ipc, val, count, next, producer, off, cnt, nxt, processed,
                 history, crashes>>

CLock(c) ==
  /\ cpc[c] = "lock"
  /\ ConsumerLock(c)
  /\ cpc' = [cpc EXCEPT ![c] = "read"]
  /\ UNCHANGED <<ipc, count, next, producer, semOK, off, cnt, nxt, processed,
                 history, crashes>>

CReadCount(c) ==
  /\ cpc[c] = "read"
  /\ cnt' = [cnt EXCEPT ![c] = count[off[c]]]
  /\ cpc' = [cpc EXCEPT ![c] = "readnext"]
  /\ UNCHANGED <<ipc, val, count, next, producer, semOK, off, nxt, processed,
                 history, crashes>>

CReadNext(c) ==
  /\ cpc[c] = "readnext"
  /\ nxt' = [nxt EXCEPT ![c] = next[off[c]]]
  /\ cpc' = [cpc EXCEPT ![c] = IF cnt[c] > 0 THEN "take"
                               ELSE IF next[off[c]] = 0 THEN "end" ELSE "skip"]
  /\ UNCHANGED <<ipc, val, count, next, producer, semOK, off, cnt, processed,
                 history, crashes>>

LeaveScope(c) == cnt' = [cnt EXCEPT ![c] = 0] /\ nxt' = [nxt EXCEPT ![c] = 0]

\* Seeded fault: the block is not marked as claimed.
CTakeNoReset(c) ==
  /\ cpc[c] = "take"
  /\ took' = [took EXCEPT ![off[c]] = @ + 1]
  /\ processed' = [processed EXCEPT ![c] = @ + 1]
  /\ ConsumerUnlock(c)
  /\ off' = [off EXCEPT ![c] = nxt[c]]
  /\ cpc' = [cpc EXCEPT ![c] = "print"]
  /\ LeaveScope(c)
  /\ UNCHANGED <<ipc, count, next, producer, semOK, size, crashes>>

CTake(c) ==
  /\ cpc[c] = "take"
  /\ count' = [count EXCEPT ![off[c]] = 0]
  /\ took' = [took EXCEPT ![off[c]] = @ + 1]
  /\ processed' = [processed EXCEPT ![c] = @ + 1]
  /\ ConsumerUnlock(c)
  /\ off' = [off EXCEPT ![c] = nxt[c]]
  /\ cpc' = [cpc EXCEPT ![c] = "print"]
  /\ LeaveScope(c)
  /\ UNCHANGED <<ipc, next, producer, semOK, size, crashes>>

\* Minimum and maximum are printed from a private copy, then sleep(1).
CPrint(c) ==
  /\ cpc[c] = "print"
  /\ cpc' = [cpc EXCEPT ![c] = "lock"]
  /\ UNCHANGED <<ipc, val, count, next, producer, semOK, off, cnt, nxt, processed,
                 history, crashes>>

\* Seeded fault: processed_count is not reset for the next pass.
CEndNoReset(c) ==
  /\ cpc[c] = "end"
  /\ ConsumerUnlock(c)
  /\ \/ /\ processed[c] = 0
        /\ cpc' = [cpc EXCEPT ![c] = "empty"]
        /\ UNCHANGED off
     \/ /\ processed[c] # 0
        /\ cpc' = [cpc EXCEPT ![c] = "lock"]
        /\ off' = [off EXCEPT ![c] = 0]
  /\ LeaveScope(c)
  /\ UNCHANGED <<ipc, count, next, producer, semOK, processed, history, crashes>>

\* End of the chain: exit after a pass that claimed nothing, else start over.
CEnd(c) ==
  /\ cpc[c] = "end"
  /\ ConsumerUnlock(c)
  /\ \/ /\ processed[c] = 0
        /\ cpc' = [cpc EXCEPT ![c] = "empty"]
        /\ UNCHANGED <<off, processed>>
     \/ /\ processed[c] # 0
        /\ cpc' = [cpc EXCEPT ![c] = "lock"]
        /\ off' = [off EXCEPT ![c] = 0]
        /\ processed' = [processed EXCEPT ![c] = 0]
  /\ LeaveScope(c)
  /\ UNCHANGED <<ipc, count, next, producer, semOK, history, crashes>>

\* Seeded fault: the offset does not move on.
CSkipStays(c) ==
  /\ cpc[c] = "skip"
  /\ ConsumerUnlock(c)
  /\ cpc' = [cpc EXCEPT ![c] = "lock"]
  /\ LeaveScope(c)
  /\ UNCHANGED <<ipc, count, next, producer, semOK, off, processed, history, crashes>>

CSkip(c) ==
  /\ cpc[c] = "skip"
  /\ off' = [off EXCEPT ![c] = nxt[c]]
  /\ ConsumerUnlock(c)
  /\ cpc' = [cpc EXCEPT ![c] = "lock"]
  /\ LeaveScope(c)
  /\ UNCHANGED <<ipc, count, next, producer, semOK, processed, history, crashes>>

-----------------------------------------------------------------------------
(* A process is killed.  SEM_UNDO gives back the unit it had taken.        *)

PDie ==
  /\ crashes < MaxCrashes
  /\ ppc \notin {"shmget", "done", "dead"}
  /\ val' = IF ppc \in {"write", "link", "scan"} THEN val + 1 ELSE val
  /\ ppc' = "dead"
  /\ crashes' = crashes + 1
  /\ UNCHANGED <<ipc, count, next, curr, draw, ptr, consumer, history>>

\* Seeded fault: the unlock lacks SEM_UNDO, so the adjustment made by the lock
\* is still there when the process dies outside.
CDieTwice(c) ==
  /\ crashes < MaxCrashes
  /\ cpc[c] \in Attached
  /\ val' = IF Usable(c) THEN val + 1 ELSE val
  /\ cpc' = [cpc EXCEPT ![c] = "dead"]
  /\ crashes' = crashes + 1
  /\ UNCHANGED <<ipc, count, next, producer, semOK, off, cnt, nxt, processed, history>>

CDie(c) ==
  /\ crashes < MaxCrashes
  /\ cpc[c] \in Attached
  /\ val' = IF Usable(c) /\ cpc[c] \in Holding THEN val + 1 ELSE val
  /\ cpc' = [cpc EXCEPT ![c] = "dead"]
  /\ crashes' = crashes + 1
  /\ UNCHANGED <<ipc, count, next, producer, semOK, off, cnt, nxt, processed, history>>

-----------------------------------------------------------------------------
Producing ==
  \/ PShmget \/ PSemget \/ PSetval
  \/ PDraw \/ PLock \/ PWrite \/ PLink
  \/ PGenerated \/ PPoll \/ PScan
  \/ PRemoveShm \/ PRemoveSem

Consuming(c) ==
  \/ CAttach(c) \/ CLock(c) \/ CReadCount(c) \/ CReadNext(c)
  \/ CTake(c) \/ CPrint(c) \/ CEnd(c) \/ CSkip(c)

Finished ==
  /\ ppc \in {"done", "dead"}
  /\ \A c \in Consumers : cpc[c] \in Ended
  /\ UNCHANGED vars

Next ==
  \/ Producing
  \/ PDie
  \/ \E c \in Consumers : CShmget(c) \/ Consuming(c) \/ CDie(c)
  \/ Finished

Spec == Init /\ [][Next]_vars

\* A started process is scheduled; System V hands a released semaphore to the
\* processes that sleep on it in the order they came, so nobody is overtaken
\* for ever.  Whether a consumer is ever started is up to the user.
Fairness ==
  /\ WF_vars(Producing)
  /\ SF_vars(PLock \/ PPoll)
  /\ \A c \in Consumers : WF_vars(Consuming(c)) /\ SF_vars(CLock(c))

FairSpec == Spec /\ Fairness

-----------------------------------------------------------------------------
(* Properties.                                                             *)

\* Every variable keeps its type; in particular the semaphore never exceeds one.
TypeOK ==
  /\ shm \in IpcStates /\ sem \in IpcStates /\ val \in 0 .. 1
  /\ count \in [Offsets -> Nat] /\ next \in [Offsets -> Nat]
  /\ ppc \in ProducerStates /\ curr \in Nat /\ draw \in Nat /\ ptr \in Nat
  /\ cpc \in [Consumers -> ConsumerStates]
  /\ semOK \in [Consumers -> BOOLEAN]
  /\ off \in [Consumers -> Nat] /\ cnt \in [Consumers -> Nat]
  /\ nxt \in [Consumers -> Nat] /\ processed \in [Consumers -> Nat]
  /\ size \in [Offsets -> Nat] /\ took \in [Offsets -> Nat]
  /\ crashes \in Nat

Written == {o \in Offsets : size[o] > 0}

\* No access leaves the segment and no two blocks overlap: whatever the drawn
\* counts, each block ends inside the segment and before the next one, and
\* the header and numbers a consumer touches, and the header the producer
\* checks, lie inside (pointer arithmetic of producer.c:58-80, consumer.c:41-53).
InBounds ==
  /\ \A o \in Written : o + HeaderWords + size[o] <= Total
  /\ \A o, q \in Written : o < q => o + HeaderWords + size[o] <= q
  /\ \A c \in Consumers :
       /\ off[c] + HeaderWords <= Total
       /\ cpc[c] = "take" => off[c] + HeaderWords + cnt[c] <= Total
  /\ ppc = "scan" => ptr + HeaderWords <= Total

\* As long as the semaphore exists, at most one of the processes that use it is
\* between semaphor_lock and semaphor_unlock, also after one was killed there.
MutualExclusion ==
  sem = "up" =>
    /\ \A c, d \in Consumers :
         /\ semOK[c] /\ cpc[c] \in Holding
         /\ semOK[d] /\ cpc[d] \in Holding
         => c = d
    /\ \A c \in Consumers :
         semOK[c] /\ cpc[c] \in Holding => ppc \notin {"write", "link", "scan"}

\* Each block is claimed at most once, although consumers go on without the
\* semaphore after the producer has removed it, unless a consumer that started
\* before the semaphore existed runs unlocked (consumer.c:21-25).
TakenOnce ==
  (\E o \in Offsets : took[o] > 1) => \E c \in Consumers : ~semOK[c]

\* A consumer that uses the semaphore and gives up with "memory is empty"
\* (consumer.c:77-84) has seen it empty: no block written so far is unclaimed.
EmptyExit ==
  [][\A c \in Consumers :
       semOK[c] /\ cpc[c] = "end" /\ cpc'[c] = "empty"
       => \A o \in Written : count[o] = 0]_vars

Pool == INSTANCE BlockPool WITH
  Blocks <- Offsets,
  produced <- Written,
  taken <- {o \in Offsets : took[o] > 0},
  closed <- shm = "gone"

\* The processes implement the abstract pool: the producer publishes each block
\* once and removes the segment only after all were claimed.
ImplementsPool == Pool!PoolSpec

\* More consumers that use the semaphore are attached than can still be killed.
Survivors ==
  Cardinality({c \in Consumers : semOK[c] /\ cpc[c] \in Attached}) > MaxCrashes - crashes

\* Once generation is over and a consumer is attached that uses the semaphore
\* and is not killed, the producer sees all blocks claimed and goes on to remove
\* the resources.  (A consumer without the semaphore may read a header half
\* written and give up early.)
Drained == (ppc = "poll" /\ Survivors) ~> ppc \in {"done", "dead"}

\* The producer was killed after semget and before SETVAL: the semaphore exists,
\* has the value zero, and nobody is inside who could raise it.
NeverSet ==
  /\ ppc = "dead" /\ sem = "up" /\ val = 0 /\ Written = {}
  /\ \A c \in Consumers : ~(semOK[c] /\ cpc[c] \in Holding)

\* Every attached consumer ends, whoever was killed: it claims nothing in some pass,
\* also when the producer has meanwhile removed the segment and the semaphore.
\* Only a semaphore that never got its value keeps it (producer.c:37-56).
ConsumersEnd ==
  \A c \in Consumers : cpc[c] \in Attached ~> cpc[c] \in Ended \/ NeverSet

=============================================================================
