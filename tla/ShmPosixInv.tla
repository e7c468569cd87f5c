---------------------------- MODULE ShmPosixInv ----------------------------
(***************************************************************************)
(* The inductive invariant of ShmPosix, in named parts.  What differs from  *)
(* ShmSysV is that objects outlive their names: which producer a name       *)
(* denotes (NameInv), who holds which semaphore (SemInv) and what a chain   *)
(* of blocks looks like (ChainInv) hold whatever the consumers opened; that *)
(* a block is claimed once (ClaimInv) only for a segment all of whose       *)
(* consumers opened the semaphore that belongs to it.                      *)
(***************************************************************************)
EXTENDS ShmPosix

Inner == {"write", "link", "scan"}
Opening == {"start", "truncate", "sem"}
Generating == {"gen", "write", "link"}
Closing == {"rmshm", "rmsem", "done"}

\* A producer that lives and has not come to the unlinking owns the name, and nobody knows
\* of a semaphore before it is made.
Naming(p) ==
  /\ ppc[p] = "start" => shmName # p
  /\ ppc[p] \in {"truncate", "sem", "poll", "scan", "rmshm"} \cup Generating => shmName = p
  /\ ppc[p] \in {"poll", "scan", "rmshm", "rmsem"} \cup Generating => semName = p
  /\ ppc[p] \in Opening =>
       val[p] = 0 /\ semName # p /\ \A c \in Consumers : semh[c] # p
  /\ ppc[p] \in {"start", "truncate"} => ~sized[p]
  /\ ppc[p] \in {"sem", "poll", "scan"} \cup Generating \cup Closing => sized[p]
  /\ semName = p \/ (\E c \in Consumers : semh[c] = p) => sized[p]

NameInv == \A p \in Producers : Naming(p)

\* A process that is inside has the one unit of its semaphore.
Unit(p) == ppc[p] \in Inner => val[p] = 0
Handles(c) ==
  /\ cpc[c] = "start" => seg[c] = None
  /\ cpc[c] \in {"start", "sem"} => semh[c] = None
  /\ cpc[c] \in Attached => seg[c] # None
  /\ cpc[c] \in Holding => semh[c] # None /\ val[semh[c]] = 0 /\ ppc[semh[c]] \notin Inner
  /\ cpc[c] = "bus" => Mixed(c)
  /\ cpc[c] = "skip" => nxt[c] # 0
Alone(c, d) == cpc[c] \in Holding /\ cpc[d] \in Holding /\ semh[c] = semh[d] => c = d
SemInv ==
  /\ \A p \in Producers : Unit(p)
  /\ \A c \in Consumers : Handles(c) /\ \A d \in Consumers : Alone(c, d)

Produced(p, b) == full[p][b] \/ took[p][b] > 0

\* Each header announces the next block or ends the chain; what lies behind was never
\* written; what the final check has passed, or all in the end, is claimed.
Chain(p, b) ==
  /\ link[p][b] \in {0, b + 1}
  /\ link[p][b] = 0 => \A e \in Blocks : e > b => ~Produced(p, e) /\ link[p][e] = 0
  /\ ppc[p] \in Opening \cup Generating =>
       /\ b < at[p] => link[p][b] # 0
       /\ b = at[p] => link[p][b] = 0
  /\ ppc[p] \in Opening \cup {"gen", "write"} /\ b = at[p] => ~Produced(p, b)
  /\ ppc[p] = "poll" => at[p] = 1
  /\ ppc[p] = "scan" /\ b < at[p] => ~full[p][b]
  /\ ppc[p] \in Closing => ~full[p][b]
Knows(c) ==
  /\ cpc[c] = "take" => cnt[c]
  /\ cpc[c] \in {"readnext", "take"} /\ cnt[c] => Produced(seg[c], pos[c])
ChainInv ==
  /\ \A p \in Producers : \A b \in Blocks : Chain(p, b)
  /\ \A c \in Consumers : Knows(c)

\* Every consumer of p's segment that has opened a semaphore has opened p's.
Guarded(p) == \A c \in Consumers : seg[c] = p => ~Mixed(c)

\* Then a block is claimed once, and who has found it full still does so when claiming it.
Claims(p) ==
  /\ \A b \in Blocks : took[p][b] <= 1 /\ (full[p][b] => took[p][b] = 0)
  /\ \A c \in Consumers :
       seg[c] = p /\ cpc[c] \in {"readnext", "take"} /\ cnt[c] => full[p][pos[c]]
ClaimInv == \A p \in Producers : Guarded(p) => Claims(p)

IInv == TypeOK /\ NameInv /\ SemInv /\ ChainInv /\ ClaimInv

=============================================================================
