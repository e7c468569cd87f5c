----------------------------- MODULE ShmSysVInv -----------------------------
(***************************************************************************)
(* The inductive invariant of ShmSysV, in named parts.  The properties of   *)
(* ShmSysV are not inductive as they stand: that a block is claimed once,  *)
(* for instance, rests on the semaphore (SemInv), on where a consumer's    *)
(* offset can point (LayoutInv, PointerInv) and on what a consumer that    *)
(* has read a header but not yet claimed the block knows (ClaimInv).       *)
(***************************************************************************)
EXTENDS ShmSysV

InCS(c) == semOK[c] /\ cpc[c] \in Holding
ProducerInCS == ppc \in {"write", "link", "scan"}
Generating == ppc \in {"shmget", "semget", "setval", "gen", "lock", "write", "link"}
Closing == ppc \in {"rmshm", "rmsem", "done"}

\* The life of the segment and of the semaphore, and who can be inside.
SemInv ==
  /\ ppc \in {"shmget", "semget"} => sem = "none"
  /\ ppc \notin {"shmget", "semget", "done", "dead"} => sem = "up"
  /\ sem = "gone" <=> ppc = "done"
  /\ shm = "gone" => ppc \in {"rmsem", "done", "dead"}
  /\ ppc = "setval" => val = 0 /\ \A c \in Consumers : ~InCS(c)
  /\ ProducerInCS => val = 0
  /\ \A c \in Consumers : cpc[c] \in {"start", "semget"} => semOK[c]
  /\ \A c \in Consumers : semOK[c] /\ cpc[c] \in Attached => sem # "none"
  /\ sem = "up" =>
       /\ \A c \in Consumers : InCS(c) => val = 0 /\ ~ProducerInCS
       /\ \A c, d \in Consumers : InCS(c) /\ InCS(d) => c = d

End(o) == o + HeaderWords + size[o]

\* The blocks written so far tile the segment up to curr.
LayoutInv ==
  /\ curr <= Total
  /\ ppc \in {"lock", "write", "link"} =>
       curr + HeaderWords < Total /\ draw >= 1 /\ draw <= Total - curr - HeaderWords
  /\ ppc \in {"poll", "scan"} \/ Closing => curr + HeaderWords >= Total
  /\ \A o \in Offsets : size[o] > 0 => o <= curr /\ End(o) <= Total
  /\ \A o \in Offsets : size[o] > 0 /\ o < curr =>
       /\ End(o) <= curr
       /\ End(o) = curr \/ (End(o) \in Offsets /\ size[End(o)] > 0)
       /\ next[o] = IF End(o) + HeaderWords + 1 <= Total THEN End(o) ELSE 0
  /\ \A o, q \in Offsets : size[o] > 0 /\ size[q] > 0 /\ o < q => End(o) <= q
  /\ \A o \in Offsets : size[o] = 0 => count[o] = 0 /\ next[o] = 0 /\ took[o] = 0
  /\ \A o \in Offsets : o = curr /\ size[o] > 0 =>
       /\ ppc \in {"link", "dead"} /\ next[o] = 0
       /\ ppc = "link" => size[o] = draw
  /\ ppc = "link" => size[curr] > 0
  /\ curr > 0 => size[0] > 0

\* What an offset, a next_addr or ptr can be: a block or the place of the next.
Pointer(p) ==
  /\ p \in Nat /\ p <= curr /\ p + HeaderWords + 1 <= Total
  /\ p = curr \/ size[p] > 0

PointerInv ==
  /\ Pointer(0)
  /\ \A o \in Offsets : Pointer(next[o])
  /\ \A c \in Consumers : Pointer(off[c]) /\ Pointer(nxt[c])
  /\ Pointer(ptr)

\* What is known of a block once it was written, and once it was read.
ClaimInv ==
  /\ \A o \in Offsets : size[o] > 0 => count[o] = (IF took[o] = 0 THEN size[o] ELSE 0)
  /\ \A c \in Consumers : cpc[c] = "take" => cnt[c] > 0
  /\ \A c \in Consumers : cpc[c] \in {"readnext", "take"} /\ cnt[c] > 0 => cnt[c] = size[off[c]]
  /\ Closing => \A o \in Offsets : count[o] = 0
  /\ (\A d \in Consumers : semOK[d]) =>
       /\ \A o \in Offsets : took[o] <= 1
       /\ \A c \in Consumers :
            cpc[c] \in {"readnext", "take"} /\ cnt[c] > 0 => count[off[c]] > 0

\* What a walk along the chain has established behind it.
WalkInv ==
  /\ ppc \notin {"scan", "dead"} => ptr = 0
  /\ ppc = "scan" => \A o \in Offsets : o < ptr => count[o] = 0
  /\ \A c \in Consumers :
       /\ cpc[c] \in {"start", "semget"} => off[c] = 0
       /\ cpc[c] \in {"end", "skip"} => cnt[c] = 0
       /\ cpc[c] = "skip" => nxt[c] # 0
       /\ semOK[c] /\ cpc[c] = "skip" => nxt[c] = next[off[c]]
       /\ semOK[c] /\ cpc[c] = "end" => next[off[c]] = 0
       /\ InCS(c) /\ cpc[c] # "read" /\ cnt[c] = 0 => count[off[c]] = 0
       /\ semOK[c] /\ processed[c] = 0 => \A o \in Offsets : o < off[c] => count[o] = 0

IInv == TypeOK /\ SemInv /\ LayoutInv /\ PointerInv /\ ClaimInv /\ WalkInv

=============================================================================
