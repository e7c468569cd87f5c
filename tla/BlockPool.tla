----------------------------- MODULE BlockPool -----------------------------
(***************************************************************************)
(* What the shared-memory producer and its consumers (module3/04 and       *)
(* module3/05) promise together, without memory, semaphores or processes:  *)
(* a pool of blocks, each produced once, each taken at most once, and      *)
(* closed by the producer only after everything produced has been taken.   *)
(***************************************************************************)
CONSTANT Blocks

VARIABLES
  produced,   \* blocks the producer has published
  taken,      \* blocks some consumer has claimed
  closed      \* the producer has closed the pool

poolVars == <<produced, taken, closed>>

PoolInit ==
  /\ produced = {}
  /\ taken = {}
  /\ closed = FALSE

Produce(b) ==
  /\ ~closed
  /\ b \in Blocks \ produced
  /\ produced' = produced \cup {b}
  /\ UNCHANGED <<taken, closed>>

Take(b) ==
  /\ b \in produced \ taken
  /\ taken' = taken \cup {b}
  /\ UNCHANGED <<produced, closed>>

Close ==
  /\ ~closed
  /\ taken = produced
  /\ closed' = TRUE
  /\ UNCHANGED <<produced, taken>>

PoolNext ==
  \/ \E b \in Blocks : Produce(b) \/ Take(b)
  \/ Close

PoolSpec == PoolInit /\ [][PoolNext]_poolVars

=============================================================================
