----------------------------- MODULE CommandPool -----------------------------
(* The command pool of src/command/pool.rs as the replicas use it: one of two       *)
(* variants, to which it hands on every call.                                      *)
EXTENDS CloseLoopPool

CONSTANTS OpenClient,    \* the ids of the open loop clients
          OpenMaxSeq,    \* bound: open loop clients number their commands 1..OpenMaxSeq
          MaxLen         \* MAX_LEN of the open loop pool

ASSUME OpenMaxSeqAssumption == OpenMaxSeq \in Nat
(* close_batch of the open loop pool asserts it.                                   *)
ASSUME MaxLenAssumption == MaxLen \in Nat /\ MaxBatchSize <= MaxLen

VARIABLES variant, pendingBuf, clientSeqs, accepted, batched

Open == INSTANCE OpenLoopPool WITH Client <- OpenClient, MaxSeq <- OpenMaxSeq

openVars == <<pendingBuf, clientSeqs, accepted, batched>>
poolVars == <<variant, vars, openVars>>

PoolInit ==
  /\ variant \in {"CloseLoop", "OpenLoop"}
  /\ Init
  /\ Open!Init

IsCloseLoop == variant = "CloseLoop" /\ UNCHANGED <<variant, openVars>>
IsOpenLoop == variant = "OpenLoop" /\ UNCHANGED <<variant, vars>>

PoolPush ==
  \/ IsCloseLoop /\ \E command \in Command : Push(command)
  \/ IsOpenLoop /\ \E command \in Open!Command : Open!Push(command)

PoolCloseBatch ==
  \/ IsCloseLoop /\ CloseBatch
  \/ IsOpenLoop /\ Open!CloseBatch

PoolCommit ==
  \/ IsCloseLoop /\ \E command \in Command : Commit(command)
  \/ IsOpenLoop /\ \E command \in Open!Command : Open!Commit(command)

PoolNext == PoolPush \/ PoolCloseBatch \/ PoolCommit

PoolSpec == PoolInit /\ [][PoolNext]_poolVars

(* The replica keeps closing batches, see FairSpec.                                *)
FairPoolSpec == PoolSpec /\ WF_poolVars(PoolCloseBatch)

-----------------------------------------------------------------------------
(* What the open loop pool returns and keeps is in the order of pushes, never twice  *)
(* and bounded, and what it drops has enough newer commands for a batch.            *)
OpenLoopPromises == Open!Promises
=============================================================================
