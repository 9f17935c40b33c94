---------------------------- MODULE CloseLoopPool ----------------------------
(* The close loop command pool of src/command/pool.rs: a queue of pending     *)
(* commands, and for each client that has one the absolute offset at which it *)
(* sits, so that a newer command replaces it in place and a committed one is  *)
(* taken out with swap_remove.                                                *)
EXTENDS Integers, Sequences, SequencesExt

CONSTANTS Client,          \* the ids of the close loop clients
          MaxSeq,          \* bound: clients number their commands 1..MaxSeq
          MaxBatchSize     \* the argument the replica gives to close_batch

ASSUME MaxSeqAssumption == MaxSeq \in Nat \ {0}
ASSUME MaxBatchSizeAssumption == MaxBatchSize \in Nat \ {0}

VARIABLES
  pendingQueue,          \* the pending commands, next to be returned first
  pendingQueueOffset,    \* how many commands have left the front of the queue
  clientPendingOffsets,  \* client -> absolute offset of its pending command
  submittedSeqs,         \* client -> highest seq returned or committed, 0 if none
  returned,              \* history: every command close_batch has returned
  ahead,                 \* history: ahead[c] are the clients that still have the
                         \* command pending that waited when push appended that of c
  panicked               \* an assertion or an index of the code has failed

vars == <<pendingQueue, pendingQueueOffset, clientPendingOffsets, submittedSeqs,
          returned, ahead, panicked>>

Command == [client : Client, seq : 1..MaxSeq]
NoOffset == -1  \* the HashMap has no entry for the client

Init ==
  /\ pendingQueue = <<>>
  /\ pendingQueueOffset = 0
  /\ clientPendingOffsets = [c \in Client |-> NoOffset]
  /\ submittedSeqs = [c \in Client |-> 0]
  /\ returned = <<>>
  /\ ahead = [c \in Client |-> {}]
  /\ panicked = FALSE

HasPending(c) == clientPendingOffsets[c] # NoOffset

(* The index of the pending command of c, counted from 1.                     *)
ClientPendingIndex(c) == clientPendingOffsets[c] - pendingQueueOffset + 1

(* The index can be used: the subtraction does not underflow, and the queue is *)
(* long enough.                                                                *)
IndexInRange(c) == ClientPendingIndex(c) \in 1..Len(pendingQueue)

(* The history once the clients in gone have no pending command any more.      *)
AheadWithout(gone) == [c \in Client |-> IF c \in gone THEN {} ELSE ahead[c] \ gone]

-----------------------------------------------------------------------------
(* push.                                                                       *)

PushStale(command) ==
  /\ submittedSeqs[command.client] >= command.seq
  /\ UNCHANGED vars

(* The newer command takes the place of the pending one.                       *)
RequeuedReplace(queue, i, command) == Append(RemoveAt(queue, i), command)
Replace(queue, i, command) == [queue EXCEPT ![i] = command]

PushReplace(command) ==
  LET c == command.client
      i == ClientPendingIndex(c)
  IN  /\ submittedSeqs[c] < command.seq
      /\ HasPending(c)
      /\ IF IndexInRange(c) /\ pendingQueue[i].client = c
         THEN /\ pendingQueue' = IF command.seq > pendingQueue[i].seq
                                 THEN Replace(pendingQueue, i, command)
                                 ELSE pendingQueue
              /\ UNCHANGED panicked
         ELSE /\ panicked' = TRUE
              /\ UNCHANGED pendingQueue
      /\ UNCHANGED <<pendingQueueOffset, clientPendingOffsets, submittedSeqs,
                     returned, ahead>>

PushAppend(command) ==
  LET c == command.client
  IN  /\ submittedSeqs[c] < command.seq
      /\ ~HasPending(c)
      /\ clientPendingOffsets' =
           [clientPendingOffsets EXCEPT ![c] = pendingQueueOffset + Len(pendingQueue)]
      /\ pendingQueue' = Append(pendingQueue, command)
      /\ ahead' = [ahead EXCEPT ![c] = {d \in Client : HasPending(d)}]
      /\ UNCHANGED <<pendingQueueOffset, submittedSeqs, returned, panicked>>

Push(command) == PushStale(command) \/ PushReplace(command) \/ PushAppend(command)

-----------------------------------------------------------------------------
(* close_batch. The clients of the batch are forgotten by the offset map and    *)
(* their commands become the submitted ones; the order of the loop over the     *)
(* batch does not matter when it holds one command per client, and the          *)
(* assertion of the loop fails when it does not, or when a command is stale.    *)

BatchSize == IF MaxBatchSize < Len(pendingQueue) THEN MaxBatchSize ELSE Len(pendingQueue)
BatchClients == {pendingQueue[i].client : i \in 1..BatchSize}

(* The position of the last command of client c in the next batch.            *)
LastInBatch(c) ==
  CHOOSE i \in 1..BatchSize :
    /\ pendingQueue[i].client = c
    /\ \A j \in 1..BatchSize : pendingQueue[j].client = c => j <= i

BatchAssertionFails ==
  \E i \in 1..BatchSize :
    \/ submittedSeqs[pendingQueue[i].client] >= pendingQueue[i].seq
    \/ \E j \in 1..(i - 1) : /\ pendingQueue[j].client = pendingQueue[i].client
                             /\ pendingQueue[j].seq >= pendingQueue[i].seq

FullBatchOnly == Len(pendingQueue) >= MaxBatchSize
CanClose == pendingQueue # <<>>

CloseBatch ==
  /\ CanClose
  /\ pendingQueue' = SubSeq(pendingQueue, BatchSize + 1, Len(pendingQueue))
  /\ pendingQueueOffset' = pendingQueueOffset + BatchSize
  /\ clientPendingOffsets' =
       [c \in Client |-> IF c \in BatchClients THEN NoOffset ELSE clientPendingOffsets[c]]
  /\ submittedSeqs' =
       [c \in Client |-> IF c \in BatchClients THEN pendingQueue[LastInBatch(c)].seq
                                               ELSE submittedSeqs[c]]
  /\ returned' = returned \o SubSeq(pendingQueue, 1, BatchSize)
  /\ ahead' = AheadWithout(BatchClients)
  /\ panicked' = (panicked \/ BatchAssertionFails)

-----------------------------------------------------------------------------
(* commit. swap_remove puts the last command in the place of the removed one,   *)
(* and the offset of its client is corrected.                                   *)

SwapRemove(queue, i) ==
  [j \in 1..(Len(queue) - 1) |-> IF j = i THEN queue[Len(queue)] ELSE queue[j]]

(* The offsets after the entry of c at index i is removed and, if another       *)
(* command was swapped in, its client has been moved to i.                      *)
OffsetsNotMoved(c, i) == [clientPendingOffsets EXCEPT ![c] = NoOffset]
OffsetsAfterRemoval(c, i) ==
  [d \in Client |->
     IF i < Len(pendingQueue) /\ d = pendingQueue[Len(pendingQueue)].client
     THEN pendingQueueOffset + i - 1
     ELSE IF d = c THEN NoOffset ELSE clientPendingOffsets[d]]

OverwriteSubmitted(command) ==
  submittedSeqs' = [submittedSeqs EXCEPT ![command.client] = command.seq]
RaiseSubmitted(command) ==
  submittedSeqs' = [submittedSeqs EXCEPT ![command.client] =
                      IF @ < command.seq THEN command.seq ELSE @]

(* A pending command is dropped once its seq, or a later one, is committed.     *)
OnlyOlderStale(pendingSeq, seq) == pendingSeq < seq
IsStale(pendingSeq, seq) == pendingSeq <= seq

CommitRemove(command) ==
  LET c == command.client
      i == ClientPendingIndex(c)
  IN  /\ HasPending(c)
      /\ IndexInRange(c)
      /\ IsStale(pendingQueue[i].seq, command.seq)
      /\ pendingQueue' = SwapRemove(pendingQueue, i)
      /\ clientPendingOffsets' = OffsetsAfterRemoval(c, i)
      /\ ahead' = AheadWithout({c})
      /\ UNCHANGED panicked

CommitKeep(command) ==
  LET c == command.client
      i == ClientPendingIndex(c)
  IN  /\ ~HasPending(c) \/ (IndexInRange(c) => ~IsStale(pendingQueue[i].seq, command.seq))
      /\ panicked' = (panicked \/ (HasPending(c) /\ ~IndexInRange(c)))
      /\ UNCHANGED <<pendingQueue, clientPendingOffsets, ahead>>

Commit(command) ==
  /\ RaiseSubmitted(command)
  /\ CommitRemove(command) \/ CommitKeep(command)
  /\ UNCHANGED <<pendingQueueOffset, returned>>

-----------------------------------------------------------------------------
Next ==
  \/ \E command \in Command : Push(command)
  \/ CloseBatch
  \/ \E command \in Command : Commit(command)

Spec == Init /\ [][Next]_vars

(* The replica keeps closing batches: a primary calls close_batch for every     *)
(* request it receives and every block it finalizes.                            *)
FairSpec == Spec /\ WF_vars(CloseBatch)

-----------------------------------------------------------------------------
TypeOK ==
  /\ pendingQueue \in Seq(Command)
  /\ pendingQueueOffset \in Nat
  /\ clientPendingOffsets \in [Client -> Nat \cup {NoOffset}]
  /\ submittedSeqs \in [Client -> 0..MaxSeq]
  /\ returned \in Seq(Command)
  /\ ahead \in [Client -> SUBSET Client]
  /\ panicked \in BOOLEAN

(* The offset map and the queue describe the same pending commands: every entry *)
(* of the map leads to a command of its client, and every queued command is     *)
(* found through the map. swap_remove, the drained front and in place           *)
(* replacement all have to keep this, or a later push overwrites a command of   *)
(* another client.                                                              *)
OffsetsLocatePending ==
  /\ \A c \in Client : HasPending(c) => IndexInRange(c)
  /\ \A i \in 1..Len(pendingQueue) :
       clientPendingOffsets[pendingQueue[i].client] = pendingQueueOffset + i - 1
  /\ \A c \in Client :
       HasPending(c) => pendingQueue[ClientPendingIndex(c)].client = c

(* No assertion and no index of the pool fails, whatever the order of pushes,   *)
(* batches and commits: in particular a batch never holds a command that was    *)
(* returned or committed before ("replaced < Some(command.seq)").               *)
NoPanic == ~panicked

(* "if a command is pushed or committed, push it again will return false and it *)
(* will not be returned by close_batch one more time": no command is returned   *)
(* twice, and the commands of a client are returned in increasing order.        *)
ReturnedOnce ==
  \A i, j \in 1..Len(returned) :
    i < j /\ returned[i].client = returned[j].client => returned[i].seq < returned[j].seq

(* A pending command never moves away from the front of the queue: swap_remove  *)
(* may let a later command overtake others, but nobody is set back, so a        *)
(* command waits for at most the batches that were ahead of it when it came.    *)
NoSetback ==
  [][\A i \in 1..Len(pendingQueue) : \A j \in 1..Len(pendingQueue') :
       pendingQueue'[j].client = pendingQueue[i].client => j <= i]_vars

(* "both variants of command pool preserve the ordering. if a command is pushed *)
(* later than the other one, it will not be returned by close_batch earlier":   *)
(* when a command is returned, no client that came before it is left waiting or *)
(* comes later in the batch.                                                    *)
OrderPreserved ==
  [][\A k \in 1..(Len(returned') - Len(returned)) :
       ahead[returned'[Len(returned) + k].client]
         \subseteq {returned'[Len(returned) + j].client : j \in 1..(k - 1)}]_vars

(* The commit of a command that this pool has returned never touches the queue,   *)
(* so a replica that is the only proposer, as a PBFT primary is, keeps the order   *)
(* of arrival: what is pending is always newer than all that was returned.        *)
OwnCommitsKeepQueue ==
  [][pendingQueue' # pendingQueue => \A i \in 1..Len(returned) : ~Commit(returned[i])]_vars

(* "a close loop pool guarantees liveness": what is pending is eventually       *)
(* returned, or its client has moved past it.                                   *)
PendingServed ==
  \A c \in Client : \A s \in 1..MaxSeq :
    (HasPending(c) /\ \E i \in 1..Len(pendingQueue) :
                        pendingQueue[i] = [client |-> c, seq |-> s])
      ~> (submittedSeqs[c] >= s)

(* The pool implements the abstract pool.                                       *)
PendingSeq(c) == IF HasPending(c) THEN pendingQueue[ClientPendingIndex(c)].seq ELSE 0

Abstract == INSTANCE AbstractPool
              WITH pending <- [c \in Client |-> PendingSeq(c)],
                   submitted <- submittedSeqs

AbstractPoolSpec == Abstract!Spec
=============================================================================
