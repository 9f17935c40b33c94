------------------------- MODULE CommandPoolProofs -------------------------
(* Proofs about the command pools, for any clients, seqs, batch size and MAX_LEN: *)
(* first about the close loop pool, then about the open loop pool and the two     *)
(* together.                                                                     *)
EXTENDS CommandPool, SequenceTheorems, TLAPS

(* What a pending command is compared with has not reached it.                *)
PendingFresh ==
  \A i \in 1..Len(pendingQueue) :
    submittedSeqs[pendingQueue[i].client] < pendingQueue[i].seq

(* What was returned is remembered as submitted.                              *)
ReturnedSubmitted ==
  \A i \in 1..Len(returned) : returned[i].seq <= submittedSeqs[returned[i].client]

(* The inductive invariant. NoPanic needs the offsets to be exact and pending *)
(* commands to be fresh, ReturnedOnce needs fresh commands to be newer than    *)
(* all that were returned.                                                     *)
PoolInv ==
  /\ TypeOK
  /\ OffsetsLocatePending
  /\ PendingFresh
  /\ ReturnedSubmitted
  /\ ReturnedOnce
  /\ NoPanic

-----------------------------------------------------------------------------
(* A client has at most one command in the queue.                             *)
LEMMA OneCommandPerClient ==
  ASSUME TypeOK, OffsetsLocatePending,
         NEW i \in 1..Len(pendingQueue), NEW j \in 1..Len(pendingQueue),
         pendingQueue[i].client = pendingQueue[j].client
  PROVE  i = j
<1>1. /\ clientPendingOffsets[pendingQueue[i].client] = pendingQueueOffset + i - 1
      /\ clientPendingOffsets[pendingQueue[j].client] = pendingQueueOffset + j - 1
  BY DEF OffsetsLocatePending
<1>2. pendingQueueOffset \in Nat /\ Len(pendingQueue) \in Nat
  BY DEF TypeOK
<1> QED BY <1>1, <1>2

(* The commands of the queue.                                                 *)
LEMMA QueuedCommand ==
  ASSUME TypeOK, NEW i \in 1..Len(pendingQueue)
  PROVE  /\ pendingQueue[i] \in Command
         /\ pendingQueue[i].client \in Client
         /\ pendingQueue[i].seq \in 1..MaxSeq
<1>1. pendingQueue \in Seq(Command)
  BY DEF TypeOK
<1>2. pendingQueue[i] \in Command
  BY <1>1
<1> QED BY <1>2 DEF Command

(* The pending command of a client is found through the map.                  *)
LEMMA PendingLocated ==
  ASSUME TypeOK, OffsetsLocatePending, NEW c \in Client, HasPending(c)
  PROVE  /\ IndexInRange(c)
         /\ ClientPendingIndex(c) \in 1..Len(pendingQueue)
         /\ pendingQueue[ClientPendingIndex(c)].client = c
BY DEF OffsetsLocatePending, IndexInRange

(* The map has an entry for the client of every queued command.               *)
LEMMA QueuedHasPending ==
  ASSUME TypeOK, OffsetsLocatePending, NEW i \in 1..Len(pendingQueue)
  PROVE  /\ HasPending(pendingQueue[i].client)
         /\ ClientPendingIndex(pendingQueue[i].client) = i
<1>1. clientPendingOffsets[pendingQueue[i].client] = pendingQueueOffset + i - 1
  BY DEF OffsetsLocatePending
<1>2. pendingQueueOffset \in Nat /\ Len(pendingQueue) \in Nat
  BY DEF TypeOK
<1> QED BY <1>1, <1>2 DEF HasPending, ClientPendingIndex, NoOffset

-----------------------------------------------------------------------------
LEMMA InitInv == Init => PoolInv
<1> SUFFICES ASSUME Init PROVE PoolInv
  OBVIOUS
<1>1. TypeOK
  <2>1. pendingQueue \in Seq(Command) /\ returned \in Seq(Command)
    BY DEF Init
  <2>2. clientPendingOffsets \in [Client -> Nat \cup {NoOffset}]
    BY DEF Init
  <2>3. submittedSeqs \in [Client -> 0..MaxSeq]
    BY MaxSeqAssumption DEF Init
  <2> QED BY <2>1, <2>2, <2>3 DEF Init, TypeOK
<1>2. OffsetsLocatePending
  BY DEF Init, OffsetsLocatePending, HasPending
<1> QED BY <1>1, <1>2 DEF Init, PoolInv, PendingFresh, ReturnedSubmitted, ReturnedOnce, NoPanic

(* In place replacement: the pending command is found, so nothing fails, and   *)
(* only its seq changes, upwards.                                              *)
LEMMA PushReplaceInv ==
  ASSUME PoolInv, NEW command \in Command, PushReplace(command)
  PROVE  PoolInv'
<1> DEFINE c == command.client
           i == ClientPendingIndex(c)
<1> USE DEF PoolInv
<1>1. c \in Client /\ command.seq \in 1..MaxSeq
  BY DEF Command
<1>2. HasPending(c) /\ submittedSeqs[c] < command.seq
  BY DEF PushReplace
<1>3. i \in 1..Len(pendingQueue) /\ pendingQueue[i].client = c /\ IndexInRange(c)
  BY <1>1, <1>2, PendingLocated
<1>4. /\ pendingQueue' = IF command.seq > pendingQueue[i].seq
                         THEN [pendingQueue EXCEPT ![i] = command] ELSE pendingQueue
      /\ UNCHANGED <<panicked, pendingQueueOffset, clientPendingOffsets, submittedSeqs,
                     returned, ahead>>
  BY <1>3 DEF PushReplace, Replace
<1>5. CASE ~(command.seq > pendingQueue[i].seq)
  <2>1. UNCHANGED vars
    BY <1>4, <1>5 DEF vars
  <2> QED BY <2>1 DEF vars, TypeOK, OffsetsLocatePending, HasPending, IndexInRange,
                      ClientPendingIndex, PendingFresh, ReturnedSubmitted, ReturnedOnce, NoPanic
<1>6. CASE command.seq > pendingQueue[i].seq
  <2>1. pendingQueue' = [pendingQueue EXCEPT ![i] = command]
    BY <1>4, <1>6
  <2>2. pendingQueue \in Seq(Command)
    BY DEF TypeOK
  <2>3. pendingQueue' \in Seq(Command) /\ Len(pendingQueue') = Len(pendingQueue)
    BY <1>3, <2>1, <2>2
  <2>4. \A j \in 1..Len(pendingQueue) :
          pendingQueue'[j] = IF j = i THEN command ELSE pendingQueue[j]
    BY <1>3, <2>1, <2>2
  <2>5. \A j \in 1..Len(pendingQueue) : pendingQueue'[j].client = pendingQueue[j].client
    BY <1>3, <2>4
  <2>6. TypeOK'
    BY <1>4, <2>3 DEF TypeOK
  <2>7. OffsetsLocatePending'
    BY <1>4, <2>3, <2>5 DEF OffsetsLocatePending, HasPending, IndexInRange, ClientPendingIndex
  <2>8. PendingFresh'
    BY <1>2, <1>3, <1>4, <2>3, <2>4 DEF PendingFresh
  <2> QED BY <1>4, <2>6, <2>7, <2>8 DEF ReturnedSubmitted, ReturnedOnce, NoPanic
<1> QED BY <1>5, <1>6

(* A new entry points to the end of the queue, where the command is.           *)
LEMMA PushAppendInv ==
  ASSUME PoolInv, NEW command \in Command, PushAppend(command)
  PROVE  PoolInv'
<1> DEFINE c == command.client
           n == Len(pendingQueue)
<1> USE DEF PoolInv
<1>1. c \in Client /\ command.seq \in 1..MaxSeq
  BY DEF Command
<1>2. pendingQueue \in Seq(Command) /\ pendingQueueOffset \in Nat /\ n \in Nat
  BY DEF TypeOK
<1>3. /\ pendingQueue' = Append(pendingQueue, command)
      /\ clientPendingOffsets' = [clientPendingOffsets EXCEPT ![c] = pendingQueueOffset + n]
      /\ ahead' = [ahead EXCEPT ![c] = {d \in Client : HasPending(d)}]
      /\ UNCHANGED <<pendingQueueOffset, submittedSeqs, returned, panicked>>
      /\ ~HasPending(c)
      /\ submittedSeqs[c] < command.seq
  BY DEF PushAppend
<1>4. /\ pendingQueue' \in Seq(Command)
      /\ Len(pendingQueue') = n + 1
      /\ \A j \in 1..n : pendingQueue'[j] = pendingQueue[j]
      /\ pendingQueue'[n + 1] = command
  BY <1>2, <1>3
<1>5. \A j \in 1..n : pendingQueue[j].client # c
  BY <1>3, QueuedHasPending
<1>6. \A d \in Client : clientPendingOffsets'[d] =
                          IF d = c THEN pendingQueueOffset + n ELSE clientPendingOffsets[d]
  BY <1>1, <1>3 DEF TypeOK
<1>7. TypeOK'
  <2>1. clientPendingOffsets' \in [Client -> Nat \cup {NoOffset}]
    BY <1>1, <1>2, <1>3 DEF TypeOK
  <2>2. ahead' \in [Client -> SUBSET Client]
    BY <1>1, <1>3 DEF TypeOK
  <2> QED BY <1>3, <1>4, <2>1, <2>2 DEF TypeOK
<1>8. OffsetsLocatePending'
  <2>1. ASSUME NEW d \in Client, HasPending(d)'
        PROVE  IndexInRange(d)' /\ (pendingQueue[ClientPendingIndex(d)].client = d)'
    <3>1. CASE d = c
      <4>1. ClientPendingIndex(d)' = n + 1
        BY <1>2, <1>3, <1>6, <3>1 DEF ClientPendingIndex
      <4> QED BY <1>2, <1>4, <3>1, <4>1 DEF IndexInRange
    <3>2. CASE d # c
      <4>1. HasPending(d) /\ ClientPendingIndex(d)' = ClientPendingIndex(d)
        BY <1>3, <1>6, <2>1, <3>2 DEF HasPending, ClientPendingIndex
      <4>2. ClientPendingIndex(d) \in 1..n /\ pendingQueue[ClientPendingIndex(d)].client = d
        BY <4>1, PendingLocated
      <4> QED BY <1>2, <1>4, <4>1, <4>2 DEF IndexInRange
    <3> QED BY <3>1, <3>2
  <2>2. ASSUME NEW j \in 1..Len(pendingQueue')
        PROVE  clientPendingOffsets'[pendingQueue'[j].client] = pendingQueueOffset' + j - 1
    <3>1. CASE j = n + 1
      BY <1>1, <1>2, <1>3, <1>4, <1>6, <3>1
    <3>2. CASE j \in 1..n
      <4>1. pendingQueue[j].client \in Client
        BY <3>2, QueuedCommand
      <4>2. clientPendingOffsets[pendingQueue[j].client] = pendingQueueOffset + j - 1
        BY <3>2 DEF OffsetsLocatePending
      <4> QED BY <1>3, <1>4, <1>5, <1>6, <3>2, <4>1, <4>2
    <3> QED BY <1>2, <1>4, <3>1, <3>2
  <2> QED BY <2>1, <2>2 DEF OffsetsLocatePending
<1>9. PendingFresh'
  BY <1>2, <1>3, <1>4 DEF PendingFresh
<1> QED BY <1>3, <1>7, <1>8, <1>9 DEF ReturnedSubmitted, ReturnedOnce, NoPanic

-----------------------------------------------------------------------------
(* The batch is the front of the queue.                                        *)
LEMMA BatchSizeBounds ==
  ASSUME TypeOK
  PROVE  /\ BatchSize \in Nat
         /\ BatchSize <= Len(pendingQueue)
         /\ CanClose => BatchSize > 0
<1>1. Len(pendingQueue) \in Nat /\ (CanClose => Len(pendingQueue) > 0)
  BY DEF TypeOK, CanClose
<1>2. MaxBatchSize \in Nat /\ MaxBatchSize > 0
  BY MaxBatchSizeAssumption
<1> QED BY <1>1, <1>2 DEF BatchSize

(* With one command per client, the last command of a client is its only one.  *)
LEMMA LastInBatchIs ==
  ASSUME TypeOK, OffsetsLocatePending, NEW i \in 1..BatchSize
  PROVE  LastInBatch(pendingQueue[i].client) = i
<1>1. 1..BatchSize \subseteq 1..Len(pendingQueue)
  BY BatchSizeBounds DEF TypeOK
<1>2. \A j \in 1..BatchSize : pendingQueue[j].client = pendingQueue[i].client => j = i
  BY <1>1, OneCommandPerClient
<1>3. i <= i
  BY BatchSizeBounds
<1> QED BY <1>2, <1>3 DEF LastInBatch

(* The clients of the batch lose their entry and have their command submitted; *)
(* the rest of the queue moves to the front along with the offset.             *)
LEMMA CloseBatchInv ==
  ASSUME PoolInv, CloseBatch
  PROVE  PoolInv'
<1> DEFINE n == Len(pendingQueue)
           b == BatchSize
           r == Len(returned)
<1> USE DEF PoolInv
<1>1. /\ pendingQueue \in Seq(Command) /\ n \in Nat /\ pendingQueueOffset \in Nat
      /\ returned \in Seq(Command) /\ r \in Nat
  BY DEF TypeOK
<1>2. b \in Nat /\ b <= n /\ b > 0
  BY BatchSizeBounds DEF CloseBatch
<1>3. /\ pendingQueue' = SubSeq(pendingQueue, b + 1, n)
      /\ pendingQueueOffset' = pendingQueueOffset + b
      /\ clientPendingOffsets' =
           [c \in Client |-> IF c \in BatchClients THEN NoOffset ELSE clientPendingOffsets[c]]
      /\ submittedSeqs' =
           [c \in Client |-> IF c \in BatchClients THEN pendingQueue[LastInBatch(c)].seq
                                                   ELSE submittedSeqs[c]]
      /\ returned' = returned \o SubSeq(pendingQueue, 1, b)
      /\ ahead' = AheadWithout(BatchClients)
      /\ panicked' = (panicked \/ BatchAssertionFails)
  BY DEF CloseBatch
<1>4. /\ pendingQueue' \in Seq(Command)
      /\ Len(pendingQueue') = n - b
      /\ \A j \in 1..(n - b) : pendingQueue'[j] = pendingQueue[b + j]
  BY <1>1, <1>2, <1>3
<1>5. /\ SubSeq(pendingQueue, 1, b) \in Seq(Command)
      /\ Len(SubSeq(pendingQueue, 1, b)) = b
      /\ \A j \in 1..b : SubSeq(pendingQueue, 1, b)[j] = pendingQueue[j]
  BY <1>1, <1>2
<1>6. /\ returned' \in Seq(Command)
      /\ Len(returned') = r + b
      /\ \A j \in 1..r : returned'[j] = returned[j]
      /\ \A j \in r + 1 .. r + b : returned'[j] = pendingQueue[j - r]
  BY <1>1, <1>2, <1>3, <1>5
<1>7. \A c \in BatchClients : \E i \in 1..b : c = pendingQueue[i].client /\ LastInBatch(c) = i
  BY LastInBatchIs DEF BatchClients
<1>8. \A i \in 1..b : pendingQueue[i].client \in BatchClients
  BY DEF BatchClients
<1>9. \A i \in 1..n : /\ pendingQueue[i].client \in Client /\ pendingQueue[i].seq \in 1..MaxSeq
                      /\ submittedSeqs[pendingQueue[i].client] < pendingQueue[i].seq
  BY QueuedCommand DEF PendingFresh
<1>10. \A i \in b + 1 .. n : pendingQueue[i].client \notin BatchClients
  <2>1. SUFFICES ASSUME NEW i \in b + 1 .. n, NEW j \in 1..b,
                        pendingQueue[i].client = pendingQueue[j].client
                 PROVE  FALSE
    BY DEF BatchClients
  <2>2. i \in 1..n /\ j \in 1..n /\ i # j
    BY <1>1, <1>2
  <2> QED BY <2>1, <2>2, OneCommandPerClient
<1>11. \A i \in 1..b : submittedSeqs'[pendingQueue[i].client] = pendingQueue[i].seq
  BY <1>1, <1>2, <1>3, <1>8, <1>9, LastInBatchIs
<1>12. \A c \in Client : /\ submittedSeqs[c] \in 0..MaxSeq
                          /\ submittedSeqs'[c] \in 0..MaxSeq
                          /\ submittedSeqs[c] <= submittedSeqs'[c]
  <2> TAKE c \in Client
  <2>1. submittedSeqs[c] \in 0..MaxSeq
    BY DEF TypeOK
  <2>2. CASE c \in BatchClients
    <3>1. PICK i \in 1..b : c = pendingQueue[i].client
      BY <1>7, <2>2
    <3>2. submittedSeqs'[c] = pendingQueue[i].seq /\ i \in 1..n
      BY <1>1, <1>2, <1>11, <3>1
    <3> QED BY <1>9, <2>1, <3>1, <3>2, MaxSeqAssumption
  <2>3. CASE c \notin BatchClients
    BY <1>3, <2>1, <2>3, MaxSeqAssumption
  <2> QED BY <2>2, <2>3
<1>13. TypeOK'
  <2>1. clientPendingOffsets' \in [Client -> Nat \cup {NoOffset}]
    BY <1>3 DEF TypeOK
  <2>2. submittedSeqs' \in [Client -> 0..MaxSeq]
    BY <1>3, <1>12
  <2>3. ahead' \in [Client -> SUBSET Client]
    BY <1>3 DEF TypeOK, AheadWithout
  <2>4. panicked' \in BOOLEAN
    BY <1>3 DEF BatchAssertionFails
  <2>5. pendingQueueOffset' \in Nat
    BY <1>1, <1>2, <1>3
  <2> QED BY <1>4, <1>6, <2>1, <2>2, <2>3, <2>4, <2>5 DEF TypeOK
<1>14. OffsetsLocatePending'
  <2>1. ASSUME NEW d \in Client, HasPending(d)'
        PROVE  IndexInRange(d)' /\ (pendingQueue[ClientPendingIndex(d)].client = d)'
    <3>1. d \notin BatchClients /\ HasPending(d) /\ clientPendingOffsets'[d] = clientPendingOffsets[d]
      BY <1>3, <2>1 DEF HasPending
    <3> DEFINE i == ClientPendingIndex(d)
    <3>2. i \in 1..n /\ pendingQueue[i].client = d
      BY <3>1, PendingLocated
    <3>3. i \notin 1..b
      BY <1>8, <3>1, <3>2
    <3>4. clientPendingOffsets[d] \in Nat
      BY <3>1 DEF HasPending, TypeOK
    <3>5. ClientPendingIndex(d)' = i - b
      BY <1>1, <1>2, <1>3, <3>1, <3>4 DEF ClientPendingIndex
    <3>6. i - b \in 1..(n - b) /\ b + (i - b) = i
      BY <1>1, <1>2, <3>2, <3>3
    <3> QED BY <1>4, <3>2, <3>5, <3>6 DEF IndexInRange
  <2>2. ASSUME NEW j \in 1..Len(pendingQueue')
        PROVE  clientPendingOffsets'[pendingQueue'[j].client] = pendingQueueOffset' + j - 1
    <3>1. j \in 1..(n - b) /\ b + j \in b + 1 .. n /\ b + j \in 1..n
      BY <1>1, <1>2, <1>4, <2>2
    <3>2. clientPendingOffsets'[pendingQueue[b + j].client] = clientPendingOffsets[pendingQueue[b + j].client]
      BY <1>3, <1>9, <1>10, <3>1
    <3>3. clientPendingOffsets[pendingQueue[b + j].client] = pendingQueueOffset + (b + j) - 1
      BY <3>1 DEF OffsetsLocatePending
    <3>4. pendingQueueOffset + (b + j) - 1 = (pendingQueueOffset + b) + j - 1
      BY <1>1, <1>2, <3>1
    <3>5. pendingQueue'[j] = pendingQueue[b + j] /\ pendingQueueOffset' = pendingQueueOffset + b
      BY <1>3, <1>4, <3>1
    <3> QED BY <3>2, <3>3, <3>4, <3>5
  <2> QED BY <2>1, <2>2 DEF OffsetsLocatePending
<1>15. PendingFresh'
  <2>1. ASSUME NEW j \in 1..Len(pendingQueue')
        PROVE  submittedSeqs'[pendingQueue'[j].client] < pendingQueue'[j].seq
    <3>1. j \in 1..(n - b) /\ b + j \in b + 1 .. n /\ b + j \in 1..n
      BY <1>1, <1>2, <1>4, <2>1
    <3> QED BY <1>3, <1>4, <1>9, <1>10, <3>1
  <2> QED BY <2>1 DEF PendingFresh
<1>16. ReturnedSubmitted'
  <2>1. ASSUME NEW j \in 1..Len(returned')
        PROVE  returned'[j].seq <= submittedSeqs'[returned'[j].client]
    <3>1. CASE j \in 1..r
      <4>1. returned[j] \in Command /\ returned[j].seq <= submittedSeqs[returned[j].client]
        BY <1>1, <3>1 DEF ReturnedSubmitted
      <4>2. returned[j].client \in Client /\ returned[j].seq \in 1..MaxSeq
        BY <4>1 DEF Command
      <4> QED BY <1>6, <1>12, <3>1, <4>1, <4>2, MaxSeqAssumption
    <3>2. CASE j \in r + 1 .. r + b
      <4>1. j - r \in 1..b /\ j - r \in 1..n
        BY <1>1, <1>2, <3>2
      <4> QED BY <1>6, <1>9, <1>11, <3>2, <4>1, MaxSeqAssumption
    <3> QED BY <1>1, <1>2, <1>6, <2>1, <3>1, <3>2
  <2> QED BY <2>1 DEF ReturnedSubmitted
<1>17. ReturnedOnce'
  <2>1. ASSUME NEW i \in 1..Len(returned'), NEW j \in 1..Len(returned'),
               i < j, returned'[i].client = returned'[j].client
        PROVE  returned'[i].seq < returned'[j].seq
    <3>1. CASE j \in 1..r
      <4>1. i \in 1..r
        BY <1>1, <1>2, <1>6, <2>1, <3>1
      <4> QED BY <1>6, <2>1, <3>1, <4>1 DEF ReturnedOnce
    <3>2. CASE i \in 1..r /\ j \in r + 1 .. r + b
      <4>1. j - r \in 1..n
        BY <1>1, <1>2, <3>2
      <4>2. returned[i] \in Command /\ returned[i].seq <= submittedSeqs[returned[i].client]
        BY <1>1, <3>2 DEF ReturnedSubmitted
      <4>3. returned[i].client \in Client /\ returned[i].seq \in 1..MaxSeq
        BY <4>2 DEF Command
      <4>4. returned[i].client = pendingQueue[j - r].client
        BY <1>6, <2>1, <3>2
      <4>5. submittedSeqs[returned[i].client] < pendingQueue[j - r].seq
        BY <1>9, <4>1, <4>4
      <4>6. returned'[i] = returned[i] /\ returned'[j] = pendingQueue[j - r]
        BY <1>6, <3>2
      <4>7. pendingQueue[j - r].seq \in Nat /\ submittedSeqs[returned[i].client] \in Nat
        BY <1>9, <1>12, <4>1, <4>3, MaxSeqAssumption
      <4>8. returned[i].seq \in Nat
        BY <4>3, MaxSeqAssumption
      <4> QED BY <4>2, <4>5, <4>6, <4>7, <4>8
    <3>3. CASE i \in r + 1 .. r + b /\ j \in r + 1 .. r + b
      <4>1. i - r \in 1..n /\ j - r \in 1..n /\ i - r # j - r
        BY <1>1, <1>2, <2>1, <3>3
      <4>2. pendingQueue[i - r].client = pendingQueue[j - r].client
        BY <1>6, <2>1, <3>3
      <4> QED BY <4>1, <4>2, OneCommandPerClient
    <3> QED BY <1>1, <1>2, <1>6, <2>1, <3>1, <3>2, <3>3
  <2> QED BY <2>1 DEF ReturnedOnce
<1>18. NoPanic'
  <2>1. ~BatchAssertionFails
    <3>1. SUFFICES ASSUME NEW i \in 1..b
                   PROVE  /\ ~(submittedSeqs[pendingQueue[i].client] >= pendingQueue[i].seq)
                          /\ \A j \in 1..(i - 1) : pendingQueue[j].client # pendingQueue[i].client
      BY DEF BatchAssertionFails
    <3>2. i \in 1..n
      BY <1>1, <1>2
    <3>3. ~(submittedSeqs[pendingQueue[i].client] >= pendingQueue[i].seq)
      BY <1>9, <1>12, <3>2, MaxSeqAssumption
    <3>4. \A j \in 1..(i - 1) : pendingQueue[j].client # pendingQueue[i].client
      <4>1. \A j \in 1..(i - 1) : j \in 1..n /\ j # i
        BY <1>1, <3>2
      <4> QED BY <3>2, <4>1, OneCommandPerClient
    <3> QED BY <3>3, <3>4
  <2> QED BY <1>3, <2>1 DEF NoPanic
<1> QED BY <1>13, <1>14, <1>15, <1>16, <1>17, <1>18

-----------------------------------------------------------------------------
(* commit raises the submitted seq of one client.                              *)
LEMMA RaisedSubmitted ==
  ASSUME TypeOK, NEW command \in Command, RaiseSubmitted(command)
  PROVE  /\ submittedSeqs' \in [Client -> 0..MaxSeq]
         /\ \A c \in Client : /\ submittedSeqs[c] <= submittedSeqs'[c]
                              /\ c # command.client => submittedSeqs'[c] = submittedSeqs[c]
         /\ submittedSeqs'[command.client] = submittedSeqs[command.client]
              \/ submittedSeqs'[command.client] = command.seq
<1>1. command.client \in Client /\ command.seq \in 1..MaxSeq
  BY DEF Command
<1>2. \A c \in Client : submittedSeqs[c] \in 0..MaxSeq
  BY DEF TypeOK
<1>3. submittedSeqs' = [submittedSeqs EXCEPT ![command.client] =
                         IF submittedSeqs[command.client] < command.seq
                         THEN command.seq ELSE submittedSeqs[command.client]]
  BY DEF RaiseSubmitted
<1>4. \A c \in Client : submittedSeqs'[c] =
         IF c = command.client /\ submittedSeqs[c] < command.seq
         THEN command.seq ELSE submittedSeqs[c]
  BY <1>1, <1>3 DEF TypeOK
<1>5. submittedSeqs' \in [Client -> 0..MaxSeq]
  BY <1>1, <1>2, <1>3, MaxSeqAssumption DEF TypeOK
<1> QED BY <1>1, <1>2, <1>4, <1>5, MaxSeqAssumption

(* The commands that were returned stay covered when submitted seqs only rise. *)
LEMMA ReturnedStaySubmitted ==
  ASSUME TypeOK, ReturnedSubmitted, NEW command \in Command, RaiseSubmitted(command),
         UNCHANGED returned
  PROVE  ReturnedSubmitted'
<1>1. SUFFICES ASSUME NEW j \in 1..Len(returned)
               PROVE  returned[j].seq <= submittedSeqs'[returned[j].client]
  BY DEF ReturnedSubmitted
<1>2. returned[j] \in Command
  BY DEF TypeOK
<1>3. returned[j].client \in Client /\ returned[j].seq \in 1..MaxSeq
  BY <1>2 DEF Command
<1>4. returned[j].seq <= submittedSeqs[returned[j].client]
  BY DEF ReturnedSubmitted
<1>5. /\ submittedSeqs[returned[j].client] \in 0..MaxSeq
      /\ submittedSeqs'[returned[j].client] \in 0..MaxSeq
      /\ submittedSeqs[returned[j].client] <= submittedSeqs'[returned[j].client]
  BY <1>3, RaisedSubmitted DEF TypeOK
<1> QED BY <1>3, <1>4, <1>5, MaxSeqAssumption

(* A commit that leaves the queue alone: what is pending for the client, if     *)
(* anything, is newer than the commit.                                          *)
LEMMA CommitKeepInv ==
  ASSUME PoolInv, NEW command \in Command, RaiseSubmitted(command), CommitKeep(command),
         UNCHANGED <<pendingQueueOffset, returned>>
  PROVE  PoolInv'
<1> DEFINE c == command.client
           i == ClientPendingIndex(c)
<1> USE DEF PoolInv
<1>1. c \in Client /\ command.seq \in 1..MaxSeq
  BY DEF Command
<1>2. HasPending(c) => /\ IndexInRange(c) /\ i \in 1..Len(pendingQueue)
                       /\ pendingQueue[i].client = c
  BY <1>1, PendingLocated
<1>3. /\ HasPending(c) => ~IsStale(pendingQueue[i].seq, command.seq)
      /\ panicked' = panicked
      /\ UNCHANGED <<pendingQueue, clientPendingOffsets, ahead>>
  BY <1>2 DEF CommitKeep, NoPanic, TypeOK
<1>4. TypeOK'
  BY <1>3, RaisedSubmitted DEF TypeOK
<1>5. OffsetsLocatePending'
  BY <1>3 DEF OffsetsLocatePending, HasPending, IndexInRange, ClientPendingIndex
<1>6. PendingFresh'
  <2>1. SUFFICES ASSUME NEW j \in 1..Len(pendingQueue)
                 PROVE  submittedSeqs'[pendingQueue[j].client] < pendingQueue[j].seq
    BY <1>3 DEF PendingFresh
  <2>2. /\ pendingQueue[j].client \in Client /\ pendingQueue[j].seq \in 1..MaxSeq
        /\ submittedSeqs[pendingQueue[j].client] < pendingQueue[j].seq
    BY QueuedCommand DEF PendingFresh
  <2>3. CASE pendingQueue[j].client # c
    BY <2>2, <2>3, RaisedSubmitted
  <2>4. CASE pendingQueue[j].client = c
    <3>1. HasPending(c) /\ i = j
      BY <2>4, QueuedHasPending
    <3>2. ~(pendingQueue[j].seq <= command.seq)
      BY <1>3, <3>1 DEF IsStale
    <3> QED BY <1>1, <2>2, <2>4, <3>2, RaisedSubmitted, MaxSeqAssumption
  <2> QED BY <2>3, <2>4
<1> QED BY <1>3, <1>4, <1>5, <1>6, ReturnedStaySubmitted DEF ReturnedOnce, NoPanic

(* swap_remove: the command at index i goes, the last one takes its place and   *)
(* its client's offset is corrected.                                            *)
LEMMA CommitRemoveInv ==
  ASSUME PoolInv, NEW command \in Command, RaiseSubmitted(command), CommitRemove(command),
         UNCHANGED <<pendingQueueOffset, returned>>
  PROVE  PoolInv'
<1> DEFINE c == command.client
           i == ClientPendingIndex(c)
           n == Len(pendingQueue)
           last == pendingQueue[n].client
<1> USE DEF PoolInv
<1>1. /\ c \in Client /\ command.seq \in 1..MaxSeq
      /\ pendingQueue \in Seq(Command) /\ n \in Nat /\ pendingQueueOffset \in Nat
  BY DEF Command, TypeOK
<1>2. HasPending(c)
  BY DEF CommitRemove
<1>3. i \in 1..n /\ pendingQueue[i].client = c /\ n >= 1 /\ n \in 1..n
  BY <1>1, <1>2, PendingLocated
<1>4. /\ pendingQueue' = [j \in 1..(n - 1) |-> IF j = i THEN pendingQueue[n] ELSE pendingQueue[j]]
      /\ clientPendingOffsets' =
           [d \in Client |-> IF i < n /\ d = last THEN pendingQueueOffset + i - 1
                             ELSE IF d = c THEN NoOffset ELSE clientPendingOffsets[d]]
      /\ ahead' = AheadWithout({c})
      /\ UNCHANGED panicked
  BY DEF CommitRemove, SwapRemove, OffsetsAfterRemoval
<1>5. n - 1 \in Nat /\ Len(pendingQueue') = n - 1 /\ pendingQueue' \in Seq(Command)
  <2>1. n - 1 \in Nat
    BY <1>1, <1>3
  <2>2. \A j \in 1..(n - 1) : pendingQueue'[j] \in Command
    BY <1>1, <1>3, <1>4, QueuedCommand
  <2>3. pendingQueue' = [j \in 1..(n - 1) |-> pendingQueue'[j]]
    BY <1>4
  <2>4. pendingQueue' \in [1..(n - 1) -> Command]
    BY <2>2, <2>3
  <2> QED BY <2>1, <2>4
<1>6. \A j \in 1..(n - 1) : pendingQueue'[j] = IF j = i THEN pendingQueue[n] ELSE pendingQueue[j]
  BY <1>4
<1>7. \A d \in Client : clientPendingOffsets'[d] =
          IF i < n /\ d = last THEN pendingQueueOffset + i - 1
          ELSE IF d = c THEN NoOffset ELSE clientPendingOffsets[d]
  BY <1>4
<1>8. \A j \in 1..n : /\ pendingQueue[j].client \in Client
                      /\ pendingQueue[j].client = c => j = i
                      /\ pendingQueue[j].client = last => j = n
  BY <1>3, QueuedCommand, OneCommandPerClient
<1>9. \A j \in 1..n : clientPendingOffsets[pendingQueue[j].client] = pendingQueueOffset + j - 1
  BY DEF OffsetsLocatePending
<1>10. TypeOK'
  <2>1. clientPendingOffsets' \in [Client -> Nat \cup {NoOffset}]
    <3>1. pendingQueueOffset + i - 1 \in Nat
      BY <1>1, <1>3
    <3> QED BY <1>4, <3>1 DEF TypeOK
  <2>2. ahead' \in [Client -> SUBSET Client]
    BY <1>4 DEF TypeOK, AheadWithout
  <2> QED BY <1>4, <1>5, <2>1, <2>2, RaisedSubmitted DEF TypeOK
<1>11. OffsetsLocatePending'
  <2>1. ASSUME NEW j \in 1..Len(pendingQueue')
        PROVE  clientPendingOffsets'[pendingQueue'[j].client] = pendingQueueOffset + j - 1
    <3>1. j \in 1..(n - 1) /\ j \in 1..n /\ j < n
      BY <1>1, <1>5
    <3>2. CASE j = i
      BY <1>3, <1>6, <1>7, <1>8, <3>1, <3>2
    <3>3. CASE j # i
      <4>1. pendingQueue'[j] = pendingQueue[j]
        BY <1>6, <3>1, <3>3
      <4>2. /\ pendingQueue[j].client \in Client
            /\ pendingQueue[j].client # c /\ pendingQueue[j].client # last
        BY <1>1, <1>8, <3>1, <3>3
      <4>3. clientPendingOffsets'[pendingQueue[j].client] = clientPendingOffsets[pendingQueue[j].client]
        BY <1>7, <4>2
      <4> QED BY <1>9, <3>1, <4>1, <4>3
    <3> QED BY <3>2, <3>3
  <2>2. ASSUME NEW d \in Client, HasPending(d)'
        PROVE  \E j \in 1..(n - 1) : pendingQueue'[j].client = d
    <3>1. CASE i < n /\ d = last
      BY <1>1, <1>3, <1>6, <3>1
    <3>2. CASE ~(i < n /\ d = last)
      <4>1. d # c /\ HasPending(d)
        BY <1>7, <2>2, <3>2 DEF HasPending
      <4> DEFINE k == ClientPendingIndex(d)
      <4>2. k \in 1..n /\ pendingQueue[k].client = d
        BY <4>1, PendingLocated
      <4>3. k # i /\ (k = n => ~(i < n))
        BY <1>3, <3>2, <4>1, <4>2
      <4>4. k \in 1..(n - 1)
        BY <1>1, <1>3, <4>2, <4>3
      <4> QED BY <1>6, <4>2, <4>3, <4>4
    <3> QED BY <3>1, <3>2
  <2>3. ASSUME NEW d \in Client, HasPending(d)'
        PROVE  IndexInRange(d)' /\ (pendingQueue[ClientPendingIndex(d)].client = d)'
    <3>1. PICK j \in 1..(n - 1) : pendingQueue'[j].client = d
      BY <2>2, <2>3
    <3>2. clientPendingOffsets'[d] = pendingQueueOffset + j - 1
      BY <1>5, <2>1, <3>1
    <3>3. ClientPendingIndex(d)' = j
      BY <1>1, <1>5, <3>1, <3>2 DEF ClientPendingIndex
    <3> QED BY <1>5, <3>1, <3>3 DEF IndexInRange
  <2> QED BY <2>1, <2>3 DEF OffsetsLocatePending
<1>12. PendingFresh'
  <2>1. ASSUME NEW k \in 1..n, pendingQueue[k].client # c
        PROVE  submittedSeqs'[pendingQueue[k].client] < pendingQueue[k].seq
    BY <1>8, <2>1, RaisedSubmitted DEF PendingFresh
  <2>2. ASSUME NEW j \in 1..Len(pendingQueue')
        PROVE  submittedSeqs'[pendingQueue'[j].client] < pendingQueue'[j].seq
    <3>1. j \in 1..(n - 1) /\ j \in 1..n /\ j < n
      BY <1>1, <1>5
    <3>2. CASE j = i
      <4>1. pendingQueue[n].client # c
        BY <1>3, <1>8, <3>1, <3>2
      <4> QED BY <1>3, <1>6, <2>1, <3>1, <3>2, <4>1
    <3>3. CASE j # i
      <4>1. pendingQueue[j].client # c
        BY <1>8, <3>1, <3>3
      <4> QED BY <1>6, <2>1, <3>1, <3>3, <4>1
    <3> QED BY <3>2, <3>3
  <2> QED BY <2>2 DEF PendingFresh
<1> QED BY <1>4, <1>10, <1>11, <1>12, ReturnedStaySubmitted DEF ReturnedOnce, NoPanic

-----------------------------------------------------------------------------
(* Every step keeps the invariant.                                             *)
LEMMA NextInv == PoolInv /\ [Next]_vars => PoolInv'
<1> SUFFICES ASSUME PoolInv, [Next]_vars PROVE PoolInv'
  OBVIOUS
<1>1. CASE UNCHANGED vars
  BY <1>1 DEF vars, PoolInv, TypeOK, OffsetsLocatePending, HasPending, IndexInRange,
              ClientPendingIndex, PendingFresh, ReturnedSubmitted, ReturnedOnce, NoPanic
<1>2. ASSUME NEW command \in Command, Push(command)
      PROVE  PoolInv'
  BY <1>1, <1>2, PushReplaceInv, PushAppendInv DEF Push, PushStale
<1>3. CASE CloseBatch
  BY <1>3, CloseBatchInv
<1>4. ASSUME NEW command \in Command, Commit(command)
      PROVE  PoolInv'
  BY <1>4, CommitRemoveInv, CommitKeepInv DEF Commit
<1> QED BY <1>1, <1>2, <1>3, <1>4 DEF Next

(* The invariant holds in every reachable state.                               *)
THEOREM PoolInvariant == Spec => []PoolInv
BY InitInv, NextInv, PTL DEF Spec

(* The variables of the pool keep their types.                                 *)
THEOREM PoolTypeCorrect == Spec => []TypeOK
<1>1. PoolInv => TypeOK
  BY DEF PoolInv
<1> QED BY <1>1, PoolInvariant, PTL

(* The offset map and the queue of close_loop::CommandPool always describe the  *)
(* same pending commands.                                                       *)
THEOREM PoolOffsetsExact == Spec => []OffsetsLocatePending
<1>1. PoolInv => OffsetsLocatePending
  BY DEF PoolInv
<1> QED BY <1>1, PoolInvariant, PTL

(* No assertion and no index of the pool ever fails.                            *)
THEOREM PoolNeverPanics == Spec => []NoPanic
<1>1. PoolInv => NoPanic
  BY DEF PoolInv
<1> QED BY <1>1, PoolInvariant, PTL

(* close_batch returns no command twice, and those of a client in order.        *)
THEOREM PoolReturnsOnce == Spec => []ReturnedOnce
<1>1. PoolInv => ReturnedOnce
  BY DEF PoolInv
<1> QED BY <1>1, PoolInvariant, PTL

(* The commit of a command that the pool has returned never touches the queue:   *)
(* a pool whose replica is the only proposer keeps the order of arrival.         *)
THEOREM PoolOwnCommits == Spec => OwnCommitsKeepQueue
<1>1. ASSUME PoolInv, NEW i \in 1..Len(returned), Commit(returned[i])
      PROVE  pendingQueue' = pendingQueue
  <2> DEFINE command == returned[i]
             c == command.client
             k == ClientPendingIndex(c)
  <2>1. TypeOK /\ OffsetsLocatePending /\ PendingFresh /\ ReturnedSubmitted
    BY <1>1 DEF PoolInv
  <2>2. command \in Command
    <3>1. returned \in Seq(Command)
      BY <2>1 DEF TypeOK
    <3> QED BY <3>1
  <2>3. c \in Client /\ command.seq \in Nat /\ submittedSeqs[c] \in Nat
    BY <2>1, <2>2 DEF Command, TypeOK
  <2>4. command.seq <= submittedSeqs[c]
    BY <2>1 DEF ReturnedSubmitted
  <2>5. ~CommitRemove(command)
    <3> SUFFICES ASSUME CommitRemove(command) PROVE FALSE
      OBVIOUS
    <3>1. HasPending(c) /\ pendingQueue[k].seq <= command.seq
      BY DEF CommitRemove, IsStale
    <3>2. k \in 1..Len(pendingQueue) /\ pendingQueue[k].client = c
      BY <2>1, <2>3, <3>1, PendingLocated
    <3>3. submittedSeqs[c] < pendingQueue[k].seq
      BY <2>1, <3>2 DEF PendingFresh
    <3>4. pendingQueue[k].seq \in 1..MaxSeq
      BY <2>1, <3>2, QueuedCommand
    <3>5. pendingQueue[k].seq \in Nat
      BY <3>4
    <3> HIDE DEF command, c, k
    <3> QED BY <2>3, <2>4, <3>1, <3>3, <3>5
  <2> QED BY <1>1, <2>5 DEF Commit, CommitKeep
<1>2. PoolInv /\ [Next]_vars =>
       [pendingQueue' # pendingQueue => \A i \in 1..Len(returned) : ~Commit(returned[i])]_vars
  BY <1>1
<1> QED BY <1>2, PoolInvariant, PTL DEF Spec, OwnCommitsKeepQueue

-----------------------------------------------------------------------------
(* The pending seq of a client is that of its command in the queue, 0 if it has none. *)
SeqsLocated ==
  \A c \in Client :
    /\ PendingSeq(c) \in 0..MaxSeq
    /\ \A j \in 1..Len(pendingQueue) :
         pendingQueue[j].client = c => PendingSeq(c) = pendingQueue[j].seq /\ PendingSeq(c) # 0
    /\ (\A j \in 1..Len(pendingQueue) : pendingQueue[j].client # c) => PendingSeq(c) = 0

LEMMA SeqsAreLocated == PoolInv => SeqsLocated
<1> SUFFICES ASSUME PoolInv, NEW c \in Client
             PROVE  /\ PendingSeq(c) \in 0..MaxSeq
                    /\ \A j \in 1..Len(pendingQueue) : pendingQueue[j].client = c =>
                         PendingSeq(c) = pendingQueue[j].seq /\ PendingSeq(c) # 0
                    /\ (\A j \in 1..Len(pendingQueue) : pendingQueue[j].client # c)
                         => PendingSeq(c) = 0
  BY DEF SeqsLocated
<1>1. TypeOK /\ OffsetsLocatePending /\ MaxSeq \in Nat
  BY MaxSeqAssumption DEF PoolInv
<1>2. CASE HasPending(c)
  <2> DEFINE k == ClientPendingIndex(c)
  <2>1. k \in 1..Len(pendingQueue) /\ pendingQueue[k].client = c
    BY <1>1, <1>2, PendingLocated
  <2>2. PendingSeq(c) = pendingQueue[k].seq
    BY <1>2 DEF PendingSeq
  <2> HIDE DEF k
  <2>3. pendingQueue[k].seq \in 1..MaxSeq
    BY <1>1, <2>1, QueuedCommand
  <2>4. \A j \in 1..Len(pendingQueue) : pendingQueue[j].client = c => j = k
    BY <1>1, <2>1, OneCommandPerClient
  <2> QED BY <1>1, <2>1, <2>2, <2>3, <2>4
<1>3. CASE ~HasPending(c)
  <2>1. PendingSeq(c) = 0
    BY <1>3 DEF PendingSeq
  <2>2. \A j \in 1..Len(pendingQueue) : pendingQueue[j].client # c
    BY <1>1, <1>3, QueuedHasPending
  <2> QED BY <1>1, <2>1, <2>2
<1> QED BY <1>2, <1>3

(* The queue after each call, as the two theorems below need it.                  *)

Replaced(command) ==
  LET c == command.client IN
  \E i \in 1..Len(pendingQueue) :
    /\ pendingQueue[i].client = c /\ command.seq > pendingQueue[i].seq
    /\ Len(pendingQueue') = Len(pendingQueue)
    /\ \A j \in 1..Len(pendingQueue) :
         pendingQueue'[j] = IF j = i THEN command ELSE pendingQueue[j]

Appended(command) ==
  /\ \A j \in 1..Len(pendingQueue) : pendingQueue[j].client # command.client
  /\ Len(pendingQueue') = Len(pendingQueue) + 1
  /\ \A j \in 1..Len(pendingQueue) : pendingQueue'[j] = pendingQueue[j]
  /\ pendingQueue'[Len(pendingQueue) + 1] = command

LEMMA PushQueue ==
  ASSUME PoolInv, NEW command \in Command, Push(command)
  PROVE  \/ UNCHANGED vars
         \/ /\ command.seq > submittedSeqs[command.client] /\ UNCHANGED <<submittedSeqs, returned>>
            /\ Replaced(command) \/ Appended(command)
<1> DEFINE c == command.client
           i == ClientPendingIndex(c)
<1>1. /\ TypeOK /\ OffsetsLocatePending /\ pendingQueue \in Seq(Command) /\ c \in Client
      /\ command.seq \in Nat /\ submittedSeqs[c] \in Nat
  BY MaxSeqAssumption DEF PoolInv, TypeOK, Command
<1>2. CASE PushStale(command)
  BY <1>2 DEF PushStale
<1>3. CASE PushReplace(command)
  <2>1. i \in 1..Len(pendingQueue) /\ pendingQueue[i].client = c /\ IndexInRange(c)
    BY <1>1, <1>3, PendingLocated DEF PushReplace
  <2>2. /\ pendingQueue' = IF command.seq > pendingQueue[i].seq
                           THEN [pendingQueue EXCEPT ![i] = command] ELSE pendingQueue
        /\ UNCHANGED <<panicked, pendingQueueOffset, clientPendingOffsets, submittedSeqs,
                       returned, ahead>>
        /\ submittedSeqs[c] < command.seq
    BY <1>3, <2>1 DEF PushReplace, Replace
  <2> HIDE DEF i
  <2>3. CASE ~(command.seq > pendingQueue[i].seq)
    BY <2>2, <2>3 DEF vars
  <2>4. CASE command.seq > pendingQueue[i].seq
    <3>1. /\ Len(pendingQueue') = Len(pendingQueue)
          /\ \A j \in 1..Len(pendingQueue) :
               pendingQueue'[j] = IF j = i THEN command ELSE pendingQueue[j]
      BY <1>1, <2>1, <2>2, <2>4
    <3> QED BY <1>1, <2>1, <2>2, <2>4, <3>1 DEF Replaced
  <2> QED BY <2>3, <2>4
<1>4. CASE PushAppend(command)
  <2>1. /\ pendingQueue' = Append(pendingQueue, command) /\ ~HasPending(c)
        /\ UNCHANGED <<submittedSeqs, returned>> /\ submittedSeqs[c] < command.seq
    BY <1>4 DEF PushAppend
  <2>2. \A j \in 1..Len(pendingQueue) : pendingQueue[j].client # c
    BY <1>1, <2>1, QueuedHasPending
  <2> QED BY <1>1, <2>1, <2>2 DEF Appended
<1> QED BY <1>2, <1>3, <1>4 DEF Push

LEMMA BatchQueue ==
  ASSUME PoolInv, CloseBatch
  PROVE  /\ BatchSize \in 1..Len(pendingQueue)
         /\ Len(pendingQueue') = Len(pendingQueue) - BatchSize
         /\ \A j \in 1..(Len(pendingQueue) - BatchSize) :
              pendingQueue'[j] = pendingQueue[BatchSize + j]
<1>1. pendingQueue \in Seq(Command) /\ TypeOK
  BY DEF PoolInv, TypeOK
<1>2. BatchSize \in Nat /\ BatchSize <= Len(pendingQueue) /\ BatchSize > 0
  BY <1>1, BatchSizeBounds DEF CloseBatch
<1>3. pendingQueue' = SubSeq(pendingQueue, BatchSize + 1, Len(pendingQueue))
  BY DEF CloseBatch
<1> QED BY <1>1, <1>2, <1>3

(* The command at position i goes, the last one takes its place.                   *)
Removed(i) ==
  /\ Len(pendingQueue') = Len(pendingQueue) - 1
  /\ \A j \in 1..(Len(pendingQueue) - 1) :
       pendingQueue'[j] = IF j = i THEN pendingQueue[Len(pendingQueue)] ELSE pendingQueue[j]

LEMMA CommitQueue ==
  ASSUME PoolInv, NEW command \in Command, Commit(command)
  PROVE  \/ \E i \in 1..Len(pendingQueue) :
              /\ pendingQueue[i].client = command.client /\ pendingQueue[i].seq <= command.seq
              /\ Removed(i)
         \/ /\ pendingQueue' = pendingQueue
            /\ \A i \in 1..Len(pendingQueue) :
                 pendingQueue[i].client = command.client => ~(pendingQueue[i].seq <= command.seq)
<1> DEFINE c == command.client
           i == ClientPendingIndex(c)
<1>1. /\ TypeOK /\ OffsetsLocatePending /\ pendingQueue \in Seq(Command) /\ c \in Client
  BY DEF PoolInv, TypeOK, Command
<1>2. HasPending(c) => i \in 1..Len(pendingQueue) /\ pendingQueue[i].client = c /\ IndexInRange(c)
  BY <1>1, PendingLocated
<1>3. CASE CommitRemove(command)
  <2>1. /\ i \in 1..Len(pendingQueue) /\ pendingQueue[i].client = c
        /\ pendingQueue[i].seq <= command.seq
        /\ pendingQueue' = [j \in 1..(Len(pendingQueue) - 1) |->
                              IF j = i THEN pendingQueue[Len(pendingQueue)] ELSE pendingQueue[j]]
    BY <1>2, <1>3 DEF CommitRemove, SwapRemove, IsStale
  <2> HIDE DEF i
  <2>2. Removed(i)
    <3>1. Len(pendingQueue) - 1 \in Nat
      BY <1>1, <2>1
    <3> QED BY <2>1, <3>1 DEF Removed
  <2> QED BY <2>1, <2>2
<1>4. CASE CommitKeep(command)
  <2>1. pendingQueue' = pendingQueue
    BY <1>4 DEF CommitKeep
  <2>2. ASSUME NEW j \in 1..Len(pendingQueue), pendingQueue[j].client = c
        PROVE  ~(pendingQueue[j].seq <= command.seq)
    <3>1. HasPending(c) /\ i = j
      BY <1>1, <2>2, QueuedHasPending
    <3> QED BY <1>2, <1>4, <3>1 DEF CommitKeep, IsStale
  <2> QED BY <2>1, <2>2
<1> QED BY <1>3, <1>4 DEF Commit

(* No command is ever moved away from the front: swap_remove lets the last one      *)
(* overtake, but sets nobody back.                                                *)
THEOREM PoolNoSetback == Spec => NoSetback
<1>1. ASSUME PoolInv, Next, NEW i \in 1..Len(pendingQueue), NEW j \in 1..Len(pendingQueue'),
             pendingQueue'[j].client = pendingQueue[i].client
      PROVE  j <= i
  <2> DEFINE n == Len(pendingQueue)
  <2>1. n \in Nat /\ \A h, k \in 1..n : pendingQueue[h].client = pendingQueue[k].client => h = k
    <3>1. TypeOK /\ OffsetsLocatePending
      BY <1>1 DEF PoolInv
    <3> QED BY <3>1, OneCommandPerClient DEF TypeOK
  <2>2. CASE pendingQueue' = pendingQueue
    BY <1>1, <2>1, <2>2
  <2>3. ASSUME NEW command \in Command, Replaced(command)
        PROVE  j <= i
    BY <1>1, <2>1, <2>3 DEF Replaced
  <2>4. ASSUME NEW command \in Command, Appended(command)
        PROVE  j <= i
    <3>1. j \in 1..(n + 1) /\ j # n + 1
      BY <1>1, <2>4 DEF Appended
    <3>2. j \in 1..n /\ pendingQueue'[j] = pendingQueue[j]
      BY <2>1, <2>4, <3>1 DEF Appended
    <3> QED BY <1>1, <2>1, <3>2
  <2>5. CASE CloseBatch
    <3>1. BatchSize \in 1..n /\ j \in 1..(n - BatchSize) /\ pendingQueue'[j] = pendingQueue[BatchSize + j]
      BY <1>1, <2>5, BatchQueue
    <3>2. BatchSize + j \in 1..n
      BY <2>1, <3>1
    <3>3. BatchSize + j = i
      BY <1>1, <2>1, <3>1, <3>2
    <3> QED BY <2>1, <3>1, <3>3
  <2>6. ASSUME NEW k \in 1..n, Removed(k)
        PROVE  j <= i
    <3>1. j \in 1..(n - 1) /\ j \in 1..n /\ n \in 1..n
          /\ pendingQueue'[j] = IF j = k THEN pendingQueue[n] ELSE pendingQueue[j]
      BY <1>1, <2>1, <2>6 DEF Removed
    <3>2. j = i \/ n = i
      BY <1>1, <2>1, <3>1
    <3> QED BY <2>1, <3>1, <3>2
  <2>7. ASSUME NEW command \in Command, Push(command) PROVE j <= i
    <3>1. pendingQueue' = pendingQueue \/ Replaced(command) \/ Appended(command)
      BY <1>1, <2>7, PushQueue DEF vars
    <3> QED BY <2>2, <2>3, <2>4, <3>1
  <2>8. ASSUME NEW command \in Command, Commit(command) PROVE j <= i
    <3>1. pendingQueue' = pendingQueue \/ \E k \in 1..n : Removed(k)
      BY <1>1, <2>8, CommitQueue
    <3> QED BY <2>2, <2>6, <3>1
  <2> QED BY <1>1, <2>5, <2>7, <2>8 DEF Next
<1>2. PoolInv /\ [Next]_vars =>
       [\A i \in 1..Len(pendingQueue) : \A j \in 1..Len(pendingQueue') :
          pendingQueue'[j].client = pendingQueue[i].client => j <= i]_vars
  BY <1>1
<1> QED BY <1>2, PoolInvariant, PTL DEF Spec, NoSetback

-----------------------------------------------------------------------------
(* The pool implements the abstract pool, one call by one.                        *)

LEMMA PushRefines ==
  ASSUME PoolInv, SeqsLocated, SeqsLocated', NEW command \in Command, Push(command)
  PROVE  Abstract!Push(command) \/ UNCHANGED Abstract!vars
<1> DEFINE c == command.client
           seqs == [d \in Client |-> PendingSeq(d)]
           n == Len(pendingQueue)
<1>1. /\ c \in Client /\ command.seq \in Nat /\ command.seq # 0 /\ n \in Nat
      /\ \A d \in Client : PendingSeq(d) \in Nat
  BY MaxSeqAssumption DEF PoolInv, TypeOK, Command, SeqsLocated
<1>2. CASE UNCHANGED vars
  BY <1>2 DEF vars, Abstract!vars, PendingSeq, HasPending, ClientPendingIndex
<1>3. CASE /\ command.seq > submittedSeqs[c] /\ UNCHANGED <<submittedSeqs, returned>>
           /\ Replaced(command) \/ Appended(command)
  <2>1. /\ n <= Len(pendingQueue') /\ Len(pendingQueue') \in Nat
        /\ \A j \in 1..n : pendingQueue[j].client # c => pendingQueue'[j] = pendingQueue[j]
        /\ \A j \in 1..Len(pendingQueue') : pendingQueue'[j].client # c =>
             j \in 1..n /\ pendingQueue'[j] = pendingQueue[j]
        /\ \E j \in 1..Len(pendingQueue') : pendingQueue'[j] = command
        /\ \A j \in 1..n : pendingQueue[j].client = c => command.seq > pendingQueue[j].seq
    <3>1. CASE Replaced(command)
      <4>1. TypeOK /\ OffsetsLocatePending
        BY DEF PoolInv
      <4>2. \A h, k \in 1..n : pendingQueue[h].client = pendingQueue[k].client => h = k
        BY <4>1, OneCommandPerClient
      <4> QED BY <1>1, <3>1, <4>2 DEF Replaced
    <3>2. CASE Appended(command)
      BY <1>1, <3>2 DEF Appended
    <3> QED BY <1>3, <3>1, <3>2
  <2>2. seqs'[c] = command.seq
    BY <1>1, <2>1 DEF SeqsLocated
  <2>3. command.seq > seqs[c]
    <3>1. CASE \E j \in 1..n : pendingQueue[j].client = c
      <4>1. PICK j \in 1..n : pendingQueue[j].client = c
        BY <3>1
      <4>2. PendingSeq(c) = pendingQueue[j].seq
        BY <1>1, <4>1 DEF SeqsLocated
      <4> QED BY <1>1, <2>1, <4>1, <4>2
    <3>2. CASE \A j \in 1..n : pendingQueue[j].client # c
      <4>1. PendingSeq(c) = 0
        BY <1>1, <3>2 DEF SeqsLocated
      <4> QED BY <1>1, <4>1
    <3> QED BY <3>1, <3>2
  <2>4. ASSUME NEW d \in Client, d # c PROVE seqs'[d] = seqs[d]
    <3>1. CASE \E j \in 1..n : pendingQueue[j].client = d
      <4>1. PICK j \in 1..n : pendingQueue[j].client = d
        BY <3>1
      <4>2. j \in 1..Len(pendingQueue') /\ pendingQueue'[j] = pendingQueue[j]
        BY <1>1, <2>1, <2>4, <4>1
      <4> QED BY <4>1, <4>2 DEF SeqsLocated
    <3>2. CASE \A j \in 1..n : pendingQueue[j].client # d
      <4>1. \A j \in 1..Len(pendingQueue') : pendingQueue'[j].client # d
        BY <2>1, <2>4, <3>2
      <4> QED BY <3>2, <4>1 DEF SeqsLocated
    <3> QED BY <3>1, <3>2
  <2>5. seqs' = [seqs EXCEPT ![c] = command.seq]
    BY <1>1, <2>2, <2>4
  <2> HIDE DEF seqs
  <2> QED BY <1>3, <2>3, <2>5 DEF Abstract!Push, seqs
<1> QED BY <1>2, <1>3, PushQueue

LEMMA CommitRefines ==
  ASSUME PoolInv, SeqsLocated, SeqsLocated', NEW command \in Command, Commit(command)
  PROVE  Abstract!Commit(command)
<1> DEFINE c == command.client
           seqs == [d \in Client |-> PendingSeq(d)]
           n == Len(pendingQueue)
<1>1. /\ c \in Client /\ command.seq \in Nat /\ command.seq # 0 /\ n \in Nat
      /\ \A d \in Client : PendingSeq(d) \in Nat
      /\ TypeOK /\ OffsetsLocatePending
  BY MaxSeqAssumption DEF PoolInv, TypeOK, Command, SeqsLocated
<1>2. /\ submittedSeqs' = [submittedSeqs EXCEPT ![c] = IF @ < command.seq THEN command.seq ELSE @]
      /\ UNCHANGED returned
  BY DEF Commit, RaiseSubmitted
<1>3. \A d \in Client : seqs'[d] = IF d = c /\ seqs[d] <= command.seq THEN 0 ELSE seqs[d]
  <2>1. CASE /\ pendingQueue' = pendingQueue
             /\ \A i \in 1..n : pendingQueue[i].client = c => ~(pendingQueue[i].seq <= command.seq)
    <3> SUFFICES ASSUME NEW d \in Client
                 PROVE  PendingSeq(d)' = IF d = c /\ PendingSeq(d) <= command.seq THEN 0 ELSE PendingSeq(d)
      OBVIOUS
    <3>1. CASE \E j \in 1..n : pendingQueue[j].client = d
      <4>1. PICK j \in 1..n : pendingQueue[j].client = d
        BY <3>1
      <4>2. PendingSeq(d) = pendingQueue[j].seq /\ PendingSeq(d)' = pendingQueue[j].seq
        BY <2>1, <4>1 DEF SeqsLocated
      <4> QED BY <2>1, <4>1, <4>2
    <3>2. CASE \A j \in 1..n : pendingQueue[j].client # d
      <4>1. PendingSeq(d) = 0 /\ PendingSeq(d)' = 0
        BY <2>1, <3>2 DEF SeqsLocated
      <4> QED BY <4>1
    <3> QED BY <3>1, <3>2
  <2>2. ASSUME NEW i \in 1..n, pendingQueue[i].client = c, pendingQueue[i].seq <= command.seq, Removed(i)
        PROVE  \A d \in Client : seqs'[d] = IF d = c /\ seqs[d] <= command.seq THEN 0 ELSE seqs[d]
    <3>1. \A h, k \in 1..n : pendingQueue[h].client = pendingQueue[k].client => h = k
      BY <1>1, OneCommandPerClient
    <3>2. /\ \A j \in 1..n : j # i => \E k \in 1..(n - 1) : pendingQueue'[k] = pendingQueue[j]
          /\ \A k \in 1..(n - 1) : \E j \in 1..n : j # i /\ pendingQueue'[k] = pendingQueue[j]
          /\ Len(pendingQueue') = n - 1
      <4>1. ASSUME NEW j \in 1..n, j # i PROVE \E k \in 1..(n - 1) : pendingQueue'[k] = pendingQueue[j]
        <5>1. CASE j = n
          <6>1. i \in 1..(n - 1)
            BY <1>1, <4>1, <5>1
          <6> QED BY <2>2, <5>1, <6>1 DEF Removed
        <5>2. CASE j # n
          <6>1. j \in 1..(n - 1)
            BY <1>1, <5>2
          <6> QED BY <2>2, <4>1, <6>1 DEF Removed
        <5> QED BY <5>1, <5>2
      <4>2. ASSUME NEW k \in 1..(n - 1) PROVE \E j \in 1..n : j # i /\ pendingQueue'[k] = pendingQueue[j]
        <5>1. n \in 1..n /\ k \in 1..n /\ k # n
          BY <1>1
        <5>2. pendingQueue'[k] = IF k = i THEN pendingQueue[n] ELSE pendingQueue[k]
          BY <2>2 DEF Removed
        <5> QED BY <5>1, <5>2
      <4> QED BY <2>2, <4>1, <4>2 DEF Removed
    <3> TAKE d \in Client
    <3>3. CASE d = c
      <4>1. seqs[d] = pendingQueue[i].seq
        BY <2>2, <3>3 DEF SeqsLocated
      <4>2. \A k \in 1..Len(pendingQueue') : pendingQueue'[k].client # d
        <5> SUFFICES ASSUME NEW k \in 1..(n - 1), pendingQueue'[k].client = d PROVE FALSE
          BY <3>2
        <5>1. PICK j \in 1..n : j # i /\ pendingQueue'[k] = pendingQueue[j]
          BY <3>2
        <5> QED BY <2>2, <3>1, <3>3, <5>1
      <4>3. seqs'[d] = 0
        BY <4>2 DEF SeqsLocated
      <4> QED BY <2>2, <3>3, <4>1, <4>3
    <3>4. CASE d # c
      <4>1. CASE \E j \in 1..n : pendingQueue[j].client = d
        <5>1. PICK j \in 1..n : pendingQueue[j].client = d /\ j # i
          BY <2>2, <3>4, <4>1
        <5>2. PICK k \in 1..Len(pendingQueue') : pendingQueue'[k] = pendingQueue[j]
          BY <3>2, <5>1
        <5>3. PendingSeq(d) = pendingQueue[j].seq /\ PendingSeq(d)' = pendingQueue'[k].seq
          BY <5>1, <5>2 DEF SeqsLocated
        <5> QED BY <3>4, <5>2, <5>3
      <4>2. CASE \A j \in 1..n : pendingQueue[j].client # d
        <5>1. \A k \in 1..Len(pendingQueue') : pendingQueue'[k].client # d
          BY <3>2, <4>2
        <5>2. PendingSeq(d) = 0 /\ PendingSeq(d)' = 0
          BY <4>2, <5>1 DEF SeqsLocated
        <5> QED BY <3>4, <5>2
      <4> QED BY <4>1, <4>2
    <3> QED BY <3>3, <3>4
  <2> QED BY <2>1, <2>2, CommitQueue
<1>4. seqs' = [seqs EXCEPT ![c] = IF @ <= command.seq THEN 0 ELSE @]
  BY <1>1, <1>3
<1> HIDE DEF seqs
<1> QED BY <1>2, <1>4 DEF Abstract!Commit, seqs

LEMMA BatchRefines ==
  ASSUME PoolInv, SeqsLocated, SeqsLocated', CloseBatch
  PROVE  Abstract!CloseBatch
<1> DEFINE seqs == [d \in Client |-> PendingSeq(d)]
           n == Len(pendingQueue)
           b == BatchSize
           batch == SubSeq(pendingQueue, 1, b)
           Closed(d) == \E i \in 1..b : batch[i].client = d
<1>1. /\ TypeOK /\ OffsetsLocatePending /\ pendingQueue \in Seq(Command) /\ n \in Nat
      /\ \A h, k \in 1..n : pendingQueue[h].client = pendingQueue[k].client => h = k
  <2>1. TypeOK /\ OffsetsLocatePending
    BY DEF PoolInv
  <2> QED BY <2>1, OneCommandPerClient DEF TypeOK
<1>2. /\ b \in 1..n /\ Len(pendingQueue') = n - b
      /\ \A j \in 1..(n - b) : pendingQueue'[j] = pendingQueue[b + j]
      /\ b \in 1..MaxBatchSize /\ (b = MaxBatchSize \/ b = n)
  <2>1. b = MaxBatchSize \/ b = n
    BY DEF BatchSize
  <2>2. b <= MaxBatchSize
    BY <1>1, MaxBatchSizeAssumption DEF BatchSize
  <2> HIDE DEF b
  <2> QED BY <1>1, <2>1, <2>2, BatchQueue, MaxBatchSizeAssumption DEF b
<1>3. /\ batch \in Seq(Command) /\ Len(batch) = b
      /\ \A i \in 1..b : batch[i] = pendingQueue[i] /\ i \in 1..n
  BY <1>1, <1>2
<1> HIDE DEF b, batch
<1>4. \A i \in 1..b : /\ batch[i] \in Command /\ batch[i].client \in Client
                      /\ batch[i].seq = PendingSeq(batch[i].client) /\ PendingSeq(batch[i].client) # 0
                      /\ batch[i] = [client |-> batch[i].client, seq |-> batch[i].seq]
  <2> TAKE i \in 1..b
  <2>1. batch[i] \in Command
    BY <1>3
  <2>2. batch[i].client \in Client /\ batch[i] = [client |-> batch[i].client, seq |-> batch[i].seq]
    BY <2>1 DEF Command
  <2> QED BY <1>3, <2>1, <2>2 DEF SeqsLocated
<1>5. batch \in [1..b -> Abstract!PendingCommands]
  <2>1. \A i \in 1..b : batch[i] \in Abstract!PendingCommands
    BY <1>4 DEF Abstract!PendingCommands
  <2>2. batch = [i \in 1..b |-> batch[i]]
    BY <1>3
  <2> QED BY <2>1, <2>2
<1>6. \A i, j \in 1..b : batch[i].client = batch[j].client => i = j
  BY <1>1, <1>3
<1>7. b = MaxBatchSize \/ \A p \in Abstract!PendingCommands : \E i \in 1..b : batch[i] = p
  <2> SUFFICES ASSUME b = n, NEW d \in Client, PendingSeq(d) # 0
               PROVE  \E i \in 1..b : batch[i] = [client |-> d, seq |-> PendingSeq(d)]
    BY <1>2 DEF Abstract!PendingCommands
  <2>1. PICK i \in 1..n : pendingQueue[i].client = d
    BY DEF SeqsLocated
  <2> QED BY <1>3, <1>4, <2>1
<1>8. \A d \in Client : Closed(d) <=> d \in BatchClients
  BY <1>3 DEF BatchClients, b
<1>9. \A d \in Client : seqs'[d] = IF Closed(d) THEN 0 ELSE seqs[d]
  <2> TAKE d \in Client
  <2>1. CASE Closed(d)
    <3>1. PICK i \in 1..b : pendingQueue[i].client = d /\ i \in 1..n
      BY <1>3, <2>1
    <3>2. \A j \in 1..(n - b) : pendingQueue'[j].client # d
      <4> SUFFICES ASSUME NEW j \in 1..(n - b), pendingQueue[b + j].client = d PROVE FALSE
        BY <1>2
      <4>1. b + j \in 1..n /\ b + j # i
        BY <1>1, <1>2
      <4> QED BY <1>1, <3>1, <4>1
    <3>3. PendingSeq(d)' = 0
      BY <1>2, <3>2 DEF SeqsLocated
    <3> QED BY <2>1, <3>3
  <2>2. CASE ~Closed(d)
    <3>1. \A i \in 1..b : pendingQueue[i].client # d
      BY <1>3, <2>2
    <3>2. CASE \E j \in 1..n : pendingQueue[j].client = d
      <4>1. PICK j \in 1..n : pendingQueue[j].client = d
        BY <3>2
      <4>2. j - b \in 1..(n - b) /\ b + (j - b) = j
        BY <1>1, <1>2, <3>1, <4>1
      <4>3. pendingQueue'[j - b] = pendingQueue[j]
        BY <1>2, <4>2
      <4>4. PendingSeq(d) = pendingQueue[j].seq /\ PendingSeq(d)' = pendingQueue'[j - b].seq
        BY <1>2, <4>1, <4>2, <4>3 DEF SeqsLocated
      <4> QED BY <2>2, <4>3, <4>4
    <3>3. CASE \A j \in 1..n : pendingQueue[j].client # d
      <4>1. \A j \in 1..(n - b) : pendingQueue'[j].client # d
        <5>1. \A j \in 1..(n - b) : b + j \in 1..n
          BY <1>1, <1>2
        <5> QED BY <1>2, <3>3, <5>1
      <4>2. PendingSeq(d) = 0 /\ PendingSeq(d)' = 0
        BY <1>2, <3>3, <4>1 DEF SeqsLocated
      <4> QED BY <2>2, <4>2
    <3> QED BY <3>2, <3>3
  <2> QED BY <2>1, <2>2
<1>10. \A d \in Client : submittedSeqs'[d] = IF Closed(d) THEN seqs[d] ELSE submittedSeqs[d]
  <2> TAKE d \in Client
  <2>1. submittedSeqs'[d] = IF d \in BatchClients THEN pendingQueue[LastInBatch(d)].seq
                                                 ELSE submittedSeqs[d]
    BY DEF CloseBatch
  <2>2. CASE Closed(d)
    <3>1. PICK i \in 1..b : pendingQueue[i].client = d /\ i \in 1..n
      BY <1>3, <2>2
    <3>2. LastInBatch(d) = i
      BY <1>1, <3>1, LastInBatchIs DEF b
    <3>3. PendingSeq(d) = pendingQueue[i].seq
      BY <3>1 DEF SeqsLocated
    <3> QED BY <1>8, <2>1, <2>2, <3>2, <3>3
  <2>3. CASE ~Closed(d)
    BY <1>8, <2>1, <2>3
  <2> QED BY <2>2, <2>3
<1>11. /\ returned' = returned \o batch
       /\ submittedSeqs' = [d \in Client |-> submittedSeqs'[d]]
  BY DEF CloseBatch, batch, b
<1>12. /\ seqs' = [d \in Client |-> IF \E i \in 1..b : batch[i].client = d THEN 0 ELSE seqs[d]]
       /\ submittedSeqs' = [d \in Client |-> IF \E i \in 1..b : batch[i].client = d
                                             THEN seqs[d] ELSE submittedSeqs[d]]
  BY <1>9, <1>10, <1>11
<1> HIDE DEF seqs
<1> QED BY <1>2, <1>5, <1>6, <1>7, <1>11, <1>12 DEF Abstract!CloseBatch, seqs

(* The queue with its offsets implements the pool of the replica models, which has   *)
(* neither: what is proved of those holds with it.                                 *)
THEOREM PoolImplementsAbstract == Spec => AbstractPoolSpec
<1>1. Init => Abstract!Init
  BY DEF Init, Abstract!Init, PendingSeq, HasPending
<1>2. (PoolInv /\ SeqsLocated /\ SeqsLocated' /\ [Next]_vars) => [Abstract!Next]_Abstract!vars
  <2> SUFFICES ASSUME PoolInv, SeqsLocated, SeqsLocated', [Next]_vars
               PROVE  [Abstract!Next]_Abstract!vars
    OBVIOUS
  <2>1. CASE UNCHANGED vars
    BY <2>1 DEF vars, Abstract!vars, PendingSeq, HasPending, ClientPendingIndex
  <2>2. ASSUME NEW command \in Command, Push(command) PROVE [Abstract!Next]_Abstract!vars
    BY <2>2, PushRefines DEF Abstract!Next, Abstract!Command, Command
  <2>3. ASSUME NEW command \in Command, Commit(command) PROVE [Abstract!Next]_Abstract!vars
    BY <2>3, CommitRefines DEF Abstract!Next, Abstract!Command, Command
  <2>4. CASE CloseBatch
    BY <2>4, BatchRefines DEF Abstract!Next
  <2> QED BY <2>1, <2>2, <2>3, <2>4 DEF Next
<1> QED BY <1>1, <1>2, SeqsAreLocated, PoolInvariant, PTL
        DEF Spec, AbstractPoolSpec, Abstract!Spec

-----------------------------------------------------------------------------
LEMMA PoolStepsClose == [PoolNext]_poolVars => [Next]_vars
<1>1. UNCHANGED poolVars => UNCHANGED vars
  BY DEF poolVars
<1>2. PoolNext => [Next]_vars
  BY DEF PoolNext, PoolPush, PoolCloseBatch, PoolCommit, IsCloseLoop, IsOpenLoop, Next
<1> QED BY <1>1, <1>2

(* The pool of a replica is the enum of both: seen without the open loop variant,  *)
(* its behaviours are those of the close loop pool.                               *)
THEOREM PoolIsCloseLoop == PoolSpec => Spec
<1>1. PoolInit => Init
  BY DEF PoolInit
<1> QED BY <1>1, PoolStepsClose, PTL DEF PoolSpec, Spec

(* What holds of the close loop pool holds of it as a variant of the replica's     *)
(* pool: exact offsets, no failing assertion, nothing returned twice.              *)
THEOREM PoolVariantSafe ==
  PoolSpec => [](TypeOK /\ OffsetsLocatePending /\ NoPanic /\ ReturnedOnce)
<1>1. PoolInv => TypeOK /\ OffsetsLocatePending /\ NoPanic /\ ReturnedOnce
  BY DEF PoolInv
<1> QED BY <1>1, PoolIsCloseLoop, PoolInvariant, PTL

-----------------------------------------------------------------------------
(* The open loop pool. Its queue is always the end of the sequence of accepted      *)
(* commands, because push appends to both and only the front of the queue is lost;   *)
(* what was returned lies before that end.                                         *)

OpenType ==
  /\ pendingBuf \in Seq(Open!Command)
  /\ clientSeqs \in [OpenClient -> Nat]
  /\ accepted \in Seq(Open!Command)
  /\ batched \in Seq(Open!Command)

(* How many accepted commands are not pending any more.                             *)
Gone == Len(accepted) - Len(pendingBuf)

PendingIsSuffix ==
  /\ Len(pendingBuf) <= Len(accepted)
  /\ \A k \in 1..Len(pendingBuf) : pendingBuf[k] = accepted[Gone + k]

(* The commands of kept are among the first n of all, once and in their order.      *)
Placed(kept, all, n) ==
  \A i \in 1..Len(kept) : \A j \in 1..i :
    \E m \in 1..n : \E l \in 1..m :
      (l < m <=> j < i) /\ all[m] = kept[i] /\ all[l] = kept[j]

(* A client's seqs rise, up to the one that is compared with the next.              *)
AcceptedRises ==
  /\ \A i \in 1..Len(accepted) : accepted[i].seq <= clientSeqs[accepted[i].client]
  /\ \A i \in 1..Len(accepted) : \A j \in 1..(i - 1) :
       accepted[j].client = accepted[i].client => accepted[j].seq < accepted[i].seq

(* What is gone and was not returned has a batch of newer commands.                 *)
DroppedUnderLoad ==
  \A i \in 1..Gone :
    \/ \E k \in 1..Len(batched) : batched[k] = accepted[i]
    \/ Len(accepted) - i >= MaxBatchSize

OpenInv ==
  /\ OpenType
  /\ PendingIsSuffix
  /\ Placed(batched, accepted, Gone)
  /\ AcceptedRises
  /\ Len(pendingBuf) <= MaxLen
  /\ DroppedUnderLoad

LEMMA PlacedLonger ==
  ASSUME NEW kept, Len(kept) \in Nat, NEW all, NEW n \in Nat, Placed(kept, all, n),
         NEW longer, NEW p \in Nat, n <= p, \A i \in 1..n : longer[i] = all[i]
  PROVE  Placed(kept, longer, p)
<1> SUFFICES ASSUME NEW i \in 1..Len(kept), NEW j \in 1..i
             PROVE  \E m \in 1..p : \E l \in 1..m :
                      (l < m <=> j < i) /\ longer[m] = kept[i] /\ longer[l] = kept[j]
  BY DEF Placed
<1>1. PICK m \in 1..n : \E l \in 1..m :
        (l < m <=> j < i) /\ all[m] = kept[i] /\ all[l] = kept[j]
  BY DEF Placed
<1>2. PICK l \in 1..m : (l < m <=> j < i) /\ all[m] = kept[i] /\ all[l] = kept[j]
  BY <1>1
<1>3. m \in 1..p /\ l \in 1..n
  OBVIOUS
<1> QED BY <1>2, <1>3

LEMMA Concatenation ==
  ASSUME NEW S, NEW s \in Seq(S), NEW t \in Seq(S)
  PROVE  /\ s \o t \in Seq(S) /\ Len(s \o t) = Len(s) + Len(t)
         /\ Len(s) \in Nat /\ Len(t) \in Nat
         /\ \A i \in 1..Len(s) : (s \o t)[i] = s[i]
         /\ \A i \in 1..Len(t) : (s \o t)[Len(s) + i] = t[i]
OBVIOUS

(* What follows at some distance behind the first n can be kept as well.            *)
LEMMA PlacedConcat ==
  ASSUME NEW S, NEW kept \in Seq(S), NEW more \in Seq(S), NEW all,
         NEW n \in Nat, Placed(kept, all, n), NEW d \in Nat, n <= d,
         \A k \in 1..Len(more) : more[k] = all[d + k]
  PROVE  Placed(kept \o more, all, d + Len(more))
<1> DEFINE both == kept \o more
           a == Len(kept)
           b == Len(more)
<1>1. /\ a \in Nat /\ b \in Nat /\ Len(both) = a + b
      /\ \A i \in 1..a : both[i] = kept[i]
      /\ \A i \in 1..b : both[a + i] = more[i]
  BY Concatenation
<1>2. \A i \in (a + 1)..(a + b) : i - a \in 1..b /\ both[i] = all[d + (i - a)]
  <2> TAKE i \in (a + 1)..(a + b)
  <2>1. i - a \in 1..b /\ a + (i - a) = i
    BY <1>1
  <2> QED BY <1>1, <2>1
<1> HIDE DEF both, a, b
<1> SUFFICES ASSUME NEW i \in 1..(a + b), NEW j \in 1..i
             PROVE  \E m \in 1..(d + b) : \E l \in 1..m :
                      (l < m <=> j < i) /\ all[m] = both[i] /\ all[l] = both[j]
  BY <1>1 DEF Placed, both, b
<1>3. CASE i <= a
  <2>1. i \in 1..a /\ j \in 1..a
    BY <1>1, <1>3
  <2>2. PICK m \in 1..n : \E l \in 1..m :
          (l < m <=> j < i) /\ all[m] = kept[i] /\ all[l] = kept[j]
    BY <2>1 DEF Placed, a
  <2>3. m \in 1..(d + b)
    BY <1>1
  <2> QED BY <1>1, <2>1, <2>2, <2>3
<1>4. CASE i > a /\ j <= a
  <2>1. j \in 1..a /\ i \in (a + 1)..(a + b) /\ j < i
    BY <1>1, <1>4
  <2>2. PICK l \in 1..n : all[l] = kept[j]
    <3>1. PICK m \in 1..n : \E l \in 1..m : all[l] = kept[j]
      <4>1. j \in 1..Len(kept) /\ j \in 1..j
        BY <2>1 DEF a
      <4> QED BY <4>1 DEF Placed
    <3>2. \A l \in 1..m : l \in 1..n
      OBVIOUS
    <3> QED BY <3>1, <3>2
  <2>3. d + (i - a) \in 1..(d + b) /\ l \in 1..(d + (i - a)) /\ l < d + (i - a)
    BY <1>1, <1>2, <2>1
  <2> QED BY <1>1, <1>2, <2>1, <2>2, <2>3
<1>5. CASE i > a /\ j > a
  <2>1. j \in (a + 1)..(a + b) /\ i \in (a + 1)..(a + b)
    BY <1>1, <1>5
  <2>2. /\ d + (i - a) \in 1..(d + b) /\ d + (j - a) \in 1..(d + (i - a))
        /\ d + (j - a) < d + (i - a) <=> j < i
    BY <1>1, <1>2, <2>1
  <2> QED BY <1>2, <2>1, <2>2
<1> QED BY <1>1, <1>3, <1>4, <1>5

LEMMA OpenInitInv == Open!Init => OpenInv
<1> SUFFICES ASSUME Open!Init PROVE OpenInv
  OBVIOUS
<1>1. /\ pendingBuf = <<>> /\ accepted = <<>> /\ batched = <<>>
      /\ clientSeqs = [c \in OpenClient |-> 0]
  BY DEF Open!Init
<1> QED BY <1>1, MaxLenAssumption
        DEF OpenInv, OpenType, PendingIsSuffix, Placed, AcceptedRises, DroppedUnderLoad, Gone

LEMMA OpenCommand ==
  ASSUME NEW command \in Open!Command
  PROVE  command.client \in OpenClient /\ command.seq \in Nat /\ command.seq # 0
BY OpenMaxSeqAssumption DEF Open!Command

(* A push appends the command to the queue and to what was accepted, and takes the   *)
(* oldest of a full queue.                                                         *)
LEMMA OpenPushInv ==
  ASSUME OpenInv, NEW command \in Open!Command, Open!Push(command)
  PROVE  OpenInv'
<1> DEFINE c == command.client
           old == Open!OldestLost(pendingBuf)
           n == Len(accepted)
<1> USE DEF OpenInv
<1>1. /\ pendingBuf \in Seq(Open!Command) /\ accepted \in Seq(Open!Command)
      /\ n \in Nat /\ Len(pendingBuf) \in 0..n /\ Gone \in 0..n
      /\ c \in OpenClient /\ command.seq \in Nat /\ MaxLen \in Nat
      /\ MaxBatchSize \in Nat /\ MaxBatchSize <= MaxLen /\ MaxLen # 0
  BY OpenCommand, MaxLenAssumption, MaxBatchSizeAssumption DEF OpenType, PendingIsSuffix, Gone
<1>2. CASE UNCHANGED Open!vars
  BY <1>2 DEF Open!vars, OpenType, PendingIsSuffix, Gone, AcceptedRises, DroppedUnderLoad
<1>3. CASE /\ clientSeqs[c] < command.seq
           /\ clientSeqs' = [clientSeqs EXCEPT ![c] = command.seq]
           /\ pendingBuf' = Append(old, command)
           /\ accepted' = Append(accepted, command)
           /\ UNCHANGED batched
  <2>1. /\ accepted' \in Seq(Open!Command) /\ Len(accepted') = n + 1
        /\ accepted'[n + 1] = command
        /\ \A i \in 1..n : accepted'[i] = accepted[i]
    BY <1>1, <1>3
  <2>2. /\ old \in Seq(Open!Command) /\ Len(old) \in Nat
        /\ IF Len(pendingBuf) = MaxLen
           THEN Len(old) = Len(pendingBuf) - 1 ELSE Len(old) = Len(pendingBuf)
        /\ \A k \in 1..Len(old) : old[k] = accepted[n - Len(old) + k]
    <3>1. CASE Len(pendingBuf) = MaxLen
      <4>1. old = Tail(pendingBuf) /\ pendingBuf # <<>>
        BY <1>1, <3>1 DEF Open!OldestLost
      <4>2. /\ old \in Seq(Open!Command) /\ Len(old) = Len(pendingBuf) - 1
            /\ \A k \in 1..Len(old) : old[k] = pendingBuf[k + 1]
        BY <1>1, <4>1
      <4>3. Len(pendingBuf) \in Nat \ {0} /\ Len(old) \in Nat
        BY <1>1, <4>1, <4>2
      <4> HIDE DEF old
      <4>4. \A k \in 1..Len(old) : k + 1 \in 1..Len(pendingBuf)
                                  /\ Gone + (k + 1) = n - Len(old) + k
        BY <1>1, <4>2, <4>3 DEF Gone
      <4>5. \A k \in 1..Len(old) : old[k] = accepted[n - Len(old) + k]
        <5> TAKE k \in 1..Len(old)
        <5>1. k + 1 \in 1..Len(pendingBuf) /\ Gone + (k + 1) = n - Len(old) + k
          BY <4>4
        <5>2. pendingBuf[k + 1] = accepted[Gone + (k + 1)]
          BY <5>1 DEF PendingIsSuffix
        <5> QED BY <4>2, <5>1, <5>2
      <4> QED BY <3>1, <4>2, <4>3, <4>5
    <3>2. CASE Len(pendingBuf) # MaxLen
      <4>1. old = pendingBuf
        BY <3>2 DEF Open!OldestLost
      <4> QED BY <1>1, <3>2, <4>1 DEF PendingIsSuffix, Gone
    <3> QED BY <3>1, <3>2
  <2> HIDE DEF old
  <2>3. /\ pendingBuf' \in Seq(Open!Command) /\ Len(pendingBuf') = Len(old) + 1
        /\ pendingBuf'[Len(old) + 1] = command
        /\ \A k \in 1..Len(old) : pendingBuf'[k] = old[k]
    BY <1>3, <2>2
  <2>4. /\ Gone' = n - Len(old) /\ Gone' \in Nat /\ Gone' <= n
        /\ Gone' = IF Len(pendingBuf) = MaxLen THEN Gone + 1 ELSE Gone
    <3> DEFINE o == Len(old)
               q == Len(pendingBuf)
    <3>1. /\ Gone' = (n + 1) - (o + 1) /\ Gone = n - q
          /\ q \in 0..n /\ n \in Nat /\ o \in Nat /\ MaxLen \in Nat \ {0}
          /\ IF q = MaxLen THEN o = q - 1 ELSE o = q
      BY <1>1, <2>1, <2>2, <2>3 DEF Gone
    <3> HIDE DEF o, q, n
    <3>2. /\ Gone' = n - o /\ Gone' \in Nat /\ Gone' <= n
          /\ Gone' = IF q = MaxLen THEN Gone + 1 ELSE Gone
      BY <3>1
    <3> QED BY <3>2 DEF o, q
  <2>5. OpenType'
    <3>1. clientSeqs' \in [OpenClient -> Nat]
      BY <1>1, <1>3 DEF OpenType
    <3> QED BY <1>3, <2>1, <2>3, <3>1 DEF OpenType
  <2>6. PendingIsSuffix'
    <3>1. Len(pendingBuf') <= Len(accepted')
      BY <1>1, <2>1, <2>2, <2>3
    <3>2. ASSUME NEW k \in 1..Len(pendingBuf') PROVE pendingBuf'[k] = accepted'[Gone' + k]
      <4>1. CASE k = Len(old) + 1
        <5>1. Gone' + k = n + 1
          BY <1>1, <2>2, <2>4, <4>1
        <5> QED BY <2>1, <2>3, <4>1, <5>1
      <4>2. CASE k # Len(old) + 1
        <5>1. k \in 1..Len(old) /\ Gone' + k = n - Len(old) + k /\ Gone' + k \in 1..n
          BY <1>1, <2>2, <2>3, <2>4, <4>2
        <5> QED BY <2>1, <2>2, <2>3, <5>1
      <4> QED BY <4>1, <4>2
    <3> QED BY <3>1, <3>2 DEF PendingIsSuffix
  <2>7. Placed(batched', accepted', Gone')
    <3>1. Len(batched) \in Nat
      BY DEF OpenType
    <3>2. Gone \in Nat /\ Gone <= Gone' /\ \A i \in 1..Gone : accepted'[i] = accepted[i]
      BY <1>1, <2>1, <2>4
    <3>3. Placed(batched, accepted, Gone)
      OBVIOUS
    <3>4. Placed(batched, accepted', Gone')
      BY <2>4, <3>1, <3>2, <3>3, PlacedLonger
    <3> QED BY <1>3, <3>4
  <2>8. AcceptedRises'
    <3>1. \A i \in 1..n : /\ accepted[i].client \in OpenClient /\ accepted[i].seq \in Nat
                         /\ accepted[i].seq <= clientSeqs[accepted[i].client]
                         /\ clientSeqs[accepted[i].client] \in Nat
      <4> TAKE i \in 1..n
      <4>1. accepted[i] \in Open!Command
        BY <1>1
      <4> QED BY <4>1, OpenCommand DEF AcceptedRises, OpenType
    <3>2. \A d \in OpenClient : clientSeqs'[d] = IF d = c THEN command.seq ELSE clientSeqs[d]
      BY <1>3 DEF OpenType
    <3>3. ASSUME NEW i \in 1..(n + 1)
          PROVE  accepted'[i].seq <= clientSeqs'[accepted'[i].client]
      <4>1. CASE i = n + 1
        BY <1>1, <2>1, <3>2, <4>1
      <4>2. CASE i # n + 1
        <5>1. i \in 1..n
          BY <1>1, <4>2
        <5> QED BY <1>1, <1>3, <2>1, <3>1, <3>2, <5>1
      <4> QED BY <4>1, <4>2
    <3>4. ASSUME NEW i \in 1..(n + 1), NEW j \in 1..(i - 1),
                 accepted'[j].client = accepted'[i].client
          PROVE  accepted'[j].seq < accepted'[i].seq
      <4>1. j \in 1..n
        BY <1>1
      <4>2. CASE i = n + 1
        BY <1>1, <1>3, <2>1, <3>1, <3>4, <4>1, <4>2
      <4>3. CASE i # n + 1
        <5>1. i \in 1..n
          BY <1>1, <4>3
        <5> QED BY <2>1, <3>4, <4>1, <5>1 DEF AcceptedRises
      <4> QED BY <4>2, <4>3
    <3> QED BY <2>1, <3>3, <3>4 DEF AcceptedRises
  <2>9. Len(pendingBuf') <= MaxLen
    BY <1>1, <2>2, <2>3
  <2>10. DroppedUnderLoad'
    <3> SUFFICES ASSUME NEW i \in 1..Gone',
                        \A k \in 1..Len(batched) : batched[k] # accepted'[i]
                 PROVE  n + 1 - i >= MaxBatchSize
      <4>1. Len(accepted') = n + 1 /\ batched' = batched
        BY <1>3, <2>1
      <4> QED BY <4>1 DEF DroppedUnderLoad
    <3>1. CASE i <= Gone
      <4>1. i \in 1..Gone /\ i \in 1..n
        BY <1>1, <3>1
      <4>2. n - i >= MaxBatchSize
        BY <2>1, <4>1 DEF DroppedUnderLoad
      <4> QED BY <1>1, <4>1, <4>2
    <3>2. CASE i > Gone
      <4>1. i = Gone + 1 /\ Len(pendingBuf) = MaxLen
        BY <1>1, <2>4, <3>2
      <4> QED BY <1>1, <4>1 DEF Gone
    <3> QED BY <1>1, <2>4, <3>1, <3>2
  <2> QED BY <2>5, <2>6, <2>7, <2>8, <2>9, <2>10
<1> QED BY <1>2, <1>3 DEF Open!Push

(* A batch is the end of the queue, and all that is not in it is gone.              *)
LEMMA OpenCloseBatchInv ==
  ASSUME OpenInv, Open!CloseBatch
  PROVE  OpenInv'
<1> DEFINE newest == Open!NewestOf(pendingBuf)
           n == Len(accepted)
           p == Len(pendingBuf)
           skip == IF p < MaxBatchSize THEN 0 ELSE p - MaxBatchSize
<1> USE DEF OpenInv
<1>1. /\ pendingBuf \in Seq(Open!Command) /\ accepted \in Seq(Open!Command)
      /\ batched \in Seq(Open!Command) /\ Len(batched) \in Nat
      /\ n \in Nat /\ p \in 0..n /\ Gone \in 0..n /\ Gone = n - p
      /\ MaxBatchSize \in Nat \ {0} /\ MaxLen \in Nat /\ skip \in 0..p
      /\ Placed(batched, accepted, Gone)
  BY MaxLenAssumption, MaxBatchSizeAssumption DEF OpenType, PendingIsSuffix, Gone
<1>2. /\ batched' = batched \o newest /\ pendingBuf' = <<>>
      /\ clientSeqs' = clientSeqs /\ accepted' = accepted
  BY DEF Open!CloseBatch
<1>3. /\ newest \in Seq(Open!Command) /\ Len(newest) = p - skip
      /\ \A k \in 1..Len(newest) : newest[k] = pendingBuf[skip + k]
  <2>1. newest = SubSeq(pendingBuf, skip + 1, p)
    BY <1>1 DEF Open!NewestOf
  <2> HIDE DEF newest, skip
  <2>2. /\ SubSeq(pendingBuf, skip + 1, p) \in Seq(Open!Command)
        /\ Len(SubSeq(pendingBuf, skip + 1, p)) = p - skip
        /\ \A k \in 1..(p - skip) : SubSeq(pendingBuf, skip + 1, p)[k] = pendingBuf[skip + k]
    BY <1>1
  <2> QED BY <2>1, <2>2
<1> HIDE DEF newest
<1>4. \A k \in 1..Len(newest) : newest[k] = accepted[(Gone + skip) + k]
  <2> TAKE k \in 1..Len(newest)
  <2>1. skip + k \in 1..p /\ Gone + (skip + k) = (Gone + skip) + k
    BY <1>1, <1>3
  <2> QED BY <1>3, <2>1 DEF PendingIsSuffix
<1>5. Gone' = n
  BY <1>1, <1>2 DEF Gone
<1>6. Placed(batched', accepted', Gone')
  <2>1. (Gone + skip) \in Nat /\ Gone \in Nat /\ Gone <= Gone + skip
        /\ Gone + skip + Len(newest) = n
    BY <1>1, <1>3
  <2> HIDE DEF skip, n
  <2>2. Placed(batched \o newest, accepted, (Gone + skip) + Len(newest))
    BY <1>1, <1>3, <1>4, <2>1, PlacedConcat
  <2> QED BY <1>2, <1>5, <2>1, <2>2
<1>7. OpenType'
  BY <1>1, <1>2, <1>3 DEF OpenType
<1>8. PendingIsSuffix' /\ Len(pendingBuf') <= MaxLen
  BY <1>1, <1>2 DEF PendingIsSuffix
<1>9. AcceptedRises'
  BY <1>2 DEF AcceptedRises
<1>10. DroppedUnderLoad'
  <2>1. /\ Len(batched') = Len(batched) + (p - skip)
        /\ \A k \in 1..Len(batched) : batched'[k] = batched[k]
        /\ \A k \in 1..(p - skip) : batched'[Len(batched) + k] = newest[k]
    <3>1. /\ Len(batched') = Len(batched) + Len(newest)
          /\ \A k \in 1..Len(batched) : batched'[k] = batched[k]
          /\ \A k \in 1..Len(newest) : batched'[Len(batched) + k] = newest[k]
      <4> HIDE DEF skip, p
      <4>1. batched' = batched \o newest
        BY <1>2
      <4>2. batched \in Seq(Open!Command) /\ newest \in Seq(Open!Command)
        BY <1>1, <1>3
      <4> QED BY <4>1, <4>2, Concatenation
    <3> HIDE DEF skip, p
    <3> QED BY <1>3, <3>1
  <2> SUFFICES ASSUME NEW i \in 1..n,
                      \A k \in 1..Len(batched') : batched'[k] # accepted[i]
               PROVE  n - i >= MaxBatchSize
    BY <1>2, <1>5 DEF DroppedUnderLoad
  <2> DEFINE x == i - (Gone + skip)
             a == Len(batched)
  <2>2. CASE i <= Gone
    <3>1. i \in 1..Gone /\ \A k \in 1..Len(batched) : batched[k] # accepted[i]
      BY <1>1, <2>1, <2>2
    <3> QED BY <3>1 DEF DroppedUnderLoad
  <2>3. CASE i > Gone + skip
    <3>1. /\ n \in Nat /\ p \in 0..n /\ Gone = n - p /\ skip \in 0..p /\ i \in 1..n /\ a \in Nat
          /\ Len(batched') = a + (p - skip)
      BY <1>1, <2>1
    <3> HIDE DEF skip, p, n, a
    <3>2. x \in 1..(p - skip) /\ (Gone + skip) + x = i /\ a + x \in 1..(a + (p - skip))
      BY <2>3, <3>1
    <3> HIDE DEF x
    <3>3. newest[x] = accepted[i]
      BY <1>3, <1>4, <3>2
    <3>4. batched'[a + x] = accepted[i] /\ a + x \in 1..Len(batched')
      BY <2>1, <3>1, <3>2, <3>3 DEF a
    <3> QED BY <3>4
  <2>4. CASE i > Gone /\ i <= Gone + skip
    BY <1>1, <2>4
  <2> QED BY <1>1, <2>2, <2>3, <2>4
<1> QED BY <1>6, <1>7, <1>8, <1>9, <1>10

LEMMA OpenCommitInv ==
  ASSUME OpenInv, NEW command \in Open!Command, Open!Commit(command)
  PROVE  OpenInv'
<1> DEFINE c == command.client
<1> USE DEF OpenInv
<1>1. /\ clientSeqs' = [clientSeqs EXCEPT ![c] = IF @ < command.seq THEN command.seq ELSE @]
      /\ pendingBuf' = pendingBuf /\ accepted' = accepted /\ batched' = batched
  BY DEF Open!Commit, Open!Raised
<1>2. c \in OpenClient /\ command.seq \in Nat
  BY OpenCommand
<1>3. /\ clientSeqs' \in [OpenClient -> Nat]
      /\ \A d \in OpenClient : clientSeqs[d] \in Nat /\ clientSeqs[d] <= clientSeqs'[d]
  BY <1>1, <1>2 DEF OpenType
<1>4. OpenType'
  BY <1>1, <1>3 DEF OpenType
<1>5. AcceptedRises'
  <2>1. ASSUME NEW i \in 1..Len(accepted)
        PROVE  accepted[i].seq <= clientSeqs'[accepted[i].client]
    <3>1. accepted[i] \in Open!Command
      BY DEF OpenType
    <3>2. accepted[i].client \in OpenClient /\ accepted[i].seq \in Nat
      BY <3>1, OpenCommand
    <3>3. accepted[i].seq <= clientSeqs[accepted[i].client]
      BY DEF AcceptedRises
    <3> QED BY <1>3, <3>2, <3>3
  <2> QED BY <1>1, <2>1 DEF AcceptedRises
<1> QED BY <1>1, <1>4, <1>5 DEF PendingIsSuffix, Gone, DroppedUnderLoad

LEMMA OpenNextInv == OpenInv /\ [PoolNext]_poolVars => OpenInv'
<1> SUFFICES ASSUME OpenInv, [PoolNext]_poolVars PROVE OpenInv'
  OBVIOUS
<1>1. CASE UNCHANGED openVars
  BY <1>1 DEF openVars, OpenInv, OpenType, PendingIsSuffix, Gone, AcceptedRises, DroppedUnderLoad
<1>2. CASE \E command \in Open!Command : Open!Push(command)
  BY <1>2, OpenPushInv
<1>3. CASE Open!CloseBatch
  BY <1>3, OpenCloseBatchInv
<1>4. CASE \E command \in Open!Command : Open!Commit(command)
  BY <1>4, OpenCommitInv
<1>5. UNCHANGED poolVars => UNCHANGED openVars
  BY DEF poolVars
<1>6. \/ UNCHANGED openVars
      \/ \E command \in Open!Command : Open!Push(command)
      \/ Open!CloseBatch
      \/ \E command \in Open!Command : Open!Commit(command)
  BY <1>5 DEF PoolNext, PoolPush, PoolCloseBatch, PoolCommit, IsCloseLoop, IsOpenLoop
<1> QED BY <1>1, <1>2, <1>3, <1>4, <1>6

LEMMA OpenInvPromises == OpenInv => OpenLoopPromises
<1> SUFFICES ASSUME OpenInv PROVE Open!Promises
  BY DEF OpenLoopPromises
<1> DEFINE kept == batched \o pendingBuf
           n == Len(accepted)
<1> USE DEF OpenInv
<1>1. /\ pendingBuf \in Seq(Open!Command) /\ accepted \in Seq(Open!Command)
      /\ batched \in Seq(Open!Command) /\ Len(batched) \in Nat
      /\ n \in Nat /\ Len(pendingBuf) \in 0..n /\ Gone \in 0..n
      /\ Gone + Len(pendingBuf) = n
      /\ Placed(batched, accepted, Gone)
      /\ \A k \in 1..Len(pendingBuf) : pendingBuf[k] = accepted[Gone + k]
  BY DEF OpenType, PendingIsSuffix, Gone
<1>2. /\ kept \in Seq(Open!Command) /\ Len(kept) = Len(batched) + Len(pendingBuf)
      /\ \A k \in 1..Len(batched) : kept[k] = batched[k]
      /\ \A k \in 1..Len(pendingBuf) : kept[Len(batched) + k] = pendingBuf[k]
  BY <1>1
<1>3. Placed(kept, accepted, n)
  <2>1. Gone \in Nat /\ Gone <= Gone
    BY <1>1
  <2>2. Placed(batched \o pendingBuf, accepted, Gone + Len(pendingBuf))
    BY <1>1, <2>1, PlacedConcat
  <2> QED BY <1>1, <2>2
<1> HIDE DEF kept
<1>4. DOMAIN kept = 1..Len(kept) /\ DOMAIN accepted = 1..n
  BY <1>1, <1>2
<1>5. \A i \in DOMAIN kept : \A j \in 1..i :
        \E m \in DOMAIN accepted : \E l \in 1..m :
          (l < m <=> j < i) /\ accepted[m] = kept[i] /\ accepted[l] = kept[j]
  <2> TAKE i \in DOMAIN kept
  <2> TAKE j \in 1..i
  <2>1. \E m \in 1..n : \E l \in 1..m :
          (l < m <=> j < i) /\ accepted[m] = kept[i] /\ accepted[l] = kept[j]
    BY <1>3, <1>4 DEF Placed
  <2> QED BY <1>4, <2>1
<1>6. \A i \in DOMAIN accepted :
        accepted[i] \notin Open!ToSet(kept) => n - i >= MaxBatchSize
  <2> SUFFICES ASSUME NEW i \in 1..n, \A k \in 1..Len(kept) : kept[k] # accepted[i]
               PROVE  n - i >= MaxBatchSize
    BY <1>4 DEF Open!ToSet
  <2>1. CASE i <= Gone
    <3>1. i \in 1..Gone /\ \A k \in 1..Len(batched) : batched[k] # accepted[i]
      BY <1>1, <1>2, <2>1
    <3> QED BY <3>1 DEF DroppedUnderLoad
  <2>2. CASE i > Gone
    <3> DEFINE x == i - Gone
               a == Len(batched)
               p == Len(pendingBuf)
    <3>1. /\ n \in Nat /\ p \in 0..n /\ Gone \in 0..n /\ Gone + p = n /\ i \in 1..n
          /\ a \in Nat /\ Len(kept) = a + p
      BY <1>1, <1>2
    <3> HIDE DEF n, a, p
    <3>2. x \in 1..p /\ Gone + x = i /\ a + x \in 1..(a + p)
      BY <2>2, <3>1
    <3> HIDE DEF x
    <3>3. pendingBuf[x] = accepted[i]
      BY <1>1, <3>2 DEF p
    <3>4. kept[a + x] = accepted[i] /\ a + x \in 1..Len(kept)
      BY <1>2, <3>1, <3>2, <3>3 DEF a, p
    <3> QED BY <3>4
  <2> QED BY <1>1, <2>1, <2>2
<1>7. \A i \in DOMAIN accepted : \A j \in 1..(i - 1) :
        accepted[j].client = accepted[i].client => accepted[j].seq < accepted[i].seq
  BY <1>4 DEF AcceptedRises
<1> HIDE DEF OpenInv
<1>8. Len(pendingBuf) <= MaxLen
  BY DEF OpenInv
<1> QED BY <1>5, <1>6, <1>7, <1>8 DEF Open!Promises, kept

(* The open loop pool keeps its promises: the order of pushes, nothing returned or    *)
(* kept twice, MAX_LEN, and no loss without a batch of newer commands.              *)
THEOREM OpenLoopInvariant == PoolSpec => []OpenInv
<1>1. PoolInit => OpenInv
  BY OpenInitInv DEF PoolInit
<1> QED BY <1>1, OpenNextInv, PTL DEF PoolSpec

(* The open loop pool returns accepted commands in their order and at most once, and drops *)
(* one only when a batch of newer commands has come (command/pool.rs, open_loop).        *)
THEOREM OpenLoopKeepsPromises == PoolSpec => []OpenLoopPromises
BY OpenLoopInvariant, OpenInvPromises, PTL
=============================================================================
