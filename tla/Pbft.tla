-------------------------------- MODULE Pbft --------------------------------
(* The main path of the PBFT replicas of src/pbft/mod.rs: ReplicaCore, the     *)
(* Replica that collects votes around it, and the messages between replicas.   *)
(*                                                                             *)
(* The view number never leaves 0: nothing raises ViewExpired, and the recover *)
(* path ends in todo!(). So the primary is fixed, and the comparisons of view   *)
(* numbers are left out.                                                       *)
(*                                                                             *)
(* A block digest is collision free, so a digest stands for the commands it is *)
(* computed from, and a PrePrepare whose digest is not that of its commands is *)
(* dropped on receipt. Signatures verify, but Prepare and Commit carry the same *)
(* signed message::Vote and requests carry no signature at all: the faulty      *)
(* replicas in Malicious make one vote of the other, replay to a replica what   *)
(* it sent itself, and send requests as the clients would.                      *)
EXTENDS Integers, FiniteSets, FiniteSetsExt, Sequences

CONSTANTS Replica,       \* the num_replica replicas
          Primary,       \* the primary of view 0
          Faulty,        \* the replicas that do not follow the code
          Malicious,     \* those of them that send messages; the others are silent
          NumFaulty,     \* Spec::num_faulty
          MaxInflight,   \* max_num_inflight
          MaxBatchSize,  \* max_batch_size
          Client,        \* the close loop clients
          MaxSeq,        \* bound: clients number their commands 1..MaxSeq
          Entry,         \* the correct replicas that requests are sent to
          MaxBlock,      \* bound on block numbers
          FaultyBlocks,  \* the blocks that faulty replicas propose or vote for
          NoBlock        \* no PrePrepare accepted yet

Correct == Replica \ Faulty
BlockNum == 1..MaxBlock
Command == [client : Client, seq : 1..MaxSeq]
(* The commands of a block. A pool returns at most one command per client, so   *)
(* their order matters only for being the same everywhere, as the digest is.    *)
Block == SUBSET Command

ASSUME ReplicaAssumption == IsFiniteSet(Replica) /\ Primary \in Replica
ASSUME FaultyAssumption == /\ Faulty \subseteq Replica /\ Malicious \subseteq Faulty
                           /\ NumFaulty \in Nat
ASSUME BoundAssumption == /\ MaxInflight \in Nat \ {0} /\ MaxBatchSize \in Nat \ {0}
                          /\ MaxSeq \in Nat \ {0} /\ MaxBlock \in Nat
ASSUME EntryAssumption == Entry \subseteq Correct
ASSUME FaultyBlocksAssumption == FaultyBlocks \subseteq Block
ASSUME NoBlockAssumption == \A b \in Block : b # NoBlock

(* num_replica - num_faulty. SmallQuorum, like every operator here that is used  *)
(* nowhere, is a plausible mistake in the definition that follows it, which a    *)
(* run must notice when it takes its place.                                      *)
SmallQuorum == Cardinality(Replica) - NumFaulty - 1
QuorumSize == Cardinality(Replica) - NumFaulty

VARIABLES
  slots,        \* slots[r][k]: the Block and the BlockScratch of number k at r
  proposeNum,   \* propose_num of each correct replica
  finalizeNum,  \* finalize_num of each correct replica
  pending,      \* pending[r][c]: seq of the command of c in the pool of r, or 0
  submitted,    \* submitted[r][c]: highest seq batched or committed there, or 0
  ticked,       \* ticked_scratch_num of each correct replica
  sent,         \* the messages correct replicas have sent
  ended         \* the correct replicas whose task has ended with an error

coreVars == <<slots, proposeNum, finalizeNum>>
poolVars == <<pending, submitted>>
vars == <<slots, proposeNum, finalizeNum, pending, submitted, ticked, sent, ended>>

-----------------------------------------------------------------------------
(* Messages. A message stays in sent after it is received: the network may      *)
(* deliver it late, again, out of order, or not at all.                         *)

PrePrepare(k, b) == [type |-> "PrePrepare", num |-> k, block |-> b]
Prepare(q, k, b) == [type |-> "Prepare", from |-> q, num |-> k, block |-> b]
Commit(q, k, b) == [type |-> "Commit", from |-> q, num |-> k, block |-> b]
Forward(command) == [type |-> "Request", command |-> command]

Message ==
  [type : {"PrePrepare"}, num : BlockNum, block : Block]
    \cup [type : {"Prepare", "Commit"}, from : Replica, num : BlockNum, block : Block]
    \cup [type : {"Request"}, command : Command]

(* A faulty primary may propose several blocks for one number.                  *)
PrePrepareSigned(k, b) ==
  PrePrepare(k, b) \in sent \/ (Primary \in Malicious /\ b \in FaultyBlocks)
(* There is a message with a vote of q for b that verifies.                     *)
VoteSigned(q, k, b) == \/ Prepare(q, k, b) \in sent \/ Commit(q, k, b) \in sent
                       \/ q \in Malicious /\ b \in FaultyBlocks

(* The messages that r may be sent: those of the others, and with a malicious     *)
(* replica also its own, and every vote both as a Prepare and as a Commit.       *)
CanPrePrepare(r, k, b) == PrePrepareSigned(k, b) /\ (r = Primary => Malicious # {})
CanPrepare(r, q, k, b) == \/ q # r /\ Prepare(q, k, b) \in sent
                          \/ Malicious # {} /\ VoteSigned(q, k, b)
CanCommit(r, q, k, b) == \/ q # r /\ Commit(q, k, b) \in sent
                         \/ Malicious # {} /\ VoteSigned(q, k, b)

(* The blocks a message may be about.                                           *)
KnownBlocks == FaultyBlocks \cup {m.block : m \in {n \in sent : n.type = "PrePrepare"}}

-----------------------------------------------------------------------------
(* One block number at one replica. The quorums are sets of replicas; an empty  *)
(* prepareCert or commitCert is the None of the code, which stores a quorum     *)
(* only after it inserted a vote in it.                                         *)

Vote == [from : Replica, block : Block]

Slot ==
  [block : {NoBlock} \cup Block,     \* Block::commands and Block::digest
   prepareCert : SUBSET Replica,     \* Block::prepare_quorum
   commitCert : SUBSET Replica,      \* Block::commit_quorum
   open : BOOLEAN,                   \* the number has a BlockScratch
   prepareVotes : SUBSET Vote,       \* the votes that came before the PrePrepare
   prepares : SUBSET Replica,        \* BlockScratch::prepare_quorum
   commitVotes : SUBSET Vote,
   commits : SUBSET Replica,         \* BlockScratch::commit_quorum
   failed : BOOLEAN]                 \* an assertion or an unwrap has failed

EmptySlot ==
  [block |-> NoBlock, prepareCert |-> {}, commitCert |-> {}, open |-> FALSE,
   prepareVotes |-> {}, prepares |-> {}, commitVotes |-> {}, commits |-> {},
   failed |-> FALSE]

FinalizedBelow(r, k) == k < finalizeNum[r]
IsPrepared(r, k) == k < finalizeNum[r] \/ slots[r][k].prepareCert # {}
CommittedBelow(r, k) == k < finalizeNum[r]
IsCommitted(r, k) == k < finalizeNum[r] \/ (IsPrepared(r, k) /\ slots[r][k].commitCert # {})

Matching(votes, b) == {v.from : v \in {w \in votes : w.block = b}}

(* check_prepare_quorum with the PrepareQuorum event, and the Commit action     *)
(* that it causes up to its check: the PrePrepare counts as the primary's vote, *)
(* and the replica adds its own Commit to the votes it has.                     *)
CheckPrepareQuorum(r, s) ==
  IF Cardinality(s.prepares) + 1 >= QuorumSize
  THEN [s EXCEPT !.failed = @ \/ s.block = NoBlock \/ s.prepareCert # {},
                 !.prepareCert = s.prepares,
                 !.prepares = {},
                 !.commits = @ \cup {r}]
  ELSE s

(* check_commit_quorum with the CommitQuorum event up to its loop.              *)
PrimaryCountedCommitQuorum(s) ==
  IF s.prepareCert # {} /\ Cardinality(s.commits) + 1 >= QuorumSize
  THEN [s EXCEPT !.commitCert = s.commits, !.commits = {}]
  ELSE s
CheckCommitQuorum(s) ==
  IF s.prepareCert # {} /\ Cardinality(s.commits) >= QuorumSize
  THEN [s EXCEPT !.failed = @ \/ s.block = NoBlock \/ s.commitCert # {},
                 !.commitCert = s.commits,
                 !.commits = {}]
  ELSE s

(* The Finalize action: the block and its scratch must be there; the scratch     *)
(* goes.                                                                        *)
CloseScratch(s) ==
  [s EXCEPT !.failed = @ \/ ~s.open \/ s.block = NoBlock,
            !.open = FALSE,
            !.prepareVotes = {}, !.prepares = {}, !.commitVotes = {}, !.commits = {}]

(* The scratch after a replica accepts block b and casts its own Prepare: the   *)
(* early votes for b count, the others are forgotten.                           *)
OpenScratch(r, s, b) ==
  [s EXCEPT !.open = TRUE,
            !.prepares = @ \cup Matching(s.prepareVotes, b) \cup {r},
            !.prepareVotes = {},
            !.commits = @ \cup Matching(s.commitVotes, b),
            !.commitVotes = {}]

-----------------------------------------------------------------------------
(* ReplicaCore::propose. The loop closes a batch of the pool for as long as     *)
(* the window of blocks in flight has room; the pool is that of AbstractPool.   *)

(* How many blocks may be proposed once r has finalized f blocks.               *)
StaleRoom(r, f) ==
  LET window == MaxInflight - (proposeNum[r] - finalizeNum[r])
      bound == MaxBlock - proposeNum[r]
  IN  IF window < bound THEN window ELSE bound
Room(r, f) ==
  LET window == MaxInflight - (proposeNum[r] - f)
      bound == MaxBlock - proposeNum[r]  \* bound on block numbers
  IN  IF window < bound THEN window ELSE bound

(* The lists of blocks that a loop with room for n blocks may close from the    *)
(* commands in ready: all but the last are full, and it stops for lack of room  *)
(* or of commands.                                                              *)
Closings(ready, n) ==
  {bs \in UNION {[1..i -> SUBSET ready] : i \in 0..n} :
     LET used == UNION {bs[i] : i \in DOMAIN bs} IN
     /\ \A i \in DOMAIN bs : bs[i] # {} /\ Cardinality(bs[i]) <= MaxBatchSize
     /\ \A i, j \in DOMAIN bs : i # j => bs[i] \cap bs[j] = {}
     /\ \A i \in DOMAIN bs : i < Len(bs) => Cardinality(bs[i]) = MaxBatchSize
     /\ used = ready \/ (Len(bs) = n /\ \A i \in DOMAIN bs : Cardinality(bs[i]) = MaxBatchSize)}

PoolCommands(pool) == {[client |-> c, seq |-> pool[c]] : c \in {d \in Client : pool[d] # 0}}

(* The slot of a block that is proposed: the entry of the log is made once.      *)
Fill(s, b) == IF s.block = NoBlock THEN [s EXCEPT !.block = b] ELSE s

(* The part of propose that changes state, once slots and pool are sl, pd, sb    *)
(* and f blocks are finalized: the new blocks enter the log of the primary and   *)
(* their PrePrepare is sent along with the messages in msgs.                     *)
Propose(r, sl, pd, sb, f, msgs) ==
  \E bs \in IF r = Primary THEN Closings(PoolCommands(pd), Room(r, f)) ELSE {<<>>} :
    LET first == proposeNum[r]
        closed == {x.client : x \in UNION {bs[i] : i \in DOMAIN bs}}
    IN  /\ slots' = [slots EXCEPT ![r] =
                       [k \in BlockNum |-> IF k - first \in DOMAIN bs
                                           THEN Fill(sl[k], bs[k - first]) ELSE sl[k]]]
        /\ proposeNum' = [proposeNum EXCEPT ![r] = first + Len(bs)]
        /\ pending' = [pending EXCEPT ![r] = [c \in Client |-> IF c \in closed THEN 0 ELSE pd[c]]]
        /\ submitted' = [submitted EXCEPT ![r] =
                           [c \in Client |-> IF c \in closed THEN pd[c] ELSE sb[c]]]
        /\ sent' = sent \cup msgs \cup {PrePrepare(first + i, bs[i]) : i \in DOMAIN bs}

-----------------------------------------------------------------------------
(* The Request event, from a client or forwarded by a backup.                   *)

(* The pool of r after push(command).                                           *)
PushedAgain(r, command) ==
  [c \in Client |-> IF c = command.client /\ command.seq > pending[r][c]
                    THEN command.seq ELSE pending[r][c]]
Pushed(r, command) ==
  [c \in Client |->
     IF c = command.client /\ command.seq > submitted[r][c] /\ command.seq > pending[r][c]
     THEN command.seq ELSE pending[r][c]]

Request(r, command) ==
  /\ IF r = Primary
     THEN Propose(r, slots[r], Pushed(r, command), submitted[r], finalizeNum[r], {})
     ELSE /\ pending' = [pending EXCEPT ![r] = Pushed(r, command)]
          /\ sent' = sent \cup {Forward(command)}
          /\ UNCHANGED <<slots, proposeNum, submitted>>
  /\ UNCHANGED <<finalizeNum, ticked, ended>>

FinalizedAt(r, command) ==
  \E k \in 1..finalizeNum[r] : command \in slots[r][k].block

(* External: a close loop client sends its next command once num_faulty + 1     *)
(* replicas have replied to the one before, and may send it again at any time.  *)
(* A malicious replica makes requests up.                                       *)
Issued(command) ==
  \/ Malicious # {}
  \/ command.seq = 1
  \/ LET previous == [command EXCEPT !.seq = @ - 1]
     IN  Cardinality({r \in Correct : FinalizedAt(r, previous)})
           >= NumFaulty + 1 - Cardinality(Faulty)

ClientRequest(r, command) ==
  /\ r \in Entry
  /\ Issued(command)
  /\ Request(r, command)

ReceiveForward(command) ==
  /\ Primary \in Correct \ ended
  /\ Forward(command) \in sent
  /\ Request(Primary, command)

-----------------------------------------------------------------------------
(* The messages of the main path. Every handler ends in Settle, with the slot    *)
(* that its votes and quorum checks leave.                                       *)

(* The loop of the CommitQuorum event: finalize while the next block has both    *)
(* of its quorums.                                                               *)
HasQuorums(s) == s.prepareCert # {} /\ s.commitCert # {}
FinalizeNext(r, sl) ==
  IF \E k \in BlockNum : k = finalizeNum[r] + 1 /\ HasQuorums(sl[k])
  THEN finalizeNum[r] + 1 ELSE finalizeNum[r]
FinalizeOverGaps(r, sl) ==
  Max({finalizeNum[r]} \cup {k \in BlockNum : HasQuorums(sl[k])})
FinalizeUpTo(r, sl) ==
  Max({m \in finalizeNum[r]..MaxBlock :
         \A k \in finalizeNum[r] + 1 .. m : HasQuorums(sl[k])})

(* The highest seq of client c that is committed by finalizing the blocks in nums. *)
CommandsOf(b) == IF b = NoBlock THEN {} ELSE b
NextCommittedSeq(sl, nums, c) ==
  Max({0} \cup {x.seq + 1 : x \in {y \in UNION {CommandsOf(sl[k].block) : k \in nums} : y.client = c}})
CommittedSeq(sl, nums, c) ==
  Max({0} \cup {x.seq : x \in {y \in UNION {CommandsOf(sl[k].block) : k \in nums} : y.client = c}})

(* CommitQuorum: finalize, tell the pool of every command, propose.              *)
FinalizeAndPropose(r, sl, msgs) ==
  LET f == FinalizeUpTo(r, sl)
      nums == finalizeNum[r] + 1 .. f
      closedSlots == [k \in BlockNum |-> IF k \in nums THEN CloseScratch(sl[k]) ELSE sl[k]]
      done == [c \in Client |-> CommittedSeq(sl, nums, c)]
      pd == [c \in Client |-> IF pending[r][c] <= done[c] THEN 0 ELSE pending[r][c]]
      sb == [c \in Client |-> IF submitted[r][c] < done[c] THEN done[c] ELSE submitted[r][c]]
  IN  /\ finalizeNum' = [finalizeNum EXCEPT ![r] = f]
      /\ Propose(r, closedSlots, pd, sb, f, msgs)
      /\ UNCHANGED <<ticked, ended>>

(* The slot of number k becomes s. A replica that has just prepared broadcasts   *)
(* its Commit.                                                                   *)
Settle(r, k, s, msgs) ==
  LET sl == [slots[r] EXCEPT ![k] = s]
      prepared == slots[r][k].prepareCert = {} /\ s.prepareCert # {}
      votes == msgs \cup (IF prepared THEN {Commit(r, k, s.block)} ELSE {})
  IN  IF slots[r][k].commitCert = s.commitCert
      THEN /\ slots' = [slots EXCEPT ![r] = sl]
           /\ sent' = sent \cup votes
           /\ UNCHANGED <<proposeNum, finalizeNum, pending, submitted, ticked, ended>>
      ELSE FinalizeAndPropose(r, sl, votes)

(* A backup accepts the first block it is sent for a number. The primary has the *)
(* block of every PrePrepare with its signature.                                 *)
AcceptPrePrepare(r, k, b) ==
  /\ r # Primary
  /\ CanPrePrepare(r, k, b)
  /\ slots[r][k].block = NoBlock
  /\ LET s == OpenScratch(r, [slots[r][k] EXCEPT !.block = b], b)
     IN  Settle(r, k, CheckCommitQuorum(CheckPrepareQuorum(r, s)), {Prepare(r, k, b)})

(* A PrePrepare that is not the first: the votes for the same block are sent     *)
(* again to the primary, another block is ignored. The primary itself has no     *)
(* channel to the primary, and its task ends with that error.                    *)
RepeatVotes(r, k, b) ==
  /\ CanPrePrepare(r, k, b)
  /\ slots[r][k].block # NoBlock
  /\ LET known == slots[r][k].block = b
     IN  /\ ended' = IF known /\ r = Primary THEN ended \cup {r} ELSE ended
         /\ sent' = IF known /\ r # Primary
                    THEN sent \cup {Prepare(r, k, b)}
                              \cup (IF slots[r][k].prepareCert # {} THEN {Commit(r, k, b)} ELSE {})
                    ELSE sent
  /\ UNCHANGED <<slots, proposeNum, finalizeNum, pending, submitted, ticked>>

(* A vote opens the scratch of its number. It is kept until the block is there,  *)
(* and counted when it is for that block.                                        *)
PrepareVoted(r, s, q, b) ==
  IF s.block = NoBlock
  THEN [s EXCEPT !.open = TRUE, !.prepareVotes = @ \cup {[from |-> q, block |-> b]}]
  ELSE IF s.block # b THEN [s EXCEPT !.open = TRUE]
  ELSE CheckCommitQuorum(CheckPrepareQuorum(r,
         [s EXCEPT !.open = TRUE, !.prepares = @ \cup {q}]))

ReceivePrepare(r, q, k, b) ==
  /\ CanPrepare(r, q, k, b)
  /\ ~IsPrepared(r, k)
  /\ Settle(r, k, PrepareVoted(r, slots[r][k], q, b), {})

CommitVoted(s, q, b) ==
  IF s.block = NoBlock
  THEN [s EXCEPT !.open = TRUE, !.commitVotes = @ \cup {[from |-> q, block |-> b]}]
  ELSE IF s.block # b THEN [s EXCEPT !.open = TRUE]
  ELSE CheckCommitQuorum([s EXCEPT !.open = TRUE, !.commits = @ \cup {q}])

ReceiveCommit(r, q, k, b) ==
  /\ CanCommit(r, q, k, b)
  /\ ~IsCommitted(r, k)
  /\ Settle(r, k, CommitVoted(slots[r][k], q, b), {})

-----------------------------------------------------------------------------
(* tick: the primary sends again the PrePrepare of every block that was already  *)
(* proposed at the previous tick and is not committed.                           *)

ResentAfterNext(r) ==
  IF r = Primary
  THEN {PrePrepare(k, slots[r][k].block) :
          k \in {j \in finalizeNum[r] + 2 .. ticked[r] : ~IsCommitted(r, j)}}
  ELSE {}
Resent(r) ==
  IF r = Primary
  THEN {PrePrepare(k, slots[r][k].block) :
          k \in {j \in finalizeNum[r] + 1 .. ticked[r] : ~IsCommitted(r, j)}}
  ELSE {}

Tick(r) ==
  /\ ticked' = [ticked EXCEPT ![r] = proposeNum[r]]
  /\ sent' = sent \cup Resent(r)
  /\ UNCHANGED <<slots, proposeNum, finalizeNum, pending, submitted, ended>>

-----------------------------------------------------------------------------
Init ==
  /\ slots = [r \in Correct |-> [k \in BlockNum |-> EmptySlot]]
  /\ proposeNum = [r \in Correct |-> 0]
  /\ finalizeNum = [r \in Correct |-> 0]
  /\ pending = [r \in Correct |-> [c \in Client |-> 0]]
  /\ submitted = [r \in Correct |-> [c \in Client |-> 0]]
  /\ ticked = [r \in Correct |-> 0]
  /\ sent = {}
  /\ ended = {}

(* Replica r handles one message, if it is the one it is sent.                   *)
Receive(r) ==
  \E k \in BlockNum : \E b \in KnownBlocks :
    \/ AcceptPrePrepare(r, k, b)
    \/ RepeatVotes(r, k, b)
    \/ \E q \in Replica : ReceivePrepare(r, q, k, b) \/ ReceiveCommit(r, q, k, b)

Next ==
  \/ \E r \in Correct \ ended : Receive(r) \/ Tick(r)
  \/ \E command \in Command : \/ \E r \in Correct \ ended : ClientRequest(r, command)
                              \/ ReceiveForward(command)

Spec == Init /\ [][Next]_vars

-----------------------------------------------------------------------------
TypeOK ==
  /\ slots \in [Correct -> [BlockNum -> Slot]]
  /\ proposeNum \in [Correct -> 0..MaxBlock]
  /\ finalizeNum \in [Correct -> 0..MaxBlock]
  /\ pending \in [Correct -> [Client -> 0..MaxSeq]]
  /\ submitted \in [Correct -> [Client -> 0..MaxSeq]]
  /\ ticked \in [Correct -> 0..MaxBlock]
  /\ sent \subseteq Message
  /\ ended \subseteq Correct

(* The blocks replica r has handed to its service, in order.                     *)
FinalizedLog(r) == [k \in 1..finalizeNum[r] |-> slots[r][k].block]

(* The replicas' services execute the same blocks: where two correct replicas     *)
(* have both finalized a number, they finalized the same block, even when the     *)
(* primary proposed several.                                                      *)
Agreement ==
  \A q, r \in Correct :
    \A k \in (1..finalizeNum[q]) \cap (1..finalizeNum[r]) : slots[q][k].block = slots[r][k].block

(* A replica holds a commit quorum for block b only when enough correct replicas  *)
(* stand behind b for b to be in every quorum of num_replica - num_faulty, which a *)
(* view change would have to rely on: they have accepted b and no other block, and *)
(* as long as no malicious replica makes a Commit of a Prepare, "a block is only   *)
(* Commit-ed after it is Prepared" holds of each of them.                          *)
Backers(k, b) ==
  {q \in Correct : /\ slots[q][k].block = b
                   /\ Malicious = {} => slots[q][k].prepareCert # {}}
CommitBacked ==
  \A r \in Correct : \A k \in BlockNum :
    slots[r][k].commitCert # {} =>
      Cardinality(Backers(k, slots[r][k].block)) >= QuorumSize - Cardinality(Faulty)

(* None of the assertions and unwraps of the main path fails, in whatever order   *)
(* proposals, early votes and late votes arrive: a quorum is never replaced, and   *)
(* the scratch is there when the block is finalized ("really?").                  *)
NoPanic == \A r \in Correct : \A k \in BlockNum : ~slots[r][k].failed

(* "every Finalized block is out of the concern of the protocol, so any related    *)
(* bookkeeping should be garbage collected": no late vote opens a scratch again.   *)
ScratchCollected ==
  \A r \in Correct : \A k \in 1..finalizeNum[r] : ~slots[r][k].open

(* With a correct primary, the commands of a client are finalized in the order of  *)
(* their seqs and each only once, although clients and backups send them again.    *)
ClientOrder ==
  \A r \in Correct : \A j, k \in 1..finalizeNum[r] :
    \A x \in slots[r][j].block : \A y \in slots[r][k].block :
      (x.client = y.client /\ j <= k /\ <<j, x>> # <<k, y>>) => (j < k /\ x.seq < y.seq)

(* The primary is never idle: a command waits in its pool only while the window    *)
(* of blocks in flight is full. Every path that empties the window or fills the    *)
(* pool has to call propose.                                                       *)
NeverIdle ==
  (Primary \in Correct /\ PoolCommands(pending[Primary]) # {})
    => \/ proposeNum[Primary] - finalizeNum[Primary] >= MaxInflight
       \/ proposeNum[Primary] = MaxBlock

(* A replica catches up block by block with what it has not finalized: no block    *)
(* with both quorums is left behind the first number that is not final, whichever  *)
(* order the quorums of several blocks in flight complete in.                      *)
FinalizedEagerly ==
  \A r \in Correct : FinalizeUpTo(r, slots[r]) = finalizeNum[r]

(* The replicas implement atomic broadcast of blocks. How many blocks are handed   *)
(* out at once is bounded by the window of a correct primary; a faulty one may     *)
(* propose beyond it.                                                             *)
RunBound == IF Primary \in Correct THEN MaxInflight ELSE MaxBlock
Furthest == CHOOSE r \in Correct : \A q \in Correct : finalizeNum[q] <= finalizeNum[r]

Broadcast == INSTANCE AtomicBroadcast
               WITH Replica <- Correct,
                    MaxRun <- RunBound,
                    log <- FinalizedLog(Furthest),
                    delivered <- finalizeNum

BroadcastSpec == Broadcast!Spec
=============================================================================
