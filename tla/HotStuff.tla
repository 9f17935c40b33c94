------------------------------ MODULE HotStuff ------------------------------
(* The chained HotStuff replicas of src/hotstuff/mod.rs: ReplicaCore, and the   *)
(* Replica around it that disseminates blocks, collects partial signatures and  *)
(* manages the nonces that signing needs.                                       *)
(*                                                                             *)
(* get_leader returns 0, and nothing changes the leader; it is correct here,    *)
(* and some other replicas may be silent. A block is identified by its place in *)
(* the order of proposals, as its digest is collision free; 0 is the genesis.   *)
(* A quorum certificate stands for the block that it certifies. The network     *)
(* delivers every message once, in any order: the QUIC transport opens a stream *)
(* for each message.                                                            *)
EXTENDS Integers, FiniteSets, FiniteSetsExt, Sequences, SequencesExt

CONSTANTS NumReplica,       \* Spec::num_replica
          NumFaulty,        \* Spec::num_faulty
          Silent,           \* replicas that take no step
          SupplySize,       \* CryptoConfig::supply_size
          RefillThreshold,  \* CryptoConfig::refill_threshold
          MaxBatchSize,     \* ReplicaCoreConfig::max_batch_size
          Client,           \* the close loop clients
          MaxSeq,           \* bound: clients number their commands 1..MaxSeq
          Entry             \* the replicas that clients send requests to

Leader == 0
Replica == 0..(NumReplica - 1)
Correct == Replica \ Silent
Backup == Correct \ {Leader}
Command == [client : Client, seq : 1..MaxSeq]

ASSUME ReplicaAssumption == NumReplica \in Nat \ {0} /\ NumFaulty \in Nat
ASSUME SilentAssumption == Silent \subseteq Replica \ {Leader}
(* With a quorum of one the vote of the leader would complete the certificate   *)
(* within the call that proposes.                                               *)
ASSUME QuorumAssumption == NumReplica - NumFaulty > 1
ASSUME SupplyAssumption == SupplySize \in Nat \ {0} /\ RefillThreshold \in Nat
ASSUME BoundAssumption == MaxBatchSize \in Nat \ {0} /\ MaxSeq \in Nat \ {0}
ASSUME EntryAssumption == Entry \subseteq Correct

QuorumSize == NumReplica - NumFaulty

VARIABLES
  blocks,    \* the blocks that the leader has proposed, in this order
  core,      \* core[r]: the ReplicaCore of r, without the blocks
  extra,     \* num_extra_round of the leader
  waiting,   \* waiting[r]: the blocks in reordering_blocks
  signing,   \* signing[r]: the blocks that block_signers has an entry for
  nonces,    \* nonces[r]: the secret nonces r holds
  made,      \* made[r]: how many nonces r has made
  stock,     \* public_commitments_pool: what the leader may reserve, per signer
  scratches, \* the blocks that quorum_cert_scratches has an entry for
  partials,  \* the <<block, signer>> of the partial signatures in it
  network,   \* the messages on their way
  failed,    \* an assertion or an unwrap of Replica has failed
  fallback   \* the leader has reached the todo!() for too few signers, and stops

vars == <<blocks, core, extra, waiting, signing, nonces, made, stock, scratches,
          partials, network, failed, fallback>>

-----------------------------------------------------------------------------
(* The chain, and the messages.                                                *)

Parent(bs, b) == IF b = 0 THEN 0 ELSE bs[b].parent
Justify(bs, b) == IF b = 0 THEN 0 ELSE bs[b].justify
Height(bs, b) == IF b = 0 THEN 0 ELSE bs[b].height
CommandsOf(bs, b) == IF b = 0 THEN {} ELSE bs[b].commands

(* The blocks on the branch that ends in b.                                    *)
Branch(bs, b) ==
  LET up[n \in 0..Len(bs)] == IF n = 0 THEN {0} ELSE {n} \cup up[Parent(bs, n)]
  IN  up[b]

(* The numbers in a set, in order: a block comes after its parent.              *)
Ascending(ns) ==
  [i \in 1..Cardinality(ns) |-> CHOOSE n \in ns : Cardinality({m \in ns : m < n}) = i - 1]

Generic(b, r) == [type |-> "Generic", to |-> r, block |-> b]
VoteGeneric(b, r) == [type |-> "VoteGeneric", from |-> r, block |-> b]
Supply(r, ns) == [type |-> "Supply", from |-> r, nonces |-> ns]

-----------------------------------------------------------------------------
(* The pool of a core, as in AbstractPool.                                      *)

PoolCommands(pool) == {[client |-> c, seq |-> pool[c]] : c \in {d \in Client : pool[d] # 0}}

PushedAgain(s, command) ==
  LET c == command.client
  IN  IF command.seq > s.pending[c] THEN [s EXCEPT !.pending[c] = command.seq] ELSE s

Pushed(s, command) ==
  LET c == command.client
  IN  IF command.seq > s.submitted[c] /\ command.seq > s.pending[c]
      THEN [s EXCEPT !.pending[c] = command.seq] ELSE s

(* close_batch takes the commands in batch.                                    *)
Closed(s, batch) ==
  LET clients == {x.client : x \in batch}
  IN  [s EXCEPT !.pending = [c \in Client |-> IF c \in clients THEN 0 ELSE @[c]],
                !.submitted = [c \in Client |-> IF c \in clients THEN s.pending[c] ELSE @[c]]]

Batches(s) ==
  LET ready == PoolCommands(s.pending)
  IN  {batch \in SUBSET ready :
         Cardinality(batch) = MaxBatchSize \/ (Cardinality(batch) < MaxBatchSize /\ batch = ready)}

(* commit of every command in commands.                                         *)
Committed(s, commands) ==
  LET done(c) == Max({0} \cup {x.seq : x \in {y \in commands : y.client = c}})
  IN  [s EXCEPT !.pending = [c \in Client |-> IF @[c] <= done(c) THEN 0 ELSE @[c]],
                !.submitted = [c \in Client |-> IF @[c] < done(c) THEN done(c) ELSE @[c]]]

-----------------------------------------------------------------------------
(* ReplicaCore.                                                                *)

InitCore ==
  [nodes |-> {0},          \* node_index
   voteHeight |-> 0,       \* vote_height
   lock |-> 0,             \* block_lock
   executed |-> 0,         \* block_execute
   leaf |-> 0,             \* block_leaf
   qcHigh |-> 0,           \* the block of quorum_cert_high
   pending |-> [c \in Client |-> 0],
   submitted |-> [c \in Client |-> 0],
   finalized |-> <<>>,     \* the blocks it has finalized
   votes |-> {}]           \* the Vote actions that are not carried out yet

UpdateQuorumCertHigh(bs, s, b) ==
  IF Height(bs, b) > Height(bs, s.qcHigh) THEN [s EXCEPT !.qcHigh = b, !.leaf = b] ELSE s

ShouldVote(bs, s, b) ==
  /\ Height(bs, b) > s.voteHeight
  /\ \/ s.lock \in Branch(bs, b)
     \/ Height(bs, Justify(bs, b)) > Height(bs, s.lock)

(* on_commit finalizes the branch of b from where it is executed.               *)
ExecutedAgain(bs, s, b) ==
  {n \in Branch(bs, b) : n # 0 /\ Height(bs, n) >= Height(bs, s.executed)}
NotExecuted(bs, s, b) == {n \in Branch(bs, b) : Height(bs, n) > Height(bs, s.executed)}

OnCommit(bs, s, b) ==
  LET new == NotExecuted(bs, s, b)
      t == Committed(s, UNION {CommandsOf(bs, n) : n \in new})
  IN  [t EXCEPT !.finalized = @ \o Ascending(new)]

(* The block that the certificates of b2 and b1 make final: b3, or nothing new.   *)
TwoChain(bs, s, b1, b2, b3) == IF Parent(bs, b1) = b2 THEN b2 ELSE s.executed
ThreeChain(bs, s, b1, b2, b3) ==
  IF Parent(bs, b1) = b2 /\ Parent(bs, b2) = b3 THEN b3 ELSE s.executed

Update(bs, s, b) ==
  LET b1 == Justify(bs, b)
      b2 == Justify(bs, b1)
      b3 == Justify(bs, b2)
      t == UpdateQuorumCertHigh(bs, s, b1)
      u == IF Height(bs, b2) > Height(bs, t.lock) THEN [t EXCEPT !.lock = b2] ELSE t
      final == ThreeChain(bs, s, b1, b2, b3)
  IN  [OnCommit(bs, u, final) EXCEPT !.executed = final]

(* The Proposal event at a backup, and at the leader as Proposed.               *)
Proposal(bs, s, b) ==
  LET t == [s EXCEPT !.nodes = @ \cup {b}]
  IN  Update(bs, IF ShouldVote(bs, s, b)
                 THEN [t EXCEPT !.voteHeight = Height(bs, b), !.votes = @ \cup {b}]
                 ELSE t, b)

Proposed(bs, s, b) ==
  Update(bs, [s EXCEPT !.nodes = @ \cup {b}, !.voteHeight = Height(bs, b), !.leaf = b], b)

(* A backup beats too: when its leaf is certified, which it always is, it closes *)
(* a batch and then drops it, as it is not the leader. Every event adds at most  *)
(* one command, so the batch is all there is.                                   *)
BackupBeat(s) == IF s.qcHigh = s.leaf THEN Closed(s, PoolCommands(s.pending)) ELSE s

-----------------------------------------------------------------------------
(* The nonces of replica r once those in used are gone: below the threshold a   *)
(* new supply is made.                                                          *)

NewSupply(r) == (made[r] + 1) .. (made[r] + SupplySize)
RefillsLate(r, used) == used # {} /\ Cardinality(nonces[r]) < RefillThreshold
Refills(r, used) == used # {} /\ Cardinality(nonces[r] \ used) < RefillThreshold
NoncesReplaced(r, used) == IF Refills(r, used) THEN NewSupply(r) ELSE nonces[r] \ used
NoncesAfter(r, used) ==
  (nonces[r] \ used) \cup (IF Refills(r, used) THEN NewSupply(r) ELSE {})
MadeAfter(r, used) == made[r] + (IF Refills(r, used) THEN SupplySize ELSE 0)

-----------------------------------------------------------------------------
(* The leader.                                                                  *)

(* The first QuorumSize replicas that have a nonce in stock sign the block.      *)
Nominated ==
  LET ready == {r \in Replica : stock[r] # {}}
  IN  {r \in ready : Cardinality({q \in ready : q < r}) < QuorumSize}

(* Rounds of empty blocks that follow one with the commands of batch.            *)
FewExtraRounds(batch) == IF batch = {} THEN extra - 1 ELSE 2
ManyExtraRounds(batch) == IF batch = {} THEN extra - 1 ELSE 4
ExtraAfter(batch) == IF batch = {} THEN extra - 1 ELSE 3

(* The stock when the reserved nonces have been popped.                         *)
StockPeeked(reserved) == stock
StockAfter(reserved) ==
  [r \in Replica |-> IF r \in DOMAIN reserved THEN stock[r] \ {reserved[r]} ELSE stock[r]]

(* on_beat with the Propose action and all it causes: the block is made and      *)
(* sent, handled as Proposed, and voted for. s is the core after the event that  *)
(* made it beat, in and scr, par are the network and the scratches then.        *)
Propose(s, batch, in, scr, par) ==
  LET reserved == [r \in Nominated |-> Max(stock[r])]
      block == [parent |-> s.leaf, justify |-> s.qcHigh,
                height |-> Height(blocks, s.leaf) + 1, commands |-> batch,
                reserved |-> reserved]
      b == Len(blocks) + 1
      bs == Append(blocks, block)
      used == {reserved[r] : r \in Nominated \cap {Leader}}
  IN  /\ extra' = ExtraAfter(batch)
      /\ IF Cardinality(Nominated) < QuorumSize
         THEN /\ fallback' = TRUE
              /\ core' = [core EXCEPT ![Leader] = s]
              /\ network' = in /\ scratches' = scr /\ partials' = par
              /\ UNCHANGED <<blocks, nonces, made, stock, failed>>
         ELSE /\ blocks' = bs
              /\ core' = [core EXCEPT ![Leader] = Proposed(bs, s, b)]
              /\ network' = in \cup {Generic(b, r) : r \in Backup}
              /\ scratches' = scr \cup {b}
              /\ partials' = par \cup {<<b, r>> : r \in Nominated \cap {Leader}}
              /\ nonces' = [nonces EXCEPT ![Leader] = NoncesAfter(Leader, used)]
              /\ made' = [made EXCEPT ![Leader] = MadeAfter(Leader, used)]
              /\ stock' = IF Refills(Leader, used)
                          THEN [StockAfter(reserved) EXCEPT ![Leader] = NewSupply(Leader)]
                          ELSE StockAfter(reserved)
              /\ failed' = (failed \/ b \in s.nodes \/ ~ShouldVote(bs, s, b)
                                   \/ ~(used \subseteq nonces[Leader]))
              /\ UNCHANGED fallback

(* beat at the leader: it proposes when its leaf is certified and there are      *)
(* commands, or a block that the next rounds still have to make final.          *)
LeaderBeat(s, in, scr, par) ==
  IF s.qcHigh = s.leaf /\ (PoolCommands(s.pending) # {} \/ extra > 0)
  THEN \E batch \in Batches(s) : Propose(Closed(s, batch), batch, in, scr, par)
  ELSE /\ core' = [core EXCEPT ![Leader] = s]
       /\ network' = in /\ scratches' = scr /\ partials' = par
       /\ UNCHANGED <<blocks, extra, nonces, made, stock, failed, fallback>>

(* add_partial: what comes of a block once the shares of signers are there. There *)
(* are as many shares as a certificate takes, but they are aggregated only when    *)
(* they are those of the nominated signers.                                       *)
AddPartial(b, signers) ==
  IF Cardinality(signers) < QuorumSize THEN "None"
  ELSE IF DOMAIN blocks[b].reserved \subseteq signers THEN "Sig" ELSE "Err"

(* The message of a nominated signer. The last one completes the certificate.    *)
ReceiveVote(b, r) ==
  /\ ~fallback
  /\ VoteGeneric(b, r) \in network
  /\ LET in == network \ {VoteGeneric(b, r)}
         par == partials \cup {<<b, r>>}
         signed == {p \in par : p[1] = b}
         result == AddPartial(b, {p[2] : p \in signed})
     IN  IF b \notin scratches \/ result # "Sig"
         THEN /\ failed' = (failed \/ b \notin scratches)
              /\ fallback' = (b \in scratches /\ result = "Err")
              /\ partials' = IF b \in scratches THEN par ELSE partials
              /\ network' = in
              /\ UNCHANGED <<blocks, core, extra, nonces, made, stock, scratches>>
         ELSE LeaderBeat(UpdateQuorumCertHigh(blocks, core[Leader], b),
                         in, scratches \ {b}, par \ signed)
  /\ UNCHANGED <<waiting, signing>>

ReceiveSupply(r) ==
  /\ ~fallback
  /\ \E m \in {n \in network : n.type = "Supply" /\ n.from = r} :
       /\ stock' = [stock EXCEPT ![r] = @ \cup m.nonces]
       /\ network' = network \ {m}
  /\ UNCHANGED <<blocks, core, extra, waiting, signing, nonces, made, scratches, partials,
                 failed, fallback>>

-----------------------------------------------------------------------------
(* The backups.                                                                 *)

(* The blocks that wait for b, for one that waits for b, and so on, after b.     *)
UnblockedChildren(r, b) == Ascending({b} \cup {w \in waiting[r] : Parent(blocks, w) = b})
Unblocked(r, b) ==
  Ascending({b} \cup {w \in waiting[r] :
                        b \in Branch(blocks, w)
                          /\ Branch(blocks, w) \ core[r].nodes \subseteq waiting[r] \cup {b}})

(* A block is handled unless its certified block is missing.                    *)
HandleProposal(s, b) ==
  IF Justify(blocks, b) \in s.nodes THEN BackupBeat(Proposal(blocks, s, b)) ELSE s

(* The core of r when it has handled the blocks in order.                       *)
Handled(r, order) ==
  LET after[i \in 0..Len(order)] ==
        IF i = 0 THEN core[r] ELSE HandleProposal(after[i - 1], order[i])
  IN  after[Len(order)]

(* Carry out the Vote actions of core s at r, which has received block b.        *)
Vote(r, b, s, in) ==
  LET nominated == {v \in s.votes : r \in DOMAIN blocks[v].reserved}
      used == {blocks[v].reserved[r] : v \in nominated}
  IN  /\ core' = [core EXCEPT ![r] = [s EXCEPT !.votes = {}]]
      /\ signing' = [signing EXCEPT ![r] = (@ \cup {b}) \ s.votes]
      /\ nonces' = [nonces EXCEPT ![r] = NoncesAfter(r, used)]
      /\ made' = [made EXCEPT ![r] = MadeAfter(r, used)]
      /\ network' = in \cup {VoteGeneric(v, r) : v \in nominated}
                       \cup (IF Refills(r, used) THEN {Supply(r, NewSupply(r))} ELSE {})

ReceiveGeneric(r, b) ==
  /\ r \in Backup
  /\ Generic(b, r) \in network
  /\ LET in == network \ {Generic(b, r)} IN
     IF Parent(blocks, b) \notin core[r].nodes
     THEN /\ waiting' = [waiting EXCEPT ![r] = @ \cup {b}]
          /\ signing' = [signing EXCEPT ![r] = @ \cup {b}]
          /\ network' = in
          /\ failed' = (failed \/ b \in signing[r])
          /\ UNCHANGED <<core, nonces, made>>
     ELSE LET s == Handled(r, Unblocked(r, b))
              used == {blocks[v].reserved[r] : v \in {w \in s.votes : r \in DOMAIN blocks[w].reserved}}
          IN  /\ waiting' = [waiting EXCEPT ![r] = (@ \cup {b}) \ s.nodes]
              /\ failed' = (failed \/ b \in signing[r] \/ b \in core[r].nodes
                                   \/ ~(s.votes \subseteq signing[r] \cup {b})
                                   \/ ~(used \subseteq nonces[r]))
              /\ Vote(r, b, s, in)
  /\ UNCHANGED <<blocks, extra, stock, scratches, partials, fallback>>

-----------------------------------------------------------------------------
(* The clients.                                                                 *)

FinalizedCommands(r) == UNION {CommandsOf(blocks, b) : b \in ToSet(core[r].finalized)}

(* External: a close loop client sends its next command to all replicas once     *)
(* num_faulty + 1 of them have replied to the one before. A request may arrive   *)
(* at any later time, and again.                                                *)
Issued(command) ==
  command.seq = 1 \/ Cardinality({r \in Correct :
                       [command EXCEPT !.seq = @ - 1] \in FinalizedCommands(r)}) > NumFaulty

RequestLeader(command) ==
  /\ Leader \in Entry /\ ~fallback /\ Issued(command)
  /\ LeaderBeat(Pushed(core[Leader], command), network, scratches, partials)
  /\ UNCHANGED <<waiting, signing>>

RequestBackup(r, command) ==
  /\ r \in Entry \cap Backup /\ Issued(command)
  /\ core' = [core EXCEPT ![r] = BackupBeat(Pushed(@, command))]
  /\ UNCHANGED <<blocks, extra, waiting, signing, nonces, made, stock, scratches, partials,
                 network, failed, fallback>>

-----------------------------------------------------------------------------
(* init has run: every replica has made a supply of nonces; those of the backups *)
(* are on their way to the leader.                                              *)
Init ==
  /\ blocks = <<>>
  /\ core = [r \in Correct |-> InitCore]
  /\ extra = 0
  /\ waiting = [r \in Correct |-> {}]
  /\ signing = [r \in Correct |-> {}]
  /\ nonces = [r \in Correct |-> 1..SupplySize]
  /\ made = [r \in Correct |-> SupplySize]
  /\ stock = [r \in Replica |-> IF r = Leader THEN 1..SupplySize ELSE {}]
  /\ scratches = {} /\ partials = {}
  /\ network = {Supply(r, 1..SupplySize) : r \in Backup}
  /\ failed = FALSE /\ fallback = FALSE

Next ==
  \/ \E r \in Backup : ReceiveSupply(r) \/ \E b \in DOMAIN blocks : \/ ReceiveGeneric(r, b)
                                                                    \/ ReceiveVote(b, r)
  \/ \E command \in Command : \/ RequestLeader(command)
                              \/ \E r \in Backup : RequestBackup(r, command)

Spec == Init /\ [][Next]_vars

(* Every message is eventually delivered and handled. This is weak fairness of    *)
(* the three receptions; that a reception is enabled while its message waits and  *)
(* the leader runs is spelled out, as TLC evaluates ENABLED of them very slowly.  *)
ReceiveAnyGeneric(r) == \E b \in DOMAIN blocks : ReceiveGeneric(r, b)
ReceiveAnyVote(r) == \E b \in DOMAIN blocks : ReceiveVote(b, r)
GenericWaits(r) == \E b \in DOMAIN blocks : Generic(b, r) \in network
VoteWaits(r) == ~fallback /\ \E b \in DOMAIN blocks : VoteGeneric(b, r) \in network
SupplyWaits(r) == ~fallback /\ \E m \in network : m.type = "Supply" /\ m.from = r

FairSpec ==
  /\ Spec
  /\ \A r \in Backup :
       /\ []<>~GenericWaits(r) \/ []<><<ReceiveAnyGeneric(r)>>_vars
       /\ []<>~VoteWaits(r) \/ []<><<ReceiveAnyVote(r)>>_vars
       /\ []<>~SupplyWaits(r) \/ []<><<ReceiveSupply(r)>>_vars

-----------------------------------------------------------------------------
(* No assertion and no unwrap fails: the leader may always vote for its own       *)
(* block, every partial signature finds its scratch, every nominated signer still *)
(* holds the nonce that was reserved for it, and no block is entered twice.       *)
NoPanic == ~failed

(* A nonce signs at most one block; a second signature with it would reveal the   *)
(* key share. The stock of the leader and the supplies that cross with proposals  *)
(* hand out each nonce once, also when a refill replaces the leader's own stock.  *)
NonceOnce ==
  /\ \A i, j \in DOMAIN blocks : \A r \in DOMAIN blocks[i].reserved \cap DOMAIN blocks[j].reserved :
       i # j => blocks[i].reserved[r] # blocks[j].reserved[r]
  /\ \A i \in DOMAIN blocks : \A r \in DOMAIN blocks[i].reserved :
       blocks[i].reserved[r] \notin stock[r]

(* What a replica finalizes is locked by num_replica - num_faulty replicas: none   *)
(* of them votes for a branch without it unless shown a later certificate, which   *)
(* is what a new leader could rely on.                                            *)
FinalizedLocked ==
  \A r \in Correct : \A b \in ToSet(core[r].finalized) :
    Cardinality({q \in Correct : b \in Branch(blocks, core[q].lock)}) >= QuorumSize

(* A block that waits in the reorder buffer waits for something: as soon as its    *)
(* parent is handled, so is the block.                                             *)
NothingLeftBehind ==
  \A r \in Correct : \A b \in waiting[r] : Parent(blocks, b) \notin core[r].nodes

(* "keep proposing (even empty nodes) as long as there exists (nonempty) node that *)
(* is not deep enough to be committed": when the leader rests, its pool is empty    *)
(* and it has finalized every command it has proposed. Nor does it propose more     *)
(* empty blocks than that takes: at most three follow one with commands.            *)
RestsWhenDone ==
  core[Leader].qcHigh = core[Leader].leaf /\ ~fallback =>
    /\ PoolCommands(core[Leader].pending) = {}
    /\ \A i \in DOMAIN blocks : blocks[i].commands \subseteq FinalizedCommands(Leader)

NoWastedRounds ==
  \A i \in DOMAIN blocks :
    blocks[i].commands = {} => \E j \in (i - 3)..(i - 1) : j > 0 /\ blocks[j].commands # {}

RoundsAsNeeded == RestsWhenDone /\ NoWastedRounds

(* The leader is short of signers only while a supply is on its way to it: every   *)
(* replica makes the next supply when it votes with the last nonce it has.         *)
RunsDryOnlyInFlight ==
  fallback /\ RefillThreshold > 0 => \E m \in network : m.type = "Supply"

(* The commands of a client are finalized in the order of their seqs, each once,   *)
(* although they reach every replica, at any time and repeatedly.                  *)
ClientOrder ==
  \A r \in Correct : LET log == core[r].finalized IN
    \A j, k \in DOMAIN log :
      \A x \in CommandsOf(blocks, log[j]) : \A y \in CommandsOf(blocks, log[k]) :
        (x.client = y.client /\ j <= k /\ <<j, x>> # <<k, y>>) => (j < k /\ x.seq < y.seq)

(* The replicas implement atomic broadcast of blocks.                              *)
Broadcast == INSTANCE AtomicBroadcast
               WITH Replica <- Correct,
                    NoBlock <- 0,
                    MaxRun <- 1,
                    log <- core[Leader].finalized,
                    delivered <- [r \in Correct |-> Len(core[r].finalized)]

BroadcastSpec == Broadcast!Spec

(* Every command the leader accepts is eventually final at every replica, unless    *)
(* the leader runs out of signers.                                                 *)
AllFinalized ==
  \A command \in Command :
    (core[Leader].pending[command.client] = command.seq
       \/ \E i \in DOMAIN blocks : command \in blocks[i].commands)
      ~> (fallback \/ \A r \in Correct : command \in FinalizedCommands(r))
=============================================================================
