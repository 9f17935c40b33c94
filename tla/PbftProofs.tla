----------------------------- MODULE PbftProofs -----------------------------
(* Proofs about Pbft, for any number of replicas, clients and blocks.         *)
EXTENDS Pbft, SetLemmas

(* In the slots all of the replicas, q has accepted b as block k, and prepared  *)
(* it if nobody makes a Commit of its Prepare, unless it is faulty.             *)
Backed(all, q, k, b) ==
  q \in Correct => /\ all[q][k].block = b /\ b # NoBlock
                   /\ Malicious = {} => all[q][k].prepareCert # {}

(* Every Commit counted or kept in slot s, of number k at replica r, is backed; *)
(* a commit quorum has its size.                                                *)
SlotBacked(all, r, k, s) ==
  /\ s.block = NoBlock => s.prepareCert = {} /\ s.commits = {} /\ s.commitCert = {}
  /\ \A v \in s.commitVotes : Backed(all, v.from, k, v.block)
  /\ \A q \in s.commits \cup s.commitCert :
       IF q = r THEN Malicious = {} => s.prepareCert # {} ELSE Backed(all, q, k, s.block)
  /\ s.commitCert = {} \/ Cardinality(s.commitCert) >= QuorumSize

SlotsBacked == \A r \in Correct : \A k \in BlockNum : SlotBacked(slots, r, k, slots[r][k])

(* A correct replica signs a vote only for the block it has accepted, and sends *)
(* it as a Commit only for what it has prepared.                                *)
VotesBacked ==
  \A q \in Correct : \A k \in BlockNum : \A b \in Block :
    /\ Prepare(q, k, b) \in sent => slots[q][k].block = b
    /\ Commit(q, k, b) \in sent => slots[q][k].block = b /\ slots[q][k].prepareCert # {}

(* What is finalized has a commit quorum.                                       *)
FinalizedCommitted ==
  \A r \in Correct : \A k \in 1..finalizeNum[r] : slots[r][k].commitCert # {}

(* The primary has a block for every number it proposed, so it can send it       *)
(* again.                                                                        *)
ProposedKept ==
  /\ \A r \in Correct : ticked[r] <= proposeNum[r]
  /\ Primary \in Correct =>
       \A k \in 1..proposeNum[Primary] : slots[Primary][k].block # NoBlock

(* The inductive invariant.                                                      *)
PbftInv ==
  /\ TypeOK
  /\ SlotsBacked
  /\ VotesBacked
  /\ FinalizedCommitted
  /\ ProposedKept

-----------------------------------------------------------------------------
(* The quorum checks and the end of a scratch, field by field.                   *)

LEMMA CheckPrepareQuorumResult ==
  ASSUME NEW r \in Replica, NEW s \in Slot, NEW t, t = CheckPrepareQuorum(r, s)
  PROVE  /\ t \in Slot
         /\ t.block = s.block /\ t.commitVotes = s.commitVotes /\ t.commitCert = s.commitCert
         /\ \/ t.prepareCert = s.prepareCert /\ t.commits = s.commits
            \/ t.prepareCert = s.prepares /\ t.commits = s.commits \cup {r}
BY DEF CheckPrepareQuorum, Slot

LEMMA CheckCommitQuorumResult ==
  ASSUME NEW s \in Slot, NEW t, t = CheckCommitQuorum(s)
  PROVE  /\ t \in Slot
         /\ t.block = s.block /\ t.commitVotes = s.commitVotes
         /\ t.prepareCert = s.prepareCert
         /\ \/ t.commitCert = s.commitCert /\ t.commits = s.commits
            \/ /\ t.commitCert = s.commits /\ t.commits = {}
               /\ Cardinality(s.commits) >= QuorumSize /\ s.prepareCert # {}
BY DEF CheckCommitQuorum, Slot

LEMMA CloseScratchResult ==
  ASSUME NEW s \in Slot, NEW t, t = CloseScratch(s)
  PROVE  /\ t \in Slot
         /\ t.block = s.block /\ t.prepareCert = s.prepareCert /\ t.commitCert = s.commitCert
         /\ t.commits = {} /\ t.commitVotes = {}
BY DEF CloseScratch, Slot

LEMMA OpenScratchResult ==
  ASSUME NEW r \in Replica, NEW b \in Block, NEW s \in Slot, s.block = b,
         NEW t, t = OpenScratch(r, s, b)
  PROVE  /\ t \in Slot
         /\ t.block = b /\ t.prepareCert = s.prepareCert /\ t.commitCert = s.commitCert
         /\ t.commits = s.commits \cup Matching(s.commitVotes, b) /\ t.commitVotes = {}
         /\ t.prepares # {}
<1>1. Matching(s.prepareVotes, b) \subseteq Replica /\ Matching(s.commitVotes, b) \subseteq Replica
  BY DEF Matching, Slot, Vote
<1> QED BY <1>1 DEF OpenScratch, Slot

-----------------------------------------------------------------------------
(* What Propose and the finalizing loop leave of a slot: they close scratches    *)
(* and fill in blocks where there is none.                                       *)
Kept(s, t) ==
  /\ t \in Slot
  /\ s.block # NoBlock => t.block = s.block
  /\ t.prepareCert = s.prepareCert /\ t.commitCert = s.commitCert
  /\ t.commits \subseteq s.commits /\ t.commitVotes \subseteq s.commitVotes

LEMMA FillResult ==
  ASSUME NEW s \in Slot, NEW b \in Block
  PROVE  Kept(s, Fill(s, b)) /\ Fill(s, b).block # NoBlock
<1>1. b # NoBlock
  BY NoBlockAssumption
<1> QED BY <1>1 DEF Kept, Fill, Slot

Pool == [Client -> 0..MaxSeq]

(* What the loop of propose does, whoever calls it.                              *)
ProposeEffect(r, sl, msgs) ==
  /\ slots' = [slots EXCEPT ![r] = slots'[r]]
  /\ slots'[r] \in [BlockNum -> Slot]
  /\ \A k \in BlockNum : Kept(sl[k], slots'[r][k])
  /\ proposeNum' \in [Correct -> 0..MaxBlock]
  /\ \A q \in Correct : /\ proposeNum'[q] >= proposeNum[q]
                        /\ q # r => proposeNum'[q] = proposeNum[q]
  /\ \A k \in proposeNum[r] + 1 .. proposeNum'[r] : slots'[r][k].block # NoBlock
  /\ pending' \in [Correct -> Pool] /\ submitted' \in [Correct -> Pool]
  /\ \E P \in SUBSET Message : /\ sent' = sent \cup msgs \cup P
                               /\ \A m \in P : m.type = "PrePrepare"

LEMMA ProposeResult ==
  ASSUME TypeOK, NEW r \in Correct, NEW sl \in [BlockNum -> Slot], NEW pd \in Pool, NEW sb \in Pool,
         NEW f \in 0..MaxBlock, NEW msgs \in SUBSET Message, Propose(r, sl, pd, sb, f, msgs)
  PROVE  ProposeEffect(r, sl, msgs)
<1> DEFINE ready == PoolCommands(pd)
           first == proposeNum[r]
<1>1. PICK bs \in IF r = Primary THEN Closings(ready, Room(r, f)) ELSE {<<>>} :
        /\ slots' = [slots EXCEPT ![r] =
                       [k \in BlockNum |-> IF k - first \in DOMAIN bs
                                           THEN Fill(sl[k], bs[k - first]) ELSE sl[k]]]
        /\ proposeNum' = [proposeNum EXCEPT ![r] = first + Len(bs)]
        /\ pending' = [pending EXCEPT ![r] =
             [c \in Client |-> IF c \in {x.client : x \in UNION {bs[i] : i \in DOMAIN bs}} THEN 0 ELSE pd[c]]]
        /\ submitted' = [submitted EXCEPT ![r] =
             [c \in Client |-> IF c \in {x.client : x \in UNION {bs[i] : i \in DOMAIN bs}} THEN pd[c] ELSE sb[c]]]
        /\ sent' = sent \cup msgs \cup {PrePrepare(first + i, bs[i]) : i \in DOMAIN bs}
  BY DEF Propose
<1>2. first \in 0..MaxBlock /\ MaxBlock \in Nat /\ MaxInflight \in Nat /\ finalizeNum[r] \in 0..MaxBlock
  BY BoundAssumption DEF TypeOK
<1>3. ready \subseteq Command
  BY DEF PoolCommands, Command, Pool
<1>4. PICK n \in Nat : bs \in [1..n -> SUBSET Command] /\ n <= MaxBlock - first
  <2>1. CASE r = Primary
    <3>1. bs \in Closings(ready, Room(r, f))
      BY <1>1, <2>1
    <3>2. Room(r, f) \in Int /\ Room(r, f) <= MaxBlock - first
      BY <1>2 DEF Room
    <3>3. PICK n \in 0..Room(r, f) : bs \in [1..n -> SUBSET ready]
      BY <3>1 DEF Closings
    <3>4. n \in Nat /\ n <= MaxBlock - first
      BY <1>2, <3>2
    <3> QED BY <1>3, <3>3, <3>4
  <2>2. CASE r # Primary
    <3>1. bs = <<>> /\ bs \in [1..0 -> SUBSET Command]
      BY <1>1, <2>2
    <3> QED BY <1>2, <3>1
  <2> QED BY <2>1, <2>2
<1>5. DOMAIN bs = 1..n /\ Len(bs) = n /\ \A i \in 1..n : bs[i] \in Block /\ bs[i] # NoBlock
  BY <1>4, NoBlockAssumption DEF Block
<1>6. slots \in [Correct -> [BlockNum -> Slot]] /\ proposeNum \in [Correct -> 0..MaxBlock]
      /\ pending \in [Correct -> Pool] /\ submitted \in [Correct -> Pool]
  BY DEF TypeOK, Pool
<1>7. \A k \in BlockNum : slots'[r][k] = IF k - first \in 1..n
                                         THEN Fill(sl[k], bs[k - first]) ELSE sl[k]
  BY <1>1, <1>5, <1>6
<1>8. \A k \in BlockNum : Kept(sl[k], slots'[r][k])
  <2> TAKE k \in BlockNum
  <2>1. Kept(sl[k], sl[k])
    BY DEF Kept
  <2>2. CASE k - first \in 1..n
    BY <1>5, <1>7, <2>2, FillResult
  <2> QED BY <1>7, <2>1, <2>2
<1>9. /\ slots' = [slots EXCEPT ![r] = slots'[r]]
      /\ slots'[r] \in [BlockNum -> Slot]
  <2>1. slots'[r] = [k \in BlockNum |-> slots'[r][k]]
    BY <1>1, <1>6
  <2>2. \A k \in BlockNum : slots'[r][k] \in Slot
    BY <1>8 DEF Kept
  <2> QED BY <1>1, <1>6, <2>1, <2>2
<1>10. /\ proposeNum' \in [Correct -> 0..MaxBlock]
       /\ \A q \in Correct : /\ proposeNum'[q] >= proposeNum[q]
                             /\ q # r => proposeNum'[q] = proposeNum[q]
       /\ proposeNum'[r] = first + n
  BY <1>1, <1>2, <1>4, <1>5, <1>6
<1>11. \A k \in first + 1 .. proposeNum'[r] : slots'[r][k].block # NoBlock
  <2> TAKE k \in first + 1 .. proposeNum'[r]
  <2>1. k \in BlockNum /\ k - first \in 1..n
    BY <1>2, <1>4, <1>10 DEF BlockNum
  <2> QED BY <1>5, <1>7, <2>1, FillResult
<1>12. pending' \in [Correct -> Pool] /\ submitted' \in [Correct -> Pool]
  <2> DEFINE closed == {x.client : x \in UNION {bs[i] : i \in DOMAIN bs}}
  <2>1. 0 \in 0..MaxSeq
    BY BoundAssumption
  <2>2. [c \in Client |-> IF c \in closed THEN 0 ELSE pd[c]] \in Pool
    BY <2>1 DEF Pool
  <2>3. [c \in Client |-> IF c \in closed THEN pd[c] ELSE sb[c]] \in Pool
    BY DEF Pool
  <2> HIDE DEF closed
  <2> QED BY <1>1, <1>6, <2>2, <2>3 DEF closed
<1>13. \E P \in SUBSET Message : /\ sent' = sent \cup msgs \cup P
                                 /\ \A m \in P : m.type = "PrePrepare"
  <2> DEFINE P == {PrePrepare(first + i, bs[i]) : i \in DOMAIN bs}
  <2>1. \A i \in 1..n : first + i \in BlockNum
    BY <1>2, <1>4 DEF BlockNum
  <2>2. \A m \in P : m \in Message /\ m.type = "PrePrepare"
    BY <1>5, <2>1 DEF PrePrepare, Message
  <2> QED BY <1>1, <2>2
<1> QED BY <1>8, <1>9, <1>10, <1>11, <1>12, <1>13 DEF ProposeEffect

-----------------------------------------------------------------------------
(* How far the finalizing loop goes.                                             *)
LEMMA FinalizeUpToResult ==
  ASSUME TypeOK, NEW r \in Correct, NEW sl
  PROVE  /\ FinalizeUpTo(r, sl) \in finalizeNum[r]..MaxBlock
         /\ FinalizeUpTo(r, sl) \in 0..MaxBlock
         /\ \A k \in finalizeNum[r] + 1 .. FinalizeUpTo(r, sl) : HasQuorums(sl[k])
<1> DEFINE S == {m \in finalizeNum[r]..MaxBlock :
                   \A k \in finalizeNum[r] + 1 .. m : HasQuorums(sl[k])}
<1>1. finalizeNum[r] \in 0..MaxBlock /\ MaxBlock \in Nat
  BY BoundAssumption DEF TypeOK
<1>2. finalizeNum[r] \in S /\ S \in SUBSET (0..MaxBlock)
  BY <1>1
<1>3. Max(S) \in S
  <2> HIDE DEF S
  <2> QED BY <1>1, <1>2, MaxExists
<1>4. FinalizeUpTo(r, sl) = Max(S)
  BY DEF FinalizeUpTo
<1>5. FinalizeUpTo(r, sl) \in S
  BY <1>3, <1>4
<1> QED BY <1>1, <1>5

LEMMA CommittedSeqType ==
  ASSUME NEW sl \in [BlockNum -> Slot], NEW nums \in SUBSET BlockNum, NEW c \in Client
  PROVE  CommittedSeq(sl, nums, c) \in 0..MaxSeq
<1> DEFINE S == {0} \cup {x.seq : x \in {y \in UNION {CommandsOf(sl[k].block) : k \in nums} : y.client = c}}
<1>1. \A k \in nums : CommandsOf(sl[k].block) \subseteq Command
  BY DEF Slot, CommandsOf, Block
<1>2. S \subseteq 0..MaxSeq /\ S # {} /\ MaxSeq \in Nat
  BY <1>1, BoundAssumption DEF Command
<1>3. Max(S) \in S
  <2> HIDE DEF S
  <2> QED BY <1>2, MaxExists
<1> QED BY <1>2, <1>3 DEF CommittedSeq

(* What a handler leaves of the slots sl that its votes and checks led to: they   *)
(* are kept, and the numbers that are final have a commit quorum.                 *)
SettleEffect(r, sl, msgs) ==
  /\ ProposeEffect(r, sl, msgs)
  /\ ticked' = ticked /\ ended' \subseteq Correct
  /\ finalizeNum' \in [Correct -> 0..MaxBlock]
  /\ \A q \in Correct : q # r => finalizeNum'[q] = finalizeNum[q]
  /\ \A j \in finalizeNum[r] + 1 .. finalizeNum'[r] : slots'[r][j].commitCert # {}

LEMMA FinalizeAndProposeResult ==
  ASSUME TypeOK, NEW r \in Correct, NEW k \in BlockNum, NEW s \in Slot,
         NEW sl, sl = [slots[r] EXCEPT ![k] = s], NEW msgs \in SUBSET Message,
         FinalizeAndPropose(r, sl, msgs)
  PROVE  SettleEffect(r, sl, msgs)
<1> DEFINE f == FinalizeUpTo(r, sl)
           nums == finalizeNum[r] + 1 .. f
           closedSlots == [j \in BlockNum |-> IF j \in nums THEN CloseScratch(sl[j]) ELSE sl[j]]
           done == [c \in Client |-> CommittedSeq(sl, nums, c)]
           pd == [c \in Client |-> IF pending[r][c] <= done[c] THEN 0 ELSE pending[r][c]]
           sb == [c \in Client |-> IF submitted[r][c] < done[c] THEN done[c] ELSE submitted[r][c]]
<1>1. /\ finalizeNum' = [finalizeNum EXCEPT ![r] = f]
      /\ Propose(r, closedSlots, pd, sb, f, msgs)
      /\ UNCHANGED <<ticked, ended>>
  BY DEF FinalizeAndPropose
<1>2. sl \in [BlockNum -> Slot]
  BY DEF TypeOK
<1>3. /\ f \in finalizeNum[r]..MaxBlock /\ f \in 0..MaxBlock
      /\ \A j \in nums : HasQuorums(sl[j])
  BY FinalizeUpToResult
<1>4. finalizeNum \in [Correct -> 0..MaxBlock] /\ MaxBlock \in Nat
  BY BoundAssumption DEF TypeOK
<1>5. nums \in SUBSET BlockNum
  BY <1>3, <1>4 DEF BlockNum
<1>6. \A j \in BlockNum : closedSlots[j] \in Slot /\ Kept(sl[j], closedSlots[j])
  <2> TAKE j \in BlockNum
  <2>1. sl[j] \in Slot
    BY <1>2
  <2>2. CloseScratch(sl[j]) \in Slot /\ Kept(sl[j], CloseScratch(sl[j]))
    BY <2>1, CloseScratchResult DEF Kept
  <2>3. Kept(sl[j], sl[j])
    BY <2>1 DEF Kept
  <2> QED BY <2>1, <2>2, <2>3
<1>7. closedSlots \in [BlockNum -> Slot]
  BY <1>6
<1>8. done \in Pool
  BY <1>2, <1>5, CommittedSeqType DEF Pool
<1>9. pd \in Pool /\ sb \in Pool
  <2> HIDE DEF done
  <2>1. pending[r] \in Pool /\ submitted[r] \in Pool /\ 0 \in 0..MaxSeq
    BY BoundAssumption DEF TypeOK, Pool
  <2> QED BY <1>8, <2>1 DEF Pool
<1> HIDE DEF f, closedSlots, pd, sb
<1>10. ProposeEffect(r, closedSlots, msgs)
  BY <1>1, <1>3, <1>7, <1>9, ProposeResult
<1>11. \A j \in BlockNum : Kept(sl[j], slots'[r][j])
  BY <1>6, <1>10 DEF Kept, ProposeEffect
<1>12. \A j \in finalizeNum[r] + 1 .. finalizeNum'[r] : slots'[r][j].commitCert # {}
  <2> TAKE j \in finalizeNum[r] + 1 .. finalizeNum'[r]
  <2>1. finalizeNum'[r] = f
    BY <1>1, <1>4
  <2>2. HasQuorums(sl[j]) /\ j \in BlockNum
    BY <1>3, <1>5, <2>1
  <2> QED BY <1>11, <2>2 DEF HasQuorums, Kept
<1>13. /\ finalizeNum' \in [Correct -> 0..MaxBlock]
       /\ \A q \in Correct : q # r => finalizeNum'[q] = finalizeNum[q]
  BY <1>1, <1>3, <1>4
<1>14. ended' \subseteq Correct
  BY <1>1 DEF TypeOK
<1> QED BY <1>1, <1>10, <1>11, <1>12, <1>13, <1>14 DEF SettleEffect, ProposeEffect

(* The Commit that Settle adds to the messages.                                   *)
Votes(r, k, s, msgs) ==
  msgs \cup (IF slots[r][k].prepareCert = {} /\ s.prepareCert # {}
             THEN {Commit(r, k, s.block)} ELSE {})

LEMMA SettleResult ==
  ASSUME TypeOK, NEW r \in Correct, NEW k \in BlockNum, NEW s \in Slot,
         s.prepareCert # {} => s.block \in Block,
         NEW sl, sl = [slots[r] EXCEPT ![k] = s], NEW msgs \in SUBSET Message, Settle(r, k, s, msgs)
  PROVE  SettleEffect(r, sl, Votes(r, k, s, msgs)) /\ Votes(r, k, s, msgs) \in SUBSET Message
<1> DEFINE votes == Votes(r, k, s, msgs)
<1>1. votes \in SUBSET Message
  BY DEF Votes, Message, Commit, Correct
<1>2. IF slots[r][k].commitCert = s.commitCert
      THEN /\ slots' = [slots EXCEPT ![r] = sl]
           /\ sent' = sent \cup votes
           /\ UNCHANGED <<proposeNum, finalizeNum, pending, submitted, ticked, ended>>
      ELSE FinalizeAndPropose(r, sl, votes)
  BY DEF Settle, Votes
<1> HIDE DEF votes
<1>3. CASE slots[r][k].commitCert # s.commitCert
  BY <1>1, <1>2, <1>3, FinalizeAndProposeResult DEF votes
<1>4. CASE slots[r][k].commitCert = s.commitCert
  <2>1. /\ slots' = [slots EXCEPT ![r] = sl]
        /\ sent' = sent \cup votes
        /\ UNCHANGED <<proposeNum, finalizeNum, pending, submitted, ticked, ended>>
    BY <1>2, <1>4
  <2>2. slots \in [Correct -> [BlockNum -> Slot]] /\ sl \in [BlockNum -> Slot]
    BY DEF TypeOK
  <2>3. slots'[r] = sl /\ slots' = [slots EXCEPT ![r] = slots'[r]]
    BY <2>1, <2>2
  <2>4. \A j \in BlockNum : Kept(sl[j], slots'[r][j])
    BY <2>2, <2>3 DEF Kept
  <2>5. \A q \in Correct : proposeNum[q] \in Nat /\ finalizeNum[q] \in Nat
    BY BoundAssumption DEF TypeOK
  <2>6. ProposeEffect(r, sl, votes)
    <3>1. \E P \in SUBSET Message : /\ sent' = sent \cup votes \cup P
                                    /\ \A m \in P : m.type = "PrePrepare"
      <4>1. sent' = sent \cup votes \cup {} /\ {} \in SUBSET Message /\ \A m \in {} : m.type = "PrePrepare"
        BY <2>1
      <4> QED BY <4>1
    <3>2. proposeNum' \in [Correct -> 0..MaxBlock] /\ pending' \in [Correct -> Pool]
          /\ submitted' \in [Correct -> Pool]
      BY <2>1 DEF TypeOK, Pool
    <3>3. \A q \in Correct : /\ proposeNum'[q] >= proposeNum[q]
                             /\ q # r => proposeNum'[q] = proposeNum[q]
      BY <2>1, <2>5
    <3>4. \A j \in proposeNum[r] + 1 .. proposeNum'[r] : slots'[r][j].block # NoBlock
      BY <2>1, <2>5
    <3>5. slots'[r] \in [BlockNum -> Slot]
      BY <2>2, <2>3
    <3> QED BY <2>3, <2>4, <3>1, <3>2, <3>3, <3>4, <3>5 DEF ProposeEffect
  <2>7. SettleEffect(r, sl, votes)
    BY <2>1, <2>5, <2>6 DEF SettleEffect, TypeOK
  <2> QED BY <1>1, <2>7 DEF votes
<1> QED BY <1>3, <1>4

-----------------------------------------------------------------------------
(* What was accepted or reached its quorum stays.                                 *)
Grown(u, t) ==
  /\ u.block # NoBlock => t.block = u.block
  /\ u.prepareCert # {} => t.prepareCert # {}
  /\ u.commitCert # {} => t.commitCert # {}

AllGrown == \A q \in Correct : \A j \in BlockNum : Grown(slots[q][j], slots'[q][j])

LEMMA BackedKept ==
  ASSUME AllGrown, NEW q, NEW j \in BlockNum, NEW b, Backed(slots, q, j, b)
  PROVE  Backed(slots', q, j, b)
BY DEF Backed, AllGrown, Grown

LEMMA SlotBackedKept ==
  ASSUME SlotsBacked, AllGrown, NEW r \in Correct, NEW j \in BlockNum, NEW u \in Slot, NEW t,
         SlotBacked(slots, r, j, u), Kept(u, t)
  PROVE  SlotBacked(slots', r, j, t)
<1>1. \A v \in t.commitVotes : Backed(slots', v.from, j, v.block)
  BY BackedKept DEF SlotBacked, Kept
<1>2. ASSUME NEW q \in t.commits \cup t.commitCert
      PROVE  IF q = r THEN Malicious = {} => t.prepareCert # {} ELSE Backed(slots', q, j, t.block)
  <2>1. q \in u.commits \cup u.commitCert /\ t.block = u.block
    BY DEF SlotBacked, Kept
  <2>2. IF q = r THEN Malicious = {} => u.prepareCert # {} ELSE Backed(slots, q, j, t.block)
    BY <2>1 DEF SlotBacked
  <2> QED BY <2>2, BackedKept DEF Kept
<1> QED BY <1>1, <1>2 DEF SlotBacked, Kept

(* The votes that r may send with the slots sl.                                   *)
Justified(r, sl, m) ==
  /\ m.type \in {"Prepare", "Commit"} => m.from = r /\ sl[m.num].block = m.block
  /\ m.type = "Commit" => sl[m.num].prepareCert # {}

(* A handler keeps the invariant when the slots sl it led to have grown and are   *)
(* backed, and it casts a vote only for what it has accepted or prepared.         *)
LEMMA HandlerInv ==
  ASSUME PbftInv, NEW r \in Correct, NEW sl \in [BlockNum -> Slot],
         \A j \in BlockNum : Grown(slots[r][j], sl[j]) /\ SlotBacked(slots, r, j, sl[j]),
         NEW votes \in SUBSET Message,
         \A m \in votes : Justified(r, sl, m),
         SettleEffect(r, sl, votes)
  PROVE  PbftInv'
<1>1. TypeOK /\ SlotsBacked /\ VotesBacked /\ FinalizedCommitted /\ ProposedKept
  BY DEF PbftInv
<1>2. slots \in [Correct -> [BlockNum -> Slot]]
  BY <1>1 DEF TypeOK
<1>3. /\ \A q \in Correct : q # r => slots'[q] = slots[q]
      /\ slots'[r] \in [BlockNum -> Slot]
      /\ slots' \in [Correct -> [BlockNum -> Slot]]
      /\ \A j \in BlockNum : Kept(sl[j], slots'[r][j])
  BY <1>2 DEF SettleEffect, ProposeEffect
<1>4. \A j \in BlockNum : Grown(slots[r][j], slots'[r][j])
  BY <1>3 DEF Grown, Kept
<1>5. AllGrown
  BY <1>3, <1>4 DEF AllGrown, Grown
<1>6. SlotsBacked'
  <2> SUFFICES ASSUME NEW q \in Correct, NEW j \in BlockNum
               PROVE  SlotBacked(slots', q, j, slots'[q][j])
    BY DEF SlotsBacked
  <2>1. CASE q # r
    <3>1. SlotBacked(slots, q, j, slots[q][j]) /\ slots[q][j] \in Slot
      BY <1>1, <1>2 DEF SlotsBacked
    <3>2. Kept(slots[q][j], slots'[q][j])
      BY <1>3, <2>1, <3>1 DEF Kept
    <3> QED BY <1>1, <1>5, <3>1, <3>2, SlotBackedKept
  <2>2. CASE q = r
    <3>1. SlotBacked(slots, r, j, sl[j]) /\ sl[j] \in Slot
      OBVIOUS
    <3> QED BY <1>1, <1>3, <1>5, <2>2, <3>1, SlotBackedKept
  <2> QED BY <2>1, <2>2
<1>7. VotesBacked'
  <2> SUFFICES ASSUME NEW q \in Correct, NEW j \in BlockNum, NEW b \in Block, NEW m,
                      m \in {Prepare(q, j, b), Commit(q, j, b)}, m \in sent'
               PROVE  /\ slots'[q][j].block = b
                      /\ m.type = "Commit" => slots'[q][j].prepareCert # {}
    BY DEF VotesBacked, Prepare, Commit
  <2>1. PICK P \in SUBSET Message : /\ sent' = sent \cup votes \cup P
                                    /\ \A n \in P : n.type = "PrePrepare"
    BY DEF SettleEffect, ProposeEffect
  <2>2. /\ m.type \in {"Prepare", "Commit"} /\ m.from = q /\ m.num = j /\ m.block = b
        /\ m \notin P /\ b # NoBlock
    BY <2>1, NoBlockAssumption DEF Prepare, Commit
  <2>3. CASE m \in sent
    <3>1. slots[q][j].block = b /\ (m.type = "Commit" => slots[q][j].prepareCert # {})
      <4>1. CASE m = Prepare(q, j, b)
        BY <1>1, <2>3, <4>1 DEF VotesBacked, Prepare
      <4>2. CASE m = Commit(q, j, b)
        BY <1>1, <2>3, <4>2 DEF VotesBacked
      <4> QED BY <4>1, <4>2
    <3> QED BY <1>5, <2>2, <3>1 DEF AllGrown, Grown
  <2>4. CASE m \in votes
    <3>1. q = r /\ sl[j].block = b /\ (m.type = "Commit" => sl[j].prepareCert # {})
      BY <2>2, <2>4 DEF Justified
    <3> QED BY <1>3, <2>2, <3>1 DEF Kept
  <2> QED BY <2>1, <2>2, <2>3, <2>4
<1>8. FinalizedCommitted'
  <2> SUFFICES ASSUME NEW q \in Correct, NEW j \in 1..finalizeNum'[q]
               PROVE  slots'[q][j].commitCert # {}
    BY DEF FinalizedCommitted
  <2>1. finalizeNum[q] \in Nat /\ finalizeNum'[q] \in 0..MaxBlock
    BY <1>1 DEF TypeOK, SettleEffect
  <2>2. j \in BlockNum
    BY <2>1, BoundAssumption DEF BlockNum
  <2>3. CASE j \in 1..finalizeNum[q]
    BY <1>1, <1>5, <2>2, <2>3 DEF FinalizedCommitted, AllGrown, Grown
  <2>4. CASE j \notin 1..finalizeNum[q]
    BY <2>1, <2>4 DEF SettleEffect
  <2> QED BY <2>3, <2>4
<1>9. ProposedKept'
  <2>1. /\ ticked' = ticked
        /\ \A q \in Correct : /\ proposeNum'[q] >= proposeNum[q]
                              /\ q # r => proposeNum'[q] = proposeNum[q]
                              /\ proposeNum[q] \in 0..MaxBlock /\ proposeNum'[q] \in 0..MaxBlock
                              /\ ticked[q] \in Nat
        /\ \A j \in proposeNum[r] + 1 .. proposeNum'[r] : slots'[r][j].block # NoBlock
    BY <1>1 DEF SettleEffect, ProposeEffect, TypeOK
  <2>2. \A q \in Correct : ticked'[q] <= proposeNum'[q]
    BY <1>1, <2>1 DEF ProposedKept
  <2>3. ASSUME Primary \in Correct, NEW j \in 1..proposeNum'[Primary]
        PROVE  slots'[Primary][j].block # NoBlock
    <3>1. j \in BlockNum
      BY <2>1, <2>3, BoundAssumption DEF BlockNum
    <3>2. CASE j \in 1..proposeNum[Primary]
      <4>1. slots[Primary][j].block # NoBlock
        BY <1>1, <2>3, <3>2 DEF ProposedKept
      <4> QED BY <1>5, <2>3, <3>1, <4>1 DEF AllGrown, Grown
    <3>3. CASE j \notin 1..proposeNum[Primary]
      <4>1. Primary = r /\ j \in proposeNum[r] + 1 .. proposeNum'[r]
        BY <2>1, <2>3, <3>3
      <4> QED BY <2>1, <4>1
    <3> QED BY <3>2, <3>3
  <2> QED BY <2>2, <2>3 DEF ProposedKept
<1>10. TypeOK'
  <2>1. sent' \subseteq Message
    BY <1>1 DEF SettleEffect, ProposeEffect, TypeOK
  <2>2. ticked' \in [Correct -> 0..MaxBlock]
    BY <1>1 DEF SettleEffect, TypeOK
  <2>3. ended' \subseteq Correct
    BY DEF SettleEffect
  <2> QED BY <1>3, <2>1, <2>2, <2>3 DEF SettleEffect, ProposeEffect, TypeOK, Pool
<1> QED BY <1>6, <1>7, <1>8, <1>9, <1>10 DEF PbftInv

(* A handler that ends in Settle, with s for the slot of number k.                *)
LEMMA SettleInv ==
  ASSUME PbftInv, NEW r \in Correct, NEW k \in BlockNum, NEW s \in Slot,
         Grown(slots[r][k], s), SlotBacked(slots, r, k, s),
         NEW msgs \in SUBSET Message,
         \A m \in msgs : m.type = "Prepare" /\ m.from = r /\ m.num = k /\ m.block = s.block,
         Settle(r, k, s, msgs)
  PROVE  PbftInv'
<1> DEFINE sl == [slots[r] EXCEPT ![k] = s]
           votes == Votes(r, k, s, msgs)
<1>1. TypeOK /\ SlotsBacked
  BY DEF PbftInv
<1>2. s.prepareCert # {} => s.block \in Block
  BY DEF SlotBacked, Slot
<1>3. SettleEffect(r, sl, votes) /\ votes \in SUBSET Message
  BY <1>1, <1>2, SettleResult
<1>4. slots \in [Correct -> [BlockNum -> Slot]]
  BY <1>1 DEF TypeOK
<1>5. /\ sl \in [BlockNum -> Slot]
      /\ \A j \in BlockNum : sl[j] = IF j = k THEN s ELSE slots[r][j]
  BY <1>4
<1>6. \A m \in votes : Justified(r, sl, m)
  BY <1>5 DEF Votes, Commit, Justified
<1> HIDE DEF sl, votes
<1>7. \A j \in BlockNum : Grown(slots[r][j], sl[j]) /\ SlotBacked(slots, r, j, sl[j])
  <2> TAKE j \in BlockNum
  <2>1. CASE j = k
    BY <1>5, <2>1
  <2>2. CASE j # k
    BY <1>1, <1>5, <2>2 DEF SlotsBacked, Grown
  <2> QED BY <2>1, <2>2
<1> QED BY <1>3, <1>5, <1>6, <1>7, HandlerInv

-----------------------------------------------------------------------------
(* What the handlers make of a slot.                                              *)

(* The checks after a Prepare was counted.                                        *)
LEMMA ChecksBacked ==
  ASSUME NEW all, NEW r \in Correct, NEW k, NEW u \in Slot, SlotBacked(all, r, k, u),
         u.block # NoBlock, u.prepareCert = {}, u.prepares # {},
         NEW t, t = CheckCommitQuorum(CheckPrepareQuorum(r, u))
  PROVE  t \in Slot /\ Grown(u, t) /\ SlotBacked(all, r, k, t)
<1> DEFINE p == CheckPrepareQuorum(r, u)
<1>1. r \in Replica
  BY DEF Correct
<1>2. /\ p \in Slot /\ p.block = u.block /\ p.commitVotes = u.commitVotes
      /\ p.commitCert = u.commitCert
      /\ \/ p.prepareCert = u.prepareCert /\ p.commits = u.commits
         \/ p.prepareCert = u.prepares /\ p.commits = u.commits \cup {r}
  BY <1>1, CheckPrepareQuorumResult
<1> HIDE DEF p
<1>3. /\ t \in Slot /\ t.block = p.block /\ t.commitVotes = p.commitVotes
      /\ t.prepareCert = p.prepareCert
      /\ \/ t.commitCert = p.commitCert /\ t.commits = p.commits
         \/ /\ t.commitCert = p.commits /\ t.commits = {}
            /\ Cardinality(p.commits) >= QuorumSize /\ p.prepareCert # {}
  BY <1>2, CheckCommitQuorumResult DEF p
<1>4. SlotBacked(all, r, k, p) /\ (p.prepareCert # {} => p.commits # {})
  BY <1>2 DEF SlotBacked
<1>5. SlotBacked(all, r, k, t)
  BY <1>2, <1>3, <1>4 DEF SlotBacked
<1>6. Grown(u, t)
  BY <1>2, <1>3, <1>4 DEF Grown
<1> QED BY <1>3, <1>5, <1>6

(* The check after a Commit was counted.                                          *)
LEMMA CommitCheckBacked ==
  ASSUME NEW all, NEW r \in Correct, NEW k, NEW u \in Slot, SlotBacked(all, r, k, u),
         u.commits # {}, NEW t, t = CheckCommitQuorum(u)
  PROVE  t \in Slot /\ Grown(u, t) /\ SlotBacked(all, r, k, t)
BY CheckCommitQuorumResult DEF SlotBacked, Grown

(* The slot with which AcceptPrePrepare settles.                                  *)
LEMMA AcceptBacked ==
  ASSUME NEW all, NEW r \in Correct, NEW k, NEW x \in Slot, SlotBacked(all, r, k, x),
         x.block = NoBlock, all[r][k] = x, NEW b \in Block,
         NEW t, t = CheckCommitQuorum(CheckPrepareQuorum(r, OpenScratch(r, [x EXCEPT !.block = b], b)))
  PROVE  t \in Slot /\ Grown(x, t) /\ SlotBacked(all, r, k, t)
<1> DEFINE y == [x EXCEPT !.block = b]
           u == OpenScratch(r, y, b)
<1>1. r \in Replica /\ b # NoBlock
  BY NoBlockAssumption DEF Correct
<1>2. /\ y \in Slot /\ y.block = b /\ y.prepareCert = x.prepareCert /\ y.commitCert = x.commitCert
      /\ y.commits = x.commits /\ y.commitVotes = x.commitVotes
  BY DEF Slot
<1>3. /\ x.prepareCert = {} /\ x.commits = {} /\ x.commitCert = {}
      /\ \A v \in x.commitVotes : Backed(all, v.from, k, v.block)
  BY DEF SlotBacked
<1> HIDE DEF y, u
<1>4. /\ u \in Slot /\ u.block = b /\ u.prepareCert = {} /\ u.commitCert = {}
      /\ u.commits = Matching(x.commitVotes, b) /\ u.commitVotes = {} /\ u.prepares # {}
  <2>1. /\ u \in Slot
        /\ u.block = b /\ u.prepareCert = y.prepareCert /\ u.commitCert = y.commitCert
        /\ u.commits = y.commits \cup Matching(y.commitVotes, b) /\ u.commitVotes = {}
        /\ u.prepares # {}
    BY <1>1, <1>2, OpenScratchResult DEF u
  <2> QED BY <1>2, <1>3, <2>1
<1>5. \A q \in u.commits : Backed(all, q, k, b)
  BY <1>3, <1>4 DEF Matching
<1>6. r \notin u.commits
  BY <1>1, <1>5 DEF Backed
<1>7. SlotBacked(all, r, k, u)
  BY <1>1, <1>4, <1>5, <1>6 DEF SlotBacked
<1>8. t \in Slot /\ Grown(u, t) /\ SlotBacked(all, r, k, t)
  <2>1. t = CheckCommitQuorum(CheckPrepareQuorum(r, u))
    BY DEF u, y
  <2> QED BY <1>1, <1>4, <1>7, <2>1, ChecksBacked
<1> QED BY <1>3, <1>8 DEF Grown

LEMMA AcceptBlock ==
  ASSUME NEW r \in Correct, NEW x \in Slot, NEW b \in Block
  PROVE  CheckCommitQuorum(CheckPrepareQuorum(r, OpenScratch(r, [x EXCEPT !.block = b], b))).block = b
<1> DEFINE y == [x EXCEPT !.block = b]
           u == OpenScratch(r, y, b)
           p == CheckPrepareQuorum(r, u)
<1>1. r \in Replica /\ y \in Slot /\ y.block = b
  BY DEF Slot, Correct
<1> HIDE DEF y
<1>2. u \in Slot /\ u.block = b
  BY <1>1, OpenScratchResult
<1> HIDE DEF u
<1>3. p \in Slot /\ p.block = b
  BY <1>1, <1>2, CheckPrepareQuorumResult
<1> HIDE DEF p
<1>4. CheckCommitQuorum(p).block = b
  BY <1>3, CheckCommitQuorumResult
<1> QED BY <1>4 DEF p, u, y

(* The slot with which ReceivePrepare settles.                                    *)
LEMMA PrepareVotedBacked ==
  ASSUME NEW all, NEW r \in Correct, NEW k, NEW x \in Slot, SlotBacked(all, r, k, x),
         x.prepareCert = {}, NEW q \in Replica, NEW b \in Block,
         NEW t, t = PrepareVoted(r, x, q, b)
  PROVE  t \in Slot /\ Grown(x, t) /\ SlotBacked(all, r, k, t)
<1>1. CASE x.block = NoBlock
  <2>1. [from |-> q, block |-> b] \in Vote
    BY DEF Vote
  <2>2. /\ t \in Slot /\ t.block = x.block /\ t.prepareCert = x.prepareCert
        /\ t.commitCert = x.commitCert /\ t.commits = x.commits /\ t.commitVotes = x.commitVotes
    BY <1>1, <2>1 DEF PrepareVoted, Slot
  <2> QED BY <2>2 DEF Grown, SlotBacked
<1>2. CASE x.block # NoBlock /\ x.block # b
  <2>1. /\ t \in Slot /\ t.block = x.block /\ t.prepareCert = x.prepareCert
        /\ t.commitCert = x.commitCert /\ t.commits = x.commits /\ t.commitVotes = x.commitVotes
    BY <1>2 DEF PrepareVoted, Slot
  <2> QED BY <2>1 DEF Grown, SlotBacked
<1>3. CASE x.block # NoBlock /\ x.block = b
  <2> DEFINE u == [x EXCEPT !.open = TRUE, !.prepares = @ \cup {q}]
  <2>1. /\ u \in Slot /\ u.block = x.block /\ u.prepareCert = x.prepareCert
        /\ u.commitCert = x.commitCert /\ u.commits = x.commits /\ u.commitVotes = x.commitVotes
        /\ u.prepares # {}
    BY DEF Slot
  <2>2. t = CheckCommitQuorum(CheckPrepareQuorum(r, u))
    BY <1>3 DEF PrepareVoted
  <2> HIDE DEF u
  <2>3. SlotBacked(all, r, k, u) /\ Grown(x, u)
    BY <2>1 DEF SlotBacked, Grown
  <2>4. t \in Slot /\ Grown(u, t) /\ SlotBacked(all, r, k, t)
    BY <1>3, <2>1, <2>2, <2>3, ChecksBacked
  <2> QED BY <2>3, <2>4 DEF Grown
<1> QED BY <1>1, <1>2, <1>3

(* The slot with which ReceiveCommit settles.                                     *)
LEMMA CommitVotedBacked ==
  ASSUME NEW all, NEW r \in Correct, NEW k, NEW x \in Slot, SlotBacked(all, r, k, x),
         all[r][k] = x, NEW q \in Replica, NEW b \in Block, Backed(all, q, k, b),
         NEW t, t = CommitVoted(x, q, b)
  PROVE  t \in Slot /\ Grown(x, t) /\ SlotBacked(all, r, k, t)
<1>1. CASE x.block = NoBlock
  <2> DEFINE v == [from |-> q, block |-> b]
  <2>1. v \in Vote /\ v.from = q /\ v.block = b
    BY DEF Vote
  <2>2. /\ t \in Slot /\ t.block = x.block /\ t.prepareCert = x.prepareCert
        /\ t.commitCert = x.commitCert /\ t.commits = x.commits
        /\ t.commitVotes = x.commitVotes \cup {v}
    BY <1>1, <2>1 DEF CommitVoted, Slot
  <2> HIDE DEF v
  <2> QED BY <2>1, <2>2 DEF Grown, SlotBacked
<1>2. CASE x.block # NoBlock /\ x.block # b
  <2>1. /\ t \in Slot /\ t.block = x.block /\ t.prepareCert = x.prepareCert
        /\ t.commitCert = x.commitCert /\ t.commits = x.commits /\ t.commitVotes = x.commitVotes
    BY <1>2 DEF CommitVoted, Slot
  <2> QED BY <2>1 DEF Grown, SlotBacked
<1>3. CASE x.block # NoBlock /\ x.block = b
  <2> DEFINE u == [x EXCEPT !.open = TRUE, !.commits = @ \cup {q}]
  <2>1. /\ u \in Slot /\ u.block = x.block /\ u.prepareCert = x.prepareCert
        /\ u.commitCert = x.commitCert /\ u.commits = x.commits \cup {q}
        /\ u.commitVotes = x.commitVotes
    BY DEF Slot
  <2>2. t = CheckCommitQuorum(u)
    BY <1>3 DEF CommitVoted
  <2> HIDE DEF u
  <2>3. SlotBacked(all, r, k, u) /\ Grown(x, u)
    BY <1>3, <2>1 DEF SlotBacked, Backed, Grown
  <2>4. u.commits # {}
    BY <2>1
  <2>5. t \in Slot /\ Grown(u, t) /\ SlotBacked(all, r, k, t)
    BY <2>1, <2>2, <2>3, <2>4, CommitCheckBacked
  <2> QED BY <2>3, <2>5 DEF Grown
<1> QED BY <1>1, <1>2, <1>3

-----------------------------------------------------------------------------
(* One lemma per action.                                                          *)

LEMMA KnownBlocksType == TypeOK => KnownBlocks \subseteq Block
BY FaultyBlocksAssumption DEF TypeOK, KnownBlocks, Message

LEMMA SlotsType ==
  ASSUME PbftInv, NEW r \in Correct, NEW k \in BlockNum
  PROVE  slots[r][k] \in Slot /\ SlotBacked(slots, r, k, slots[r][k]) /\ r \in Replica
BY DEF PbftInv, TypeOK, SlotsBacked, Correct

LEMMA AcceptPrePrepareInv ==
  ASSUME PbftInv, NEW r \in Correct, NEW k \in BlockNum, NEW b \in Block, AcceptPrePrepare(r, k, b)
  PROVE  PbftInv'
<1> DEFINE x == slots[r][k]
           t == CheckCommitQuorum(CheckPrepareQuorum(r, OpenScratch(r, [x EXCEPT !.block = b], b)))
           msgs == {Prepare(r, k, b)}
<1>1. x.block = NoBlock /\ Settle(r, k, t, msgs)
  BY DEF AcceptPrePrepare
<1>2. x \in Slot /\ SlotBacked(slots, r, k, x) /\ r \in Replica
  BY SlotsType
<1>3. t \in Slot /\ Grown(x, t) /\ SlotBacked(slots, r, k, t)
  BY <1>1, <1>2, AcceptBacked
<1>4. msgs \in SUBSET Message
  BY <1>2 DEF Prepare, Message
<1>5. t.block = b
  BY <1>2, AcceptBlock
<1>6. \A m \in msgs : m.type = "Prepare" /\ m.from = r /\ m.num = k /\ m.block = t.block
  BY <1>5 DEF Prepare
<1> HIDE DEF t, msgs
<1> QED BY <1>1, <1>3, <1>4, <1>6, SettleInv

LEMMA ReceivePrepareInv ==
  ASSUME PbftInv, NEW r \in Correct, NEW q \in Replica, NEW k \in BlockNum, NEW b \in Block,
         ReceivePrepare(r, q, k, b)
  PROVE  PbftInv'
<1> DEFINE x == slots[r][k]
           t == PrepareVoted(r, x, q, b)
<1>1. x.prepareCert = {} /\ Settle(r, k, t, {})
  BY DEF ReceivePrepare, IsPrepared
<1>2. x \in Slot /\ SlotBacked(slots, r, k, x)
  BY SlotsType
<1>3. t \in Slot /\ Grown(x, t) /\ SlotBacked(slots, r, k, t)
  BY <1>1, <1>2, PrepareVotedBacked
<1> HIDE DEF t
<1> QED BY <1>1, <1>3, SettleInv

(* Whoever passes on a Commit of q, q stands behind it.                           *)
LEMMA CommitIsBacked ==
  ASSUME PbftInv, NEW r, NEW q, NEW k \in BlockNum, NEW b \in Block, CanCommit(r, q, k, b)
  PROVE  Backed(slots, q, k, b)
<1> SUFFICES ASSUME q \in Correct
             PROVE  slots[q][k].block = b /\ (Malicious = {} => slots[q][k].prepareCert # {})
  BY NoBlockAssumption DEF Backed
<1>1. Commit(q, k, b) \in sent \/ (Malicious # {} /\ Prepare(q, k, b) \in sent)
  BY FaultyAssumption DEF CanCommit, VoteSigned, Correct
<1> QED BY <1>1 DEF PbftInv, VotesBacked

LEMMA ReceiveCommitInv ==
  ASSUME PbftInv, NEW r \in Correct, NEW q \in Replica, NEW k \in BlockNum, NEW b \in Block,
         ReceiveCommit(r, q, k, b)
  PROVE  PbftInv'
<1> DEFINE x == slots[r][k]
           t == CommitVoted(x, q, b)
<1>1. CanCommit(r, q, k, b) /\ Settle(r, k, t, {})
  BY DEF ReceiveCommit
<1>2. Backed(slots, q, k, b)
  BY <1>1, CommitIsBacked
<1>3. x \in Slot /\ SlotBacked(slots, r, k, x)
  BY SlotsType
<1>4. t \in Slot /\ Grown(x, t) /\ SlotBacked(slots, r, k, t)
  BY <1>1, <1>2, <1>3, CommitVotedBacked
<1> HIDE DEF t
<1> QED BY <1>1, <1>4, SettleInv

(* What the handlers that change no slot by a vote have in common.                 *)
LEMMA NoVoteInv ==
  ASSUME PbftInv, NEW r \in Correct, NEW votes \in SUBSET Message,
         \A m \in votes : Justified(r, slots[r], m),
         ProposeEffect(r, slots[r], votes), UNCHANGED <<finalizeNum, ticked>>,
         ended' \subseteq Correct
  PROVE  PbftInv'
<1>1. TypeOK /\ SlotsBacked
  BY DEF PbftInv
<1>2. slots[r] \in [BlockNum -> Slot] /\ finalizeNum \in [Correct -> 0..MaxBlock]
  BY <1>1 DEF TypeOK
<1>3. \A j \in BlockNum : Grown(slots[r][j], slots[r][j]) /\ SlotBacked(slots, r, j, slots[r][j])
  BY <1>1 DEF SlotsBacked, Grown
<1>4. SettleEffect(r, slots[r], votes)
  BY <1>2 DEF SettleEffect
<1> QED BY <1>2, <1>3, <1>4, HandlerInv

(* The replicas' logs and pools are as before, and messages are sent.              *)
LEMMA SendEffect ==
  ASSUME TypeOK, NEW r \in Correct, NEW votes \in SUBSET Message, sent' = sent \cup votes,
         pending' \in [Correct -> Pool], UNCHANGED <<slots, proposeNum, submitted>>
  PROVE  ProposeEffect(r, slots[r], votes)
<1>1. slots \in [Correct -> [BlockNum -> Slot]] /\ proposeNum \in [Correct -> 0..MaxBlock]
      /\ submitted \in [Correct -> Pool] /\ MaxBlock \in Nat
  BY BoundAssumption DEF TypeOK, Pool
<1>2. \A j \in BlockNum : Kept(slots[r][j], slots'[r][j])
  BY <1>1 DEF Kept
<1>3. \E P \in SUBSET Message : /\ sent' = sent \cup votes \cup P
                                /\ \A m \in P : m.type = "PrePrepare"
  <2>1. sent' = sent \cup votes \cup {} /\ {} \in SUBSET Message /\ \A m \in {} : m.type = "PrePrepare"
    OBVIOUS
  <2> QED BY <2>1
<1>4. \A q \in Correct : /\ proposeNum'[q] >= proposeNum[q]
                         /\ q # r => proposeNum'[q] = proposeNum[q]
  BY <1>1
<1>5. \A k \in proposeNum[r] + 1 .. proposeNum'[r] : slots'[r][k].block # NoBlock
  BY <1>1
<1>6. slots' = [slots EXCEPT ![r] = slots'[r]] /\ slots'[r] \in [BlockNum -> Slot]
  BY <1>1
<1> QED BY <1>1, <1>2, <1>3, <1>4, <1>5, <1>6 DEF ProposeEffect

LEMMA RepeatVotesInv ==
  ASSUME PbftInv, NEW r \in Correct, NEW k \in BlockNum, NEW b \in Block, RepeatVotes(r, k, b)
  PROVE  PbftInv'
<1> DEFINE votes == IF slots[r][k].block # b \/ r = Primary THEN {}
                    ELSE {Prepare(r, k, b)}
                           \cup (IF slots[r][k].prepareCert # {} THEN {Commit(r, k, b)} ELSE {})
<1>1. TypeOK /\ r \in Replica
  BY DEF PbftInv, Correct
<1>2. /\ sent' = sent \cup votes
      /\ UNCHANGED <<slots, proposeNum, finalizeNum, pending, submitted, ticked>>
      /\ ended' \subseteq Correct
  BY <1>1 DEF RepeatVotes, TypeOK
<1>3. votes \in SUBSET Message
  BY <1>1 DEF Prepare, Commit, Message
<1>4. \A m \in votes : Justified(r, slots[r], m)
  BY DEF Prepare, Commit, Justified
<1> HIDE DEF votes
<1>5. ProposeEffect(r, slots[r], votes)
  BY <1>1, <1>2, <1>3, SendEffect DEF TypeOK, Pool
<1> QED BY <1>2, <1>3, <1>4, <1>5, NoVoteInv

LEMMA RequestInv ==
  ASSUME PbftInv, NEW r \in Correct, NEW command \in Command, Request(r, command)
  PROVE  PbftInv'
<1>1. TypeOK
  BY DEF PbftInv
<1>2. /\ pending \in [Correct -> Pool] /\ submitted \in [Correct -> Pool]
      /\ slots[r] \in [BlockNum -> Slot] /\ finalizeNum[r] \in 0..MaxBlock
  BY <1>1 DEF TypeOK, Pool
<1>3. Pushed(r, command) \in Pool
  BY <1>2, BoundAssumption DEF Pushed, Pool, Command
<1>4. UNCHANGED <<finalizeNum, ticked>> /\ ended' \subseteq Correct
  BY <1>1 DEF Request, TypeOK
<1>5. CASE r = Primary
  <2>1. Propose(r, slots[r], Pushed(r, command), submitted[r], finalizeNum[r], {})
    BY <1>5 DEF Request
  <2>2. ProposeEffect(r, slots[r], {})
    BY <1>1, <1>2, <1>3, <2>1, ProposeResult
  <2> QED BY <1>4, <2>2, NoVoteInv
<1>6. CASE r # Primary
  <2>1. /\ pending' = [pending EXCEPT ![r] = Pushed(r, command)]
        /\ sent' = sent \cup {Forward(command)}
        /\ UNCHANGED <<slots, proposeNum, submitted>>
    BY <1>6 DEF Request
  <2>2. /\ {Forward(command)} \in SUBSET Message
        /\ \A m \in {Forward(command)} : Justified(r, slots[r], m)
    BY DEF Forward, Message, Justified
  <2>3. pending' \in [Correct -> Pool]
    BY <1>2, <1>3, <2>1
  <2>4. ProposeEffect(r, slots[r], {Forward(command)})
    BY <1>1, <2>1, <2>2, <2>3, SendEffect
  <2> QED BY <1>4, <2>2, <2>4, NoVoteInv
<1> QED BY <1>5, <1>6

LEMMA TickInv ==
  ASSUME PbftInv, NEW r \in Correct, Tick(r)
  PROVE  PbftInv'
<1>1. TypeOK /\ ProposedKept
  BY DEF PbftInv
<1>2. /\ ticked' = [ticked EXCEPT ![r] = proposeNum[r]]
      /\ sent' = sent \cup Resent(r)
      /\ UNCHANGED <<slots, proposeNum, finalizeNum, pending, submitted, ended>>
  BY DEF Tick
<1>3. /\ proposeNum \in [Correct -> 0..MaxBlock] /\ ticked \in [Correct -> 0..MaxBlock]
      /\ finalizeNum \in [Correct -> 0..MaxBlock] /\ MaxBlock \in Nat
      /\ slots \in [Correct -> [BlockNum -> Slot]]
  BY <1>1, BoundAssumption DEF TypeOK
<1>4. ASSUME r = Primary, NEW k \in finalizeNum[r] + 1 .. ticked[r]
      PROVE  PrePrepare(k, slots[r][k].block) \in Message
    <2>1. k \in BlockNum /\ k \in 1..proposeNum[r]
      BY <1>1, <1>3, <1>4 DEF BlockNum, ProposedKept
    <2>2. slots[r][k].block \in Block
      BY <1>1, <1>3, <1>4, <2>1 DEF ProposedKept, Slot
    <2> QED BY <2>1, <2>2 DEF PrePrepare, Message
<1>5. Resent(r) \subseteq Message /\ \A m \in Resent(r) : m.type = "PrePrepare"
  BY <1>4 DEF Resent, PrePrepare
<1>6. TypeOK'
  BY <1>1, <1>2, <1>3, <1>5 DEF TypeOK
<1>7. VotesBacked'
  BY <1>2, <1>5 DEF PbftInv, VotesBacked, Prepare, Commit
<1>8. SlotsBacked' /\ FinalizedCommitted'
  BY <1>2 DEF PbftInv, SlotsBacked, SlotBacked, Backed, FinalizedCommitted
<1>9. ProposedKept'
  BY <1>1, <1>2, <1>3 DEF ProposedKept
<1> QED BY <1>6, <1>7, <1>8, <1>9 DEF PbftInv

-----------------------------------------------------------------------------
LEMMA PbftInitInv == Init => PbftInv
<1> SUFFICES ASSUME Init PROVE PbftInv
  OBVIOUS
<1>1. EmptySlot \in Slot
  BY DEF EmptySlot, Slot
<1>2. TypeOK
  BY <1>1, BoundAssumption DEF Init, TypeOK
<1>3. \A r \in Correct : \A k \in BlockNum : slots[r][k] = EmptySlot
  BY DEF Init
<1>4. SlotsBacked
  BY <1>3 DEF SlotsBacked, SlotBacked, EmptySlot
<1>5. VotesBacked /\ FinalizedCommitted /\ ProposedKept
  BY DEF Init, VotesBacked, FinalizedCommitted, ProposedKept
<1> QED BY <1>2, <1>4, <1>5 DEF PbftInv

LEMMA PbftNextInv == PbftInv /\ [Next]_vars => PbftInv'
<1> SUFFICES ASSUME PbftInv, [Next]_vars PROVE PbftInv'
  OBVIOUS
<1>1. CASE UNCHANGED vars
  <2>1. TypeOK'
    BY <1>1 DEF vars, PbftInv, TypeOK
  <2>2. SlotsBacked'
    BY <1>1 DEF vars, PbftInv, SlotsBacked, SlotBacked, Backed
  <2>3. VotesBacked'
    BY <1>1 DEF vars, PbftInv, VotesBacked
  <2>4. FinalizedCommitted' /\ ProposedKept'
    BY <1>1 DEF vars, PbftInv, FinalizedCommitted, ProposedKept
  <2> QED BY <2>1, <2>2, <2>3, <2>4 DEF PbftInv
<1>2. ASSUME NEW r \in Correct, Receive(r)
      PROVE  PbftInv'
  <2>1. PICK k \in BlockNum, b \in KnownBlocks :
          \/ AcceptPrePrepare(r, k, b)
          \/ RepeatVotes(r, k, b)
          \/ \E q \in Replica : ReceivePrepare(r, q, k, b) \/ ReceiveCommit(r, q, k, b)
    BY <1>2 DEF Receive
  <2>2. b \in Block
    BY KnownBlocksType DEF PbftInv
  <2> QED BY <2>1, <2>2, AcceptPrePrepareInv, RepeatVotesInv, ReceivePrepareInv, ReceiveCommitInv
<1>3. ASSUME NEW r \in Correct, Tick(r)
      PROVE  PbftInv'
  BY <1>3, TickInv
<1>4. ASSUME NEW command \in Command, NEW r \in Correct, ClientRequest(r, command)
      PROVE  PbftInv'
  BY <1>4, RequestInv DEF ClientRequest
<1>5. ASSUME NEW command \in Command, ReceiveForward(command)
      PROVE  PbftInv'
  BY <1>5, RequestInv DEF ReceiveForward
<1> QED BY <1>1, <1>2, <1>3, <1>4, <1>5 DEF Next

(* The invariant holds in every reachable state.                                   *)
THEOREM PbftInvariant == Spec => []PbftInv
BY PbftInitInv, PbftNextInv, PTL DEF Spec

(* The variables keep their types; in particular the primary never sends again a   *)
(* block that it does not have.                                                    *)
THEOREM PbftTypeCorrect == Spec => []TypeOK
<1>1. PbftInv => TypeOK
  BY DEF PbftInv
<1> QED BY <1>1, PbftInvariant, PTL

-----------------------------------------------------------------------------
(* Two quorums of num_replica - num_faulty have a correct replica in common.       *)
LEMMA QuorumsMeet ==
  ASSUME Cardinality(Replica) > 3 * NumFaulty, Cardinality(Faulty) <= NumFaulty,
         NEW P \in SUBSET Replica, NEW Q \in SUBSET Replica,
         Cardinality(P) >= QuorumSize, Cardinality(Q) >= QuorumSize
  PROVE  \E q \in Correct : q \in P /\ q \in Q
<1>1. /\ IsFiniteSet(Replica) /\ IsFiniteSet(Faulty) /\ IsFiniteSet(P) /\ IsFiniteSet(Q)
      /\ IsFiniteSet(P \cap Q) /\ IsFiniteSet(P \cup Q)
  BY ReplicaAssumption, FaultyAssumption, FS_Subset, FS_Intersection, FS_Union
<1>2. /\ Cardinality(Replica) \in Nat /\ Cardinality(Faulty) \in Nat /\ Cardinality(P) \in Nat
      /\ Cardinality(Q) \in Nat /\ Cardinality(P \cap Q) \in Nat /\ Cardinality(P \cup Q) \in Nat
  BY <1>1, FS_CardinalityType
<1>3. Cardinality(P \cup Q) = Cardinality(P) + Cardinality(Q) - Cardinality(P \cap Q)
  BY <1>1, FS_Union
<1>4. Cardinality(P \cup Q) <= Cardinality(Replica)
  BY <1>1, FS_Subset
<1>5. Cardinality(P \cap Q) > Cardinality(Faulty)
  BY <1>2, <1>3, <1>4, FaultyAssumption DEF QuorumSize
<1>6. ~(P \cap Q \subseteq Faulty)
  BY <1>1, <1>2, <1>5, FS_Subset
<1> QED BY <1>6 DEF Correct

(* Correct replicas never finalize different blocks for a number, when fewer than   *)
(* a third of the replicas are faulty, whatever those send.                         *)
THEOREM PbftAgreement ==
  ASSUME Cardinality(Replica) > 3 * NumFaulty, Cardinality(Faulty) <= NumFaulty
  PROVE  Spec => []Agreement
<1>1. ASSUME PbftInv PROVE Agreement
  <2> SUFFICES ASSUME NEW q \in Correct, NEW r \in Correct,
                      NEW k \in (1..finalizeNum[q]) \cap (1..finalizeNum[r])
               PROVE  slots[q][k].block = slots[r][k].block
    BY DEF Agreement
  <2>1. k \in BlockNum
    BY <1>1, BoundAssumption DEF PbftInv, TypeOK, BlockNum
  <2>2. slots[q][k].commitCert # {} /\ slots[r][k].commitCert # {}
    BY <1>1 DEF PbftInv, FinalizedCommitted
  <2>3. /\ slots[q][k] \in Slot /\ SlotBacked(slots, q, k, slots[q][k])
        /\ slots[r][k] \in Slot /\ SlotBacked(slots, r, k, slots[r][k])
    BY <1>1, <2>1, SlotsType
  <2>4. PICK p \in Correct : p \in slots[q][k].commitCert /\ p \in slots[r][k].commitCert
    BY <2>2, <2>3, QuorumsMeet DEF SlotBacked, Slot
  <2>5. slots[p][k].block = slots[q][k].block /\ slots[p][k].block = slots[r][k].block
    BY <2>3, <2>4 DEF SlotBacked, Backed
  <2> QED BY <2>5
<1> QED BY <1>1, PbftInvariant, PTL

(* Whoever holds a commit quorum knows that enough correct replicas stand behind    *)
(* its block, for any number of faulty replicas: they have accepted it, and if no    *)
(* malicious replica makes Commits of Prepares, prepared it.                        *)
THEOREM PbftCommitBacked == Spec => []CommitBacked
<1>1. ASSUME PbftInv PROVE CommitBacked
  <2> SUFFICES ASSUME NEW r \in Correct, NEW k \in BlockNum, slots[r][k].commitCert # {}
               PROVE  Cardinality(Backers(k, slots[r][k].block)) >= QuorumSize - Cardinality(Faulty)
    BY DEF CommitBacked
  <2> DEFINE cert == slots[r][k].commitCert
             backers == Backers(k, slots[r][k].block)
  <2>1. slots[r][k] \in Slot /\ SlotBacked(slots, r, k, slots[r][k])
    BY <1>1, SlotsType
  <2>2. cert \in SUBSET Replica /\ Cardinality(cert) >= QuorumSize
    BY <2>1 DEF Slot, SlotBacked
  <2>3. cert \subseteq backers \cup Faulty
    <3>1. \A q \in cert : q \in Correct => q \in backers
      BY <2>1 DEF SlotBacked, Backed, Backers
    <3> QED BY <2>2, <3>1 DEF Correct
  <2>4. backers \in SUBSET Replica
    BY DEF Correct, Backers
  <2> HIDE DEF cert, backers
  <2>5. IsFiniteSet(backers) /\ IsFiniteSet(Faulty) /\ IsFiniteSet(backers \cup Faulty)
    BY <2>4, ReplicaAssumption, FaultyAssumption, FS_Subset, FS_Union
  <2>6. /\ Cardinality(backers) \in Nat /\ Cardinality(Faulty) \in Nat
        /\ IsFiniteSet(cert) /\ Cardinality(cert) \in Nat /\ Cardinality(Replica) \in Nat
        /\ Cardinality(backers \cap Faulty) \in Nat
    BY <2>2, <2>5, ReplicaAssumption, FS_Subset, FS_CardinalityType, FS_Intersection
  <2>7. Cardinality(cert) <= Cardinality(backers \cup Faulty)
    BY <2>3, <2>5, FS_Subset
  <2>8. Cardinality(backers \cup Faulty)
          = Cardinality(backers) + Cardinality(Faulty) - Cardinality(backers \cap Faulty)
    BY <2>5, FS_Union
  <2>9. Cardinality(backers) >= QuorumSize - Cardinality(Faulty)
    BY <2>2, <2>6, <2>7, <2>8, FaultyAssumption DEF QuorumSize
  <2> QED BY <2>9 DEF backers
<1> QED BY <1>1, PbftInvariant, PTL

-----------------------------------------------------------------------------
(* How scratches are opened, closed and collected, and that a replica finalizes *)
(* and proposes as early as it can.                                             *)

(* Slot s has its quorums in order: no assertion has failed on the way, and     *)
(* what is prepared has a scratch.                                              *)
Ordered(s) ==
  /\ s.commitCert # {} => s.prepareCert # {}
  /\ ~s.failed
  /\ s.prepareCert # {} => s.open

(* The slot of number k at a replica that has finalized f blocks: the scratch    *)
(* is gone, or all is in order, and the first one is not committed.              *)
SlotFinal(s, k, f) ==
  IF k <= f
  THEN /\ ~s.failed /\ ~s.open
       /\ s.commitCert # {} => s.prepareCert # {}
  ELSE Ordered(s) /\ (k = f + 1 => s.commitCert = {})

SlotsFinal == \A r \in Correct : \A k \in BlockNum : SlotFinal(slots[r][k], k, finalizeNum[r])

FinalInv == PbftInv /\ SlotsFinal

-----------------------------------------------------------------------------
(* The handlers leave the slot of a number that is not final in order.            *)

LEMMA ChecksOrdered ==
  ASSUME NEW r \in Replica, NEW u \in Slot, Ordered(u), u.open, u.block # NoBlock,
         u.prepareCert = {}, u.prepares # {},
         NEW t, t = CheckCommitQuorum(CheckPrepareQuorum(r, u))
  PROVE  Ordered(t)
<1> DEFINE p == CheckPrepareQuorum(r, u)
<1>1. u.commitCert = {} /\ ~u.failed
  BY DEF Ordered
<1>2. /\ p \in Slot /\ ~p.failed /\ p.open /\ p.block # NoBlock /\ p.commitCert = {}
  BY <1>1 DEF CheckPrepareQuorum, Slot
<1> HIDE DEF p
<1>3. /\ ~t.failed /\ t.open /\ t.prepareCert = p.prepareCert
      /\ t.commitCert # {} => p.prepareCert # {}
  BY <1>2 DEF CheckCommitQuorum, Slot, p
<1> QED BY <1>3 DEF Ordered

LEMMA AcceptOrdered ==
  ASSUME NEW r \in Replica, NEW x \in Slot, Ordered(x), x.prepareCert = {}, NEW b \in Block,
         NEW t, t = CheckCommitQuorum(CheckPrepareQuorum(r, OpenScratch(r, [x EXCEPT !.block = b], b)))
  PROVE  Ordered(t)
<1> DEFINE y == [x EXCEPT !.block = b]
           u == OpenScratch(r, y, b)
<1>1. b # NoBlock
  BY NoBlockAssumption
<1>2. /\ y \in Slot /\ y.block = b /\ y.prepareCert = x.prepareCert /\ y.commitCert = x.commitCert
      /\ y.failed = x.failed
  BY DEF Slot
<1> HIDE DEF y
<1>3. u \in Slot /\ u.block = b /\ u.prepareCert = {} /\ u.commitCert = x.commitCert /\ u.prepares # {}
  BY <1>2, OpenScratchResult
<1>4. u.open /\ u.failed = x.failed
  BY <1>2 DEF OpenScratch, Slot
<1>5. t = CheckCommitQuorum(CheckPrepareQuorum(r, u))
  BY DEF u, y
<1> HIDE DEF u
<1>6. Ordered(u)
  BY <1>3, <1>4 DEF Ordered
<1> QED BY <1>1, <1>3, <1>4, <1>5, <1>6, ChecksOrdered

LEMMA PrepareVotedOrdered ==
  ASSUME NEW r \in Replica, NEW x \in Slot, Ordered(x), x.prepareCert = {},
         NEW q \in Replica, NEW b \in Block, NEW t, t = PrepareVoted(r, x, q, b)
  PROVE  Ordered(t)
<1>1. CASE x.block = NoBlock
  BY <1>1 DEF PrepareVoted, Ordered, Slot
<1>2. CASE x.block # NoBlock /\ x.block # b
  BY <1>2 DEF PrepareVoted, Ordered, Slot
<1>3. CASE x.block # NoBlock /\ x.block = b
  <2> DEFINE u == [x EXCEPT !.open = TRUE, !.prepares = @ \cup {q}]
  <2>1. /\ u \in Slot /\ u.block = x.block /\ u.prepareCert = x.prepareCert
        /\ u.commitCert = x.commitCert /\ u.failed = x.failed /\ u.open /\ u.prepares # {}
    BY DEF Slot
  <2>2. t = CheckCommitQuorum(CheckPrepareQuorum(r, u))
    BY <1>3 DEF PrepareVoted
  <2> HIDE DEF u
  <2>3. Ordered(u)
    BY <2>1 DEF Ordered
  <2> QED BY <1>3, <2>1, <2>2, <2>3, ChecksOrdered
<1> QED BY <1>1, <1>2, <1>3

LEMMA CommitVotedOrdered ==
  ASSUME NEW x \in Slot, Ordered(x), ~(x.prepareCert # {} /\ x.commitCert # {}),
         NEW q \in Replica, NEW b \in Block, NEW t, t = CommitVoted(x, q, b)
  PROVE  Ordered(t)
<1>1. CASE x.block = NoBlock
  BY <1>1 DEF CommitVoted, Ordered, Slot
<1>2. CASE x.block # NoBlock /\ x.block # b
  BY <1>2 DEF CommitVoted, Ordered, Slot
<1>3. CASE x.block # NoBlock /\ x.block = b
  <2> DEFINE u == [x EXCEPT !.open = TRUE, !.commits = @ \cup {q}]
  <2>1. /\ u \in Slot /\ u.block = x.block /\ u.prepareCert = x.prepareCert
        /\ u.commitCert = {} /\ ~u.failed /\ u.open
    BY DEF Slot, Ordered
  <2>2. t = CheckCommitQuorum(u)
    BY <1>3 DEF CommitVoted
  <2> HIDE DEF u
  <2>3. /\ ~t.failed /\ t.open /\ t.prepareCert = u.prepareCert
        /\ t.commitCert # {} => u.prepareCert # {}
    BY <1>3, <2>1, <2>2 DEF CheckCommitQuorum, Slot
  <2> QED BY <2>3 DEF Ordered
<1> QED BY <1>1, <1>2, <1>3

-----------------------------------------------------------------------------
(* What Propose leaves of a slot: at most its block is filled in.                 *)
SameQuorums(s, t) ==
  /\ t.prepareCert = s.prepareCert /\ t.commitCert = s.commitCert
  /\ t.open = s.open /\ t.failed = s.failed

LEMMA ProposeKeeps ==
  ASSUME TypeOK, NEW r \in Correct, NEW sl \in [BlockNum -> Slot], NEW pd, NEW sb, NEW f,
         NEW msgs, Propose(r, sl, pd, sb, f, msgs)
  PROVE  /\ \A q \in Correct : q # r => slots'[q] = slots[q]
         /\ \A k \in BlockNum : SameQuorums(sl[k], slots'[r][k])
<1>1. PICK bs :
        slots' = [slots EXCEPT ![r] =
                    [k \in BlockNum |-> IF k - proposeNum[r] \in DOMAIN bs
                                        THEN Fill(sl[k], bs[k - proposeNum[r]]) ELSE sl[k]]]
  BY DEF Propose
<1>2. slots \in [Correct -> [BlockNum -> Slot]]
  BY DEF TypeOK
<1>3. \A k \in BlockNum : slots'[r][k] = IF k - proposeNum[r] \in DOMAIN bs
                                         THEN Fill(sl[k], bs[k - proposeNum[r]]) ELSE sl[k]
  BY <1>1, <1>2
<1>4. \A s \in Slot : \A b : SameQuorums(s, Fill(s, b))
  BY DEF SameQuorums, Fill, Slot
<1>5. ASSUME NEW k \in BlockNum PROVE SameQuorums(sl[k], slots'[r][k])
  <2>1. sl[k] \in Slot
    OBVIOUS
  <2> QED BY <1>3, <1>4, <2>1 DEF SameQuorums
<1> QED BY <1>1, <1>2, <1>5

(* The loop of FinalizeUpTo ends at a number that lacks a quorum.                 *)
LEMMA FinalizeUpToStops ==
  ASSUME TypeOK, NEW r \in Correct, NEW sl, FinalizeUpTo(r, sl) + 1 \in BlockNum
  PROVE  ~HasQuorums(sl[FinalizeUpTo(r, sl) + 1])
<1> DEFINE S == {m \in finalizeNum[r]..MaxBlock :
                   \A k \in finalizeNum[r] + 1 .. m : HasQuorums(sl[k])}
           f == FinalizeUpTo(r, sl)
<1>1. finalizeNum[r] \in 0..MaxBlock /\ MaxBlock \in Nat
  BY BoundAssumption DEF TypeOK
<1>2. finalizeNum[r] \in S /\ S \in SUBSET (0..MaxBlock)
  BY <1>1
<1>3. \A y \in S : y <= Max(S)
  <2> HIDE DEF S
  <2> QED BY <1>1, <1>2, MaxExists
<1>4. f = Max(S)
  BY DEF FinalizeUpTo
<1>5. /\ f \in finalizeNum[r]..MaxBlock
      /\ \A k \in finalizeNum[r] + 1 .. f : HasQuorums(sl[k])
  BY FinalizeUpToResult
<1> SUFFICES ASSUME HasQuorums(sl[f + 1]) PROVE FALSE
  OBVIOUS
<1> HIDE DEF f
<1>6. f + 1 \in finalizeNum[r]..MaxBlock
  BY <1>1, <1>5 DEF f, BlockNum
<1>7. \A k \in finalizeNum[r] + 1 .. f + 1 : k = f + 1 \/ k \in finalizeNum[r] + 1 .. f
  BY <1>1, <1>5
<1>8. f + 1 \in S
  BY <1>5, <1>6, <1>7
<1>9. f + 1 <= f
  BY <1>3, <1>4, <1>8
<1> QED BY <1>1, <1>5, <1>9

(* What Settle does to the slots sl it starts from, when f blocks are final after. *)
Closed(s, t) ==
  /\ HasQuorums(s)
  /\ t.prepareCert = s.prepareCert /\ t.commitCert = s.commitCert
  /\ ~t.open /\ (t.failed <=> s.failed \/ ~s.open \/ s.block = NoBlock)

SettleKeep(r, sl, f) ==
  /\ \A q \in Correct : q # r => slots'[q] = slots[q] /\ finalizeNum'[q] = finalizeNum[q]
  /\ f \in finalizeNum[r]..MaxBlock /\ finalizeNum'[r] = f
  /\ \A j \in BlockNum : IF j \in finalizeNum[r] + 1 .. f THEN Closed(sl[j], slots'[r][j])
                         ELSE SameQuorums(sl[j], slots'[r][j])

LEMMA SettleKeeps ==
  ASSUME TypeOK, NEW r \in Correct, NEW k \in BlockNum, NEW s \in Slot, NEW msgs,
         NEW sl, sl = [slots[r] EXCEPT ![k] = s], Settle(r, k, s, msgs)
  PROVE  \E f \in 0..MaxBlock :
           /\ SettleKeep(r, sl, f)
           /\ \/ f = finalizeNum[r] /\ s.commitCert = slots[r][k].commitCert
              \/ f + 1 \in BlockNum => ~HasQuorums(sl[f + 1])
<1>1. /\ slots \in [Correct -> [BlockNum -> Slot]] /\ finalizeNum \in [Correct -> 0..MaxBlock]
      /\ MaxBlock \in Nat /\ sl \in [BlockNum -> Slot]
  BY BoundAssumption DEF TypeOK
<1>2. CASE slots[r][k].commitCert = s.commitCert
  <2>1. slots' = [slots EXCEPT ![r] = sl] /\ finalizeNum' = finalizeNum
    BY <1>2 DEF Settle
  <2>2. \A j \in BlockNum : SameQuorums(sl[j], slots'[r][j])
    BY <1>1, <2>1 DEF SameQuorums
  <2>3. \A j \in BlockNum : j \notin finalizeNum[r] + 1 .. finalizeNum[r]
    BY <1>1
  <2>4. SettleKeep(r, sl, finalizeNum[r])
    BY <1>1, <2>1, <2>2, <2>3 DEF SettleKeep
  <2> QED BY <1>1, <1>2, <2>4
<1>3. CASE slots[r][k].commitCert # s.commitCert
  <2> DEFINE f == FinalizeUpTo(r, sl)
             nums == finalizeNum[r] + 1 .. f
             closedSlots == [j \in BlockNum |-> IF j \in nums THEN CloseScratch(sl[j]) ELSE sl[j]]
  <2>1. PICK votes : FinalizeAndPropose(r, sl, votes)
    BY <1>3 DEF Settle
  <2>2. PICK pd, sb : Propose(r, closedSlots, pd, sb, f, votes)
    BY <2>1 DEF FinalizeAndPropose
  <2>3. finalizeNum' = [finalizeNum EXCEPT ![r] = f]
    BY <2>1 DEF FinalizeAndPropose
  <2>4. /\ f \in finalizeNum[r]..MaxBlock /\ f \in 0..MaxBlock
        /\ \A j \in nums : HasQuorums(sl[j])
    BY FinalizeUpToResult
  <2>5. f + 1 \in BlockNum => ~HasQuorums(sl[f + 1])
    BY FinalizeUpToStops
  <2> HIDE DEF f
  <2>6. closedSlots \in [BlockNum -> Slot]
    <3>1. \A j \in BlockNum : sl[j] \in Slot /\ CloseScratch(sl[j]) \in Slot
      BY <1>1, CloseScratchResult
    <3> QED BY <3>1
  <2>7. /\ \A q \in Correct : q # r => slots'[q] = slots[q]
        /\ \A j \in BlockNum : SameQuorums(closedSlots[j], slots'[r][j])
    <3> HIDE DEF closedSlots
    <3> QED BY <2>2, <2>6, ProposeKeeps
  <2>8. \A j \in BlockNum : IF j \in nums THEN Closed(sl[j], slots'[r][j])
                            ELSE SameQuorums(sl[j], slots'[r][j])
    <3> TAKE j \in BlockNum
    <3>1. SameQuorums(closedSlots[j], slots'[r][j]) /\ sl[j] \in Slot
      BY <1>1, <2>7
    <3>2. CASE j \in nums
      <4>1. HasQuorums(sl[j]) /\ closedSlots[j] = CloseScratch(sl[j])
        BY <2>4, <3>2
      <4> DEFINE c == CloseScratch(sl[j])
      <4>2. /\ c.prepareCert = sl[j].prepareCert /\ c.commitCert = sl[j].commitCert /\ ~c.open
            /\ (c.failed <=> sl[j].failed \/ ~sl[j].open \/ sl[j].block = NoBlock)
        BY <3>1 DEF CloseScratch, Slot
      <4> HIDE DEF c
      <4>3. SameQuorums(c, slots'[r][j])
        BY <3>1, <4>1 DEF c
      <4> QED BY <3>2, <4>1, <4>2, <4>3 DEF Closed, SameQuorums
    <3>3. CASE j \notin nums
      BY <3>1, <3>3
    <3> QED BY <3>2, <3>3
  <2>9. SettleKeep(r, sl, f)
    BY <1>1, <2>3, <2>4, <2>7, <2>8 DEF SettleKeep
  <2> QED BY <2>4, <2>5, <2>9
<1> QED BY <1>2, <1>3

-----------------------------------------------------------------------------
(* A handler that settles with an ordered slot keeps all slots final or ordered.  *)
LEMMA SettleFinal ==
  ASSUME FinalInv, NEW r \in Correct, NEW k \in BlockNum, k > finalizeNum[r],
         NEW s \in Slot, Ordered(s), SlotBacked(slots, r, k, s), NEW msgs, Settle(r, k, s, msgs)
  PROVE  SlotsFinal'
<1> DEFINE sl == [slots[r] EXCEPT ![k] = s]
<1>1. /\ TypeOK /\ SlotsBacked /\ SlotsFinal
      /\ slots \in [Correct -> [BlockNum -> Slot]] /\ finalizeNum \in [Correct -> 0..MaxBlock]
      /\ MaxBlock \in Nat
  BY BoundAssumption DEF FinalInv, PbftInv, TypeOK
<1>2. \A j \in BlockNum : sl[j] = IF j = k THEN s ELSE slots[r][j]
  BY <1>1
<1>3. PICK f \in 0..MaxBlock :
        /\ SettleKeep(r, sl, f)
        /\ \/ f = finalizeNum[r] /\ s.commitCert = slots[r][k].commitCert
           \/ f + 1 \in BlockNum => ~HasQuorums(sl[f + 1])
  BY <1>1, SettleKeeps
<1> HIDE DEF sl
<1>4. finalizeNum[r] \in Nat /\ f \in Nat /\ finalizeNum[r] <= f /\ finalizeNum'[r] = f
  BY <1>1, <1>3 DEF SettleKeep
<1>5. \A j \in BlockNum : j > finalizeNum[r] => Ordered(sl[j])
  BY <1>1, <1>2, <1>4 DEF SlotsFinal, SlotFinal, BlockNum
<1>6. \A j \in BlockNum : sl[j].block = NoBlock => sl[j].prepareCert = {}
  BY <1>1, <1>2 DEF SlotsBacked, SlotBacked
<1> SUFFICES ASSUME NEW q \in Correct, NEW j \in BlockNum
             PROVE  SlotFinal(slots'[q][j], j, finalizeNum'[q])
  BY DEF SlotsFinal
<1>7. CASE q # r
  BY <1>1, <1>3, <1>7 DEF SettleKeep, SlotsFinal
<1>8. CASE q = r /\ j \in finalizeNum[r] + 1 .. f
  <2>1. Closed(sl[j], slots'[r][j])
    BY <1>3, <1>8 DEF SettleKeep
  <2>2. j > finalizeNum[r] /\ j <= f
    BY <1>4, <1>8
  <2>3. Ordered(sl[j]) /\ sl[j].block # NoBlock
    BY <1>5, <1>6, <2>1, <2>2 DEF Closed, HasQuorums
  <2> QED BY <1>4, <1>8, <2>1, <2>2, <2>3 DEF SlotFinal, Closed, Ordered, HasQuorums
<1>9. CASE q = r /\ j <= finalizeNum[r]
  <2>1. j \notin finalizeNum[r] + 1 .. f /\ j <= f /\ j # k
    BY <1>4, <1>9 DEF BlockNum
  <2>2. SameQuorums(slots[r][j], slots'[r][j])
    BY <1>2, <1>3, <2>1 DEF SettleKeep
  <2>3. SlotFinal(slots[r][j], j, finalizeNum[r])
    BY <1>1 DEF SlotsFinal
  <2> QED BY <1>4, <1>9, <2>1, <2>2, <2>3 DEF SlotFinal, SameQuorums
<1>10. CASE q = r /\ j > f
  <2>1. j \notin finalizeNum[r] + 1 .. f /\ j > finalizeNum[r] /\ ~(j <= f)
    BY <1>4, <1>10 DEF BlockNum
  <2>2. SameQuorums(sl[j], slots'[r][j]) /\ Ordered(sl[j])
    BY <1>3, <1>5, <2>1 DEF SettleKeep
  <2>3. j = f + 1 => sl[j].commitCert = {}
    <3> SUFFICES ASSUME j = f + 1 PROVE sl[j].commitCert = {}
      OBVIOUS
    <3>1. CASE f = finalizeNum[r] /\ s.commitCert = slots[r][k].commitCert
      <4>1. slots[r][j].commitCert = {}
        BY <1>1, <1>4, <2>1, <3>1 DEF SlotsFinal, SlotFinal
      <4> QED BY <1>2, <3>1, <4>1
    <3>2. CASE ~HasQuorums(sl[j])
      BY <2>2, <3>2 DEF HasQuorums, Ordered
    <3> QED BY <1>3, <3>1, <3>2
  <2> QED BY <1>4, <1>10, <2>1, <2>2, <2>3 DEF SlotFinal, SameQuorums, Ordered
<1> QED BY <1>4, <1>7, <1>8, <1>9, <1>10 DEF BlockNum

(* What is final has both quorums, what is not is in order.                       *)
LEMMA SlotFacts ==
  ASSUME FinalInv, NEW r \in Correct, NEW k \in BlockNum
  PROVE  /\ slots[r][k] \in Slot /\ SlotBacked(slots, r, k, slots[r][k]) /\ r \in Replica
         /\ k > finalizeNum[r] => Ordered(slots[r][k])
         /\ ~(k > finalizeNum[r]) => /\ slots[r][k].commitCert # {} /\ slots[r][k].prepareCert # {}
                                     /\ slots[r][k].block # NoBlock
<1>1. PbftInv /\ SlotFinal(slots[r][k], k, finalizeNum[r]) /\ FinalizedCommitted
      /\ finalizeNum[r] \in Nat /\ k \in Nat /\ k >= 1
  BY BoundAssumption DEF FinalInv, SlotsFinal, PbftInv, TypeOK, BlockNum
<1>2. slots[r][k] \in Slot /\ SlotBacked(slots, r, k, slots[r][k]) /\ r \in Replica
  BY <1>1, SlotsType
<1>3. ASSUME k > finalizeNum[r] PROVE Ordered(slots[r][k])
  BY <1>1, <1>3 DEF SlotFinal
<1>4. ASSUME ~(k > finalizeNum[r])
      PROVE  /\ slots[r][k].commitCert # {} /\ slots[r][k].prepareCert # {}
             /\ slots[r][k].block # NoBlock
  <2>1. k \in 1..finalizeNum[r] /\ k <= finalizeNum[r]
    BY <1>1, <1>4
  <2>2. slots[r][k].commitCert # {}
    BY <1>1, <2>1 DEF FinalizedCommitted
  <2> QED BY <1>1, <1>2, <2>1, <2>2 DEF SlotFinal, SlotBacked
<1> QED BY <1>2, <1>3, <1>4

-----------------------------------------------------------------------------
(* One lemma per handler.                                                         *)

LEMMA AcceptFinal ==
  ASSUME FinalInv, NEW r \in Correct, NEW k \in BlockNum, NEW b \in Block, AcceptPrePrepare(r, k, b)
  PROVE  SlotsFinal'
<1> DEFINE x == slots[r][k]
           t == CheckCommitQuorum(CheckPrepareQuorum(r, OpenScratch(r, [x EXCEPT !.block = b], b)))
<1>1. x.block = NoBlock /\ Settle(r, k, t, {Prepare(r, k, b)})
  BY DEF AcceptPrePrepare
<1>2. k > finalizeNum[r] /\ x \in Slot /\ SlotBacked(slots, r, k, x) /\ r \in Replica /\ Ordered(x)
  BY <1>1, SlotFacts
<1>3. x.prepareCert = {}
  BY <1>1, <1>2 DEF SlotBacked
<1>4. t \in Slot /\ SlotBacked(slots, r, k, t)
  BY <1>1, <1>2, AcceptBacked
<1>5. Ordered(t)
  BY <1>2, <1>3, AcceptOrdered
<1> HIDE DEF t
<1> QED BY <1>1, <1>2, <1>4, <1>5, SettleFinal

LEMMA PrepareFinal ==
  ASSUME FinalInv, NEW r \in Correct, NEW q \in Replica, NEW k \in BlockNum, NEW b \in Block,
         ReceivePrepare(r, q, k, b)
  PROVE  SlotsFinal'
<1> DEFINE x == slots[r][k]
           t == PrepareVoted(r, x, q, b)
<1>1. x.prepareCert = {} /\ Settle(r, k, t, {})
  BY DEF ReceivePrepare, IsPrepared
<1>2. k > finalizeNum[r] /\ x \in Slot /\ SlotBacked(slots, r, k, x) /\ r \in Replica /\ Ordered(x)
  BY <1>1, SlotFacts
<1>3. t \in Slot /\ SlotBacked(slots, r, k, t)
  BY <1>1, <1>2, PrepareVotedBacked
<1>4. Ordered(t)
  BY <1>1, <1>2, PrepareVotedOrdered
<1> HIDE DEF t
<1> QED BY <1>1, <1>2, <1>3, <1>4, SettleFinal

LEMMA CommitFinal ==
  ASSUME FinalInv, NEW r \in Correct, NEW q \in Replica, NEW k \in BlockNum, NEW b \in Block,
         ReceiveCommit(r, q, k, b)
  PROVE  SlotsFinal'
<1> DEFINE x == slots[r][k]
           t == CommitVoted(x, q, b)
<1>1. CanCommit(r, q, k, b) /\ Settle(r, k, t, {})
      /\ ~(x.prepareCert # {} /\ x.commitCert # {})
  BY DEF ReceiveCommit, IsCommitted, IsPrepared
<1>2. k > finalizeNum[r] /\ x \in Slot /\ SlotBacked(slots, r, k, x) /\ r \in Replica /\ Ordered(x)
  BY <1>1, SlotFacts
<1>3. Backed(slots, q, k, b)
  BY <1>1, CommitIsBacked DEF FinalInv
<1>4. t \in Slot /\ SlotBacked(slots, r, k, t)
  BY <1>1, <1>2, <1>3, CommitVotedBacked
<1>5. Ordered(t)
  BY <1>1, <1>2, CommitVotedOrdered
<1> HIDE DEF t
<1> QED BY <1>1, <1>2, <1>4, <1>5, SettleFinal

LEMMA QuietFinal ==
  ASSUME SlotsFinal, UNCHANGED <<slots, finalizeNum>>
  PROVE  SlotsFinal'
BY DEF SlotsFinal

LEMMA RequestFinal ==
  ASSUME FinalInv, NEW r \in Correct, NEW command, Request(r, command)
  PROVE  SlotsFinal'
<1>1. TypeOK /\ SlotsFinal /\ finalizeNum' = finalizeNum
  BY DEF FinalInv, PbftInv, Request
<1>2. CASE r = Primary
  <2>1. Propose(r, slots[r], Pushed(r, command), submitted[r], finalizeNum[r], {})
    BY <1>2 DEF Request
  <2>2. slots[r] \in [BlockNum -> Slot]
    BY <1>1 DEF TypeOK
  <2>3. /\ \A q \in Correct : q # r => slots'[q] = slots[q]
        /\ \A k \in BlockNum : SameQuorums(slots[r][k], slots'[r][k])
    BY <1>1, <2>1, <2>2, ProposeKeeps
  <2>4. \A q \in Correct : \A k \in BlockNum : SameQuorums(slots[q][k], slots'[q][k])
    BY <2>3 DEF SameQuorums
  <2> QED BY <1>1, <2>4 DEF SlotsFinal, SlotFinal, Ordered, SameQuorums
<1>3. CASE r # Primary
  BY <1>1, <1>3, QuietFinal DEF Request
<1> QED BY <1>2, <1>3

LEMMA FinalInit == Init => SlotsFinal
BY DEF Init, SlotsFinal, SlotFinal, Ordered, EmptySlot, BlockNum

LEMMA FinalNext == FinalInv /\ [Next]_vars => FinalInv'
<1> SUFFICES ASSUME FinalInv, [Next]_vars PROVE SlotsFinal'
  BY PbftNextInv DEF FinalInv
<1>1. CASE UNCHANGED vars
  BY <1>1, QuietFinal DEF vars, FinalInv
<1>2. ASSUME NEW r \in Correct, Receive(r) PROVE SlotsFinal'
  <2>1. PICK k \in BlockNum, b \in KnownBlocks :
          \/ AcceptPrePrepare(r, k, b)
          \/ RepeatVotes(r, k, b)
          \/ \E q \in Replica : ReceivePrepare(r, q, k, b) \/ ReceiveCommit(r, q, k, b)
    BY <1>2 DEF Receive
  <2>2. b \in Block
    BY KnownBlocksType DEF FinalInv, PbftInv
  <2>3. CASE RepeatVotes(r, k, b)
    BY <2>3, QuietFinal DEF RepeatVotes, FinalInv
  <2> QED BY <2>1, <2>2, <2>3, AcceptFinal, PrepareFinal, CommitFinal
<1>3. ASSUME NEW r \in Correct, Tick(r) PROVE SlotsFinal'
  BY <1>3, QuietFinal DEF Tick, FinalInv
<1>4. ASSUME NEW command \in Command, NEW r \in Correct, ClientRequest(r, command) PROVE SlotsFinal'
  BY <1>4, RequestFinal DEF ClientRequest
<1>5. ASSUME NEW command \in Command, ReceiveForward(command) PROVE SlotsFinal'
  BY <1>5, RequestFinal DEF ReceiveForward
<1> QED BY <1>1, <1>2, <1>3, <1>4, <1>5 DEF Next

(* Scratches and quorums are in order in every reachable state.                    *)
THEOREM PbftFinalInvariant == Spec => []FinalInv
<1>1. Init => FinalInv
  BY PbftInitInv, FinalInit DEF FinalInv
<1> QED BY <1>1, FinalNext, PTL DEF Spec

(* No assertion or unwrap of the main path fails: a quorum is never replaced, a    *)
(* block and its scratch are there when it is finalized.                           *)
THEOREM PbftNeverPanics == Spec => []NoPanic
<1>1. FinalInv => NoPanic
  BY DEF FinalInv, SlotsFinal, SlotFinal, Ordered, NoPanic
<1> QED BY <1>1, PbftFinalInvariant, PTL

(* The scratch of a final block stays closed, whatever votes still come.           *)
THEOREM PbftScratchCollected == Spec => []ScratchCollected
<1>1. ASSUME FinalInv PROVE ScratchCollected
  <2> SUFFICES ASSUME NEW r \in Correct, NEW k \in 1..finalizeNum[r] PROVE ~slots[r][k].open
    BY DEF ScratchCollected
  <2>1. k \in BlockNum /\ k <= finalizeNum[r]
    BY <1>1, BoundAssumption DEF FinalInv, PbftInv, TypeOK, BlockNum
  <2> QED BY <1>1, <2>1 DEF FinalInv, SlotsFinal, SlotFinal
<1> QED BY <1>1, PbftFinalInvariant, PTL

(* No block with both quorums waits right behind what is final.                    *)
THEOREM PbftFinalizesEagerly == Spec => []FinalizedEagerly
<1>1. ASSUME FinalInv PROVE FinalizedEagerly
  <2> SUFFICES ASSUME NEW r \in Correct PROVE FinalizeUpTo(r, slots[r]) = finalizeNum[r]
    BY DEF FinalizedEagerly
  <2> DEFINE f == FinalizeUpTo(r, slots[r])
             n == finalizeNum[r]
  <2>1. /\ f \in n..MaxBlock /\ n \in 0..MaxBlock /\ MaxBlock \in Nat
        /\ \A k \in n + 1 .. f : HasQuorums(slots[r][k])
    BY <1>1, FinalizeUpToResult, BoundAssumption DEF FinalInv, PbftInv, TypeOK
  <2> HIDE DEF f
  <2> SUFFICES ASSUME f > n PROVE FALSE
    BY <2>1 DEF f
  <2>2. n + 1 \in BlockNum /\ n + 1 \in n + 1 .. f /\ ~(n + 1 <= n)
    BY <2>1 DEF BlockNum
  <2>3. slots[r][n + 1].commitCert = {}
    BY <1>1, <2>2 DEF FinalInv, SlotsFinal, SlotFinal
  <2> QED BY <2>1, <2>2, <2>3 DEF HasQuorums
<1> QED BY <1>1, PbftFinalInvariant, PTL

-----------------------------------------------------------------------------
(* The loop of propose stops for lack of commands or of room.                     *)
LEMMA ProposeBusy ==
  ASSUME TypeOK, Primary \in Correct, NEW sl, NEW pd, NEW sb, NEW f \in 0..MaxBlock, NEW msgs,
         Propose(Primary, sl, pd, sb, f, msgs)
  PROVE  \/ PoolCommands(pending'[Primary]) = {}
         \/ proposeNum'[Primary] - f >= MaxInflight
         \/ proposeNum'[Primary] = MaxBlock
<1> DEFINE ready == PoolCommands(pd)
           n == Room(Primary, f)
<1>1. PICK bs \in Closings(ready, n) :
        /\ proposeNum' = [proposeNum EXCEPT ![Primary] = proposeNum[Primary] + Len(bs)]
        /\ pending' = [pending EXCEPT ![Primary] =
             [c \in Client |-> IF c \in {x.client : x \in UNION {bs[i] : i \in DOMAIN bs}} THEN 0 ELSE pd[c]]]
  BY DEF Propose
<1>2. /\ proposeNum \in [Correct -> 0..MaxBlock] /\ MaxBlock \in Nat /\ MaxInflight \in Nat
      /\ pending \in [Correct -> Pool]
  BY BoundAssumption DEF TypeOK, Pool
<1>3. UNION {bs[i] : i \in DOMAIN bs} = ready \/ Len(bs) = n
  BY <1>1 DEF Closings
<1>4. CASE Len(bs) = n
  <2>1. proposeNum'[Primary] = proposeNum[Primary] + n
    BY <1>1, <1>2, <1>4
  <2>2. proposeNum[Primary] \in Nat
    BY <1>2
  <2> QED BY <1>2, <2>1, <2>2 DEF Room
<1>5. CASE UNION {bs[i] : i \in DOMAIN bs} = ready
  <2> DEFINE closed == {x.client : x \in UNION {bs[i] : i \in DOMAIN bs}}
  <2>1. \A c \in Client : pd[c] # 0 => c \in closed
    <3> SUFFICES ASSUME NEW c \in Client, pd[c] # 0 PROVE c \in closed
      OBVIOUS
    <3>1. [client |-> c, seq |-> pd[c]] \in ready
      BY DEF PoolCommands
    <3> QED BY <1>5, <3>1
  <2>2. \A c \in Client : pending'[Primary][c] = IF c \in closed THEN 0 ELSE pd[c]
    BY <1>1, <1>2
  <2> HIDE DEF closed
  <2> QED BY <2>1, <2>2 DEF PoolCommands
<1> QED BY <1>3, <1>4, <1>5

(* What another replica proposes (nothing) leaves the primary's pool and window.   *)
LEMMA ProposeElsewhere ==
  ASSUME NEW r \in Correct, NEW q \in Correct, q # r, TypeOK,
         NEW sl, NEW pd, NEW sb, NEW f, NEW msgs, Propose(r, sl, pd, sb, f, msgs)
  PROVE  pending'[q] = pending[q] /\ proposeNum'[q] = proposeNum[q]
<1>1. \E n, p : pending' = [pending EXCEPT ![r] = p] /\ proposeNum' = [proposeNum EXCEPT ![r] = n]
  BY DEF Propose
<1> QED BY <1>1 DEF TypeOK

LEMMA IdleKept ==
  ASSUME NeverIdle, UNCHANGED <<pending, proposeNum, finalizeNum>>
  PROVE  NeverIdle'
BY DEF NeverIdle

LEMMA SettleBusy ==
  ASSUME TypeOK, NeverIdle, NEW r \in Correct, NEW k, NEW s, NEW msgs, Settle(r, k, s, msgs)
  PROVE  NeverIdle'
<1> DEFINE sl == [slots[r] EXCEPT ![k] = s]
           f == FinalizeUpTo(r, sl)
<1>1. CASE slots[r][k].commitCert = s.commitCert
  BY <1>1, IdleKept DEF Settle
<1>2. CASE slots[r][k].commitCert # s.commitCert
  <2>1. PICK votes : FinalizeAndPropose(r, sl, votes)
    BY <1>2 DEF Settle
  <2>2. PICK cl, pd, sb : Propose(r, cl, pd, sb, f, votes)
    BY <2>1 DEF FinalizeAndPropose
  <2>3. finalizeNum' = [finalizeNum EXCEPT ![r] = f]
    BY <2>1 DEF FinalizeAndPropose
  <2>4. f \in 0..MaxBlock
    BY FinalizeUpToResult
  <2> HIDE DEF f
  <2> SUFFICES ASSUME Primary \in Correct
               PROVE  \/ PoolCommands(pending'[Primary]) = {}
                      \/ proposeNum'[Primary] - finalizeNum'[Primary] >= MaxInflight
                      \/ proposeNum'[Primary] = MaxBlock
    BY DEF NeverIdle, PoolCommands
  <2>5. CASE r = Primary
    <3>1. finalizeNum'[Primary] = f
      BY <2>3, <2>5 DEF TypeOK
    <3> QED BY <2>2, <2>4, <2>5, <3>1, ProposeBusy
  <2>6. CASE r # Primary
    <3>1. finalizeNum'[Primary] = finalizeNum[Primary]
      BY <2>3, <2>6 DEF TypeOK
    <3>2. pending'[Primary] = pending[Primary] /\ proposeNum'[Primary] = proposeNum[Primary]
      BY <2>2, <2>6, ProposeElsewhere
    <3> QED BY <3>1, <3>2 DEF NeverIdle
  <2> QED BY <2>5, <2>6
<1> QED BY <1>1, <1>2

LEMMA RequestBusy ==
  ASSUME TypeOK, NeverIdle, NEW r \in Correct, NEW command, Request(r, command)
  PROVE  NeverIdle'
<1> SUFFICES ASSUME Primary \in Correct
             PROVE  \/ PoolCommands(pending'[Primary]) = {}
                    \/ proposeNum'[Primary] - finalizeNum'[Primary] >= MaxInflight
                    \/ proposeNum'[Primary] = MaxBlock
  BY DEF NeverIdle, PoolCommands
<1>1. finalizeNum' = finalizeNum
  BY DEF Request
<1>2. CASE r = Primary
  <2>1. Propose(r, slots[r], Pushed(r, command), submitted[r], finalizeNum[r], {})
    BY <1>2 DEF Request
  <2>2. finalizeNum[r] \in 0..MaxBlock
    BY DEF TypeOK
  <2> QED BY <1>1, <1>2, <2>1, <2>2, ProposeBusy
<1>3. CASE r # Primary
  <2>1. proposeNum' = proposeNum /\ pending' = [pending EXCEPT ![r] = Pushed(r, command)]
    BY <1>3 DEF Request
  <2>2. pending'[Primary] = pending[Primary]
    BY <1>3, <2>1 DEF TypeOK
  <2> QED BY <1>1, <2>1, <2>2 DEF NeverIdle
<1> QED BY <1>2, <1>3

(* The primary leaves commands waiting only when its window is full: every handler *)
(* that empties the window or fills the pool proposes.                             *)
THEOREM PbftNeverIdle == Spec => []NeverIdle
<1>1. Init => NeverIdle
  BY DEF Init, NeverIdle, PoolCommands
<1>2. ASSUME TypeOK, NeverIdle, [Next]_vars PROVE NeverIdle'
  <2>1. CASE UNCHANGED vars
    BY <1>2, <2>1, IdleKept DEF vars
  <2>2. ASSUME NEW r \in Correct, Receive(r) PROVE NeverIdle'
    <3>1. PICK k \in BlockNum, b \in KnownBlocks :
            \/ AcceptPrePrepare(r, k, b)
            \/ RepeatVotes(r, k, b)
            \/ \E q \in Replica : ReceivePrepare(r, q, k, b) \/ ReceiveCommit(r, q, k, b)
      BY <2>2 DEF Receive
    <3>2. CASE RepeatVotes(r, k, b)
      BY <1>2, <3>2, IdleKept DEF RepeatVotes
    <3>3. CASE ~RepeatVotes(r, k, b)
      <4>1. \E s, msgs : Settle(r, k, s, msgs)
        BY <3>1, <3>3 DEF AcceptPrePrepare, ReceivePrepare, ReceiveCommit
      <4> QED BY <1>2, <4>1, SettleBusy
    <3> QED BY <3>2, <3>3
  <2>3. ASSUME NEW r \in Correct, Tick(r) PROVE NeverIdle'
    BY <1>2, <2>3, IdleKept DEF Tick
  <2>4. ASSUME NEW command \in Command, NEW r \in Correct, ClientRequest(r, command) PROVE NeverIdle'
    BY <1>2, <2>4, RequestBusy DEF ClientRequest
  <2>5. ASSUME NEW command \in Command, ReceiveForward(command) PROVE NeverIdle'
    BY <1>2, <2>5, RequestBusy DEF ReceiveForward
  <2> QED BY <1>2, <2>1, <2>2, <2>3, <2>4, <2>5 DEF Next
<1>3. TypeOK /\ NeverIdle /\ [Next]_vars => NeverIdle'
  BY <1>2
<1> QED BY <1>1, <1>3, PbftTypeCorrect, PTL DEF Spec
=============================================================================
