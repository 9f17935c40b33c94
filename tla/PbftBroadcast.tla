--------------------------- MODULE PbftBroadcast ---------------------------
(* Proofs about Pbft: the replicas implement AtomicBroadcast, and with a       *)
(* correct primary they keep the order of each client's commands. All of that   *)
(* holds over links that lose messages, too.                                   *)
EXTENDS PbftProofs, PbftLossy, SequenceTheorems

(* What a correct primary has proposed: the window is kept, and all blocks      *)
(* anywhere are those of its log.                                               *)
Origin ==
  Primary \in Correct =>
    /\ proposeNum[Primary] - finalizeNum[Primary] <= MaxInflight
    /\ \A k \in BlockNum : \A b \in Block :
         PrePrepare(k, b) \in sent => k <= proposeNum[Primary] /\ b = slots[Primary][k].block
    /\ \A r \in Correct : \A k \in BlockNum :
         slots[r][k].block # NoBlock => PrePrepare(k, slots[r][k].block) \in sent

-----------------------------------------------------------------------------
(* A call of propose at r with room for f final blocks closes the n batches bs.  *)
Closes(bs, n, c) == \E i \in 1..n : \E x \in bs[i] : x.client = c

Proposed(r, sl, pd, sb, f, msgs, bs, n) ==
  /\ n > 0 => r = Primary
  /\ r = Primary => proposeNum[r] + n - f <= MaxInflight
  /\ proposeNum[r] + n <= MaxBlock
  /\ \A i \in 1..n : bs[i] \in Block /\ bs[i] \subseteq PoolCommands(pd)
  /\ \A i, j \in 1..n : i # j => bs[i] \cap bs[j] = {}
  /\ \A q \in Correct : q # r => /\ slots'[q] = slots[q] /\ proposeNum'[q] = proposeNum[q]
                                 /\ pending'[q] = pending[q] /\ submitted'[q] = submitted[q]
  /\ \A k \in BlockNum :
       slots'[r][k].block = IF k - proposeNum[r] \in 1..n /\ sl[k].block = NoBlock
                            THEN bs[k - proposeNum[r]] ELSE sl[k].block
  /\ proposeNum'[r] = proposeNum[r] + n
  /\ \A c \in Client : /\ pending'[r][c] = IF Closes(bs, n, c) THEN 0 ELSE pd[c]
                       /\ submitted'[r][c] = IF Closes(bs, n, c) THEN pd[c] ELSE sb[c]
  /\ sent' = sent \cup msgs \cup {PrePrepare(proposeNum[r] + i, bs[i]) : i \in 1..n}

LEMMA ProposeDetail ==
  ASSUME TypeOK, NEW r \in Correct, NEW sl \in [BlockNum -> Slot], NEW pd \in Pool, NEW sb \in Pool,
         NEW f \in 0..MaxBlock, NEW msgs, Propose(r, sl, pd, sb, f, msgs)
  PROVE  \E n \in Nat : \E bs : Proposed(r, sl, pd, sb, f, msgs, bs, n)
<1> DEFINE ready == PoolCommands(pd)
           first == proposeNum[r]
<1>1. PICK bs \in IF r = Primary THEN Closings(ready, Room(r, f)) ELSE {<<>>} :
        /\ slots' = [slots EXCEPT ![r] =
                       [k \in BlockNum |-> IF k - first \in DOMAIN bs
                                           THEN Fill(sl[k], bs[k - first]) ELSE sl[k]]]
        /\ proposeNum' = [proposeNum EXCEPT ![r] = first + Len(bs)]
        /\ pending' = [pending EXCEPT ![r] =
             [c \in Client |-> IF c \in {x.client : x \in UNION {bs[i] : i \in DOMAIN bs}} THEN 0 ELSE pd[c]]]
        /\ submitted' = [submitted EXCEPT ![r] =
             [c \in Client |-> IF c \in {x.client : x \in UNION {bs[i] : i \in DOMAIN bs}} THEN pd[c] ELSE sb[c]]]
        /\ sent' = sent \cup msgs \cup {PrePrepare(first + i, bs[i]) : i \in DOMAIN bs}
  BY DEF Propose
<1>2. first \in 0..MaxBlock /\ MaxBlock \in Nat /\ MaxInflight \in Nat
  BY BoundAssumption DEF TypeOK
<1>3. ready \subseteq Command
  BY DEF PoolCommands, Command, Pool
<1>4. PICK n \in Nat :
        /\ bs \in [1..n -> SUBSET ready] /\ n <= MaxBlock - first
        /\ n > 0 => r = Primary
        /\ r = Primary => first + n - f <= MaxInflight
        /\ \A i, j \in 1..n : i # j => bs[i] \cap bs[j] = {}
  <2>1. CASE r = Primary
    <3>1. bs \in Closings(ready, Room(r, f))
      BY <1>1, <2>1
    <3>2. /\ Room(r, f) \in Int /\ Room(r, f) <= MaxBlock - first
          /\ Room(r, f) <= MaxInflight - (first - f)
      BY <1>2 DEF Room
    <3>3. PICK n \in 0..Room(r, f) : bs \in [1..n -> SUBSET ready]
      BY <3>1 DEF Closings
    <3>4. \A i, j \in 1..n : i # j => bs[i] \cap bs[j] = {}
      BY <3>1, <3>3 DEF Closings
    <3>5. n \in Nat /\ n <= MaxBlock - first /\ first + n - f <= MaxInflight
      BY <1>2, <3>2
    <3> QED BY <2>1, <3>3, <3>4, <3>5
  <2>2. CASE r # Primary
    <3>1. bs = <<>> /\ bs \in [1..0 -> SUBSET ready]
      BY <1>1, <2>2
    <3> QED BY <1>2, <2>2, <3>1
  <2> QED BY <2>1, <2>2
<1>5. DOMAIN bs = 1..n /\ Len(bs) = n /\ \A i \in 1..n : bs[i] \in Block /\ bs[i] \subseteq ready
  BY <1>3, <1>4 DEF Block
<1>6. /\ slots \in [Correct -> [BlockNum -> Slot]] /\ proposeNum \in [Correct -> 0..MaxBlock]
      /\ pending \in [Correct -> Pool] /\ submitted \in [Correct -> Pool]
  BY DEF TypeOK, Pool
<1>7. \A k \in BlockNum :
        slots'[r][k].block = IF k - first \in 1..n /\ sl[k].block = NoBlock
                             THEN bs[k - first] ELSE sl[k].block
  <2> TAKE k \in BlockNum
  <2>1. slots'[r][k] = IF k - first \in 1..n THEN Fill(sl[k], bs[k - first]) ELSE sl[k]
    BY <1>1, <1>5, <1>6
  <2>2. \A s \in Slot : \A b : Fill(s, b).block = IF s.block = NoBlock THEN b ELSE s.block
    BY DEF Fill, Slot
  <2>3. sl[k] \in Slot
    OBVIOUS
  <2> QED BY <2>1, <2>2, <2>3
<1>8. \A q \in Correct : q # r => /\ slots'[q] = slots[q] /\ proposeNum'[q] = proposeNum[q]
                                  /\ pending'[q] = pending[q] /\ submitted'[q] = submitted[q]
  BY <1>1, <1>6
<1>9. proposeNum'[r] = first + n /\ first + n <= MaxBlock
  BY <1>1, <1>2, <1>4, <1>5, <1>6
<1>10. \A c \in Client : /\ pending'[r][c] = IF Closes(bs, n, c) THEN 0 ELSE pd[c]
                         /\ submitted'[r][c] = IF Closes(bs, n, c) THEN pd[c] ELSE sb[c]
  <2> DEFINE closed == {x.client : x \in UNION {bs[i] : i \in DOMAIN bs}}
  <2>1. \A c \in Client : c \in closed <=> Closes(bs, n, c)
    BY <1>5 DEF Closes
  <2>2. \A c \in Client : /\ pending'[r][c] = IF c \in closed THEN 0 ELSE pd[c]
                          /\ submitted'[r][c] = IF c \in closed THEN pd[c] ELSE sb[c]
    BY <1>1, <1>6
  <2> HIDE DEF closed
  <2> QED BY <2>1, <2>2
<1>11. sent' = sent \cup msgs \cup {PrePrepare(first + i, bs[i]) : i \in 1..n}
  BY <1>1, <1>5
<1>12. Proposed(r, sl, pd, sb, f, msgs, bs, n)
  BY <1>4, <1>5, <1>7, <1>8, <1>9, <1>10, <1>11 DEF Proposed
<1> QED BY <1>12

-----------------------------------------------------------------------------
(* A step of r in the terms of the log: votes and proposals turn its slots into   *)
(* sl, which f blocks of are final then, and it proposes bs from its pool.         *)
Moves(r, sl, pd, sb, f, msgs, bs, n) ==
  /\ \A k \in BlockNum :
       /\ sl[k] \in Slot /\ SlotBacked(slots, r, k, sl[k])
       /\ \/ sl[k].block = slots[r][k].block
          \/ r # Primary /\ slots[r][k].block = NoBlock /\ PrePrepareSigned(k, sl[k].block)
  /\ f \in finalizeNum[r]..MaxBlock /\ finalizeNum'[r] = f
  /\ \A q \in Correct : q # r => finalizeNum'[q] = finalizeNum[q]
  /\ \A k \in finalizeNum[r] + 1 .. f : HasQuorums(sl[k])
  /\ \A m \in msgs : m.type # "PrePrepare"
  /\ \A c \in Client : pd[c] \in Nat /\ sb[c] \in Nat /\ sb[c] >= submitted[r][c]
  /\ (\A c \in Client : pending[r][c] = 0 \/ pending[r][c] > submitted[r][c])
       => \A c \in Client : pd[c] = 0 \/ pd[c] > sb[c]
  /\ n \in Nat /\ Proposed(r, sl, pd, sb, f, msgs, bs, n)

StepMoves ==
  \E r \in Correct : \E sl, pd, sb, f, msgs, bs, n : Moves(r, sl, pd, sb, f, msgs, bs, n)

(* A step that proposes nothing.                                                  *)
LEMMA NothingProposed ==
  ASSUME TypeOK, Origin, NEW r \in Correct, NEW sl, slots' = [slots EXCEPT ![r] = sl],
         NEW pd, pending' = [pending EXCEPT ![r] = pd], NEW msgs, sent' = sent \cup msgs,
         UNCHANGED <<proposeNum, submitted>>, pd \in Pool, sl \in [BlockNum -> Slot]
  PROVE  Proposed(r, sl, pd, submitted[r], finalizeNum[r], msgs, <<>>, 0)
<1>1. /\ slots \in [Correct -> [BlockNum -> Slot]] /\ proposeNum \in [Correct -> 0..MaxBlock]
      /\ finalizeNum \in [Correct -> 0..MaxBlock] /\ MaxBlock \in Nat
      /\ pending \in [Correct -> Pool] /\ submitted \in [Correct -> Pool]
  BY BoundAssumption DEF TypeOK, Pool
<1>2. 1..0 = {}
  OBVIOUS
<1>3. \A c : ~Closes(<<>>, 0, c)
  BY <1>2 DEF Closes
<1>4. slots'[r] = sl /\ pending'[r] = pd
      /\ \A q \in Correct : q # r => slots'[q] = slots[q] /\ pending'[q] = pending[q]
  BY <1>1
<1>5. r = Primary => proposeNum[r] + 0 - finalizeNum[r] <= MaxInflight
  BY <1>1 DEF Origin
<1>6. proposeNum[r] + 0 <= MaxBlock /\ proposeNum'[r] = proposeNum[r] + 0 /\ ~(0 > 0)
  BY <1>1
<1>7. sent' = sent \cup msgs \cup {PrePrepare(proposeNum[r] + i, <<>>[i]) : i \in 1..0}
  BY <1>2
<1>8. \A k \in BlockNum : slots'[r][k].block = sl[k].block
  BY <1>4
<1> QED BY <1>2, <1>3, <1>4, <1>5, <1>6, <1>7, <1>8 DEF Proposed

(* A handler that settles.                                                        *)
LEMMA SettleMoves ==
  ASSUME FinalInv, Origin, NEW r \in Correct, NEW k \in BlockNum, NEW s \in Slot,
         Grown(slots[r][k], s), SlotBacked(slots, r, k, s),
         \/ s.block = slots[r][k].block
         \/ r # Primary /\ slots[r][k].block = NoBlock /\ PrePrepareSigned(k, s.block),
         NEW msgs \in SUBSET Message, \A m \in msgs : m.type # "PrePrepare", Settle(r, k, s, msgs)
  PROVE  StepMoves
<1> DEFINE sl == [slots[r] EXCEPT ![k] = s]
           votes == Votes(r, k, s, msgs)
<1>1. /\ TypeOK /\ SlotsBacked
      /\ slots \in [Correct -> [BlockNum -> Slot]] /\ finalizeNum \in [Correct -> 0..MaxBlock]
      /\ pending \in [Correct -> Pool] /\ submitted \in [Correct -> Pool]
      /\ MaxBlock \in Nat /\ MaxSeq \in Nat
  BY BoundAssumption DEF FinalInv, PbftInv, TypeOK, Pool
<1>2. /\ sl \in [BlockNum -> Slot]
      /\ \A j \in BlockNum : sl[j] = IF j = k THEN s ELSE slots[r][j]
  BY <1>1
<1>3. \A m \in votes : m.type # "PrePrepare"
  BY DEF Votes, Commit
<1>4. IF slots[r][k].commitCert = s.commitCert
      THEN /\ slots' = [slots EXCEPT ![r] = sl]
           /\ sent' = sent \cup votes
           /\ UNCHANGED <<proposeNum, finalizeNum, pending, submitted, ticked, ended>>
      ELSE FinalizeAndPropose(r, sl, votes)
  BY DEF Settle, Votes
<1> HIDE DEF sl, votes
<1>5. \A j \in BlockNum :
        /\ sl[j] \in Slot /\ SlotBacked(slots, r, j, sl[j])
        /\ \/ sl[j].block = slots[r][j].block
           \/ r # Primary /\ slots[r][j].block = NoBlock /\ PrePrepareSigned(j, sl[j].block)
  <2> TAKE j \in BlockNum
  <2>1. CASE j = k
    BY <1>2, <2>1
  <2>2. CASE j # k
    BY <1>1, <1>2, <2>2 DEF SlotsBacked
  <2> QED BY <2>1, <2>2
<1>6. CASE slots[r][k].commitCert = s.commitCert
  <2> DEFINE f == finalizeNum[r]
  <2>1. pending' = [pending EXCEPT ![r] = pending[r]]
    BY <1>1, <1>4, <1>6
  <2>2. Proposed(r, sl, pending[r], submitted[r], f, votes, <<>>, 0)
    BY <1>1, <1>2, <1>4, <1>6, <2>1, NothingProposed
  <2>3. \A c \in Client : /\ pending[r][c] \in Nat /\ submitted[r][c] \in Nat
                          /\ submitted[r][c] >= submitted[r][c]
    BY <1>1 DEF Pool
  <2>4. f \in finalizeNum[r]..MaxBlock /\ finalizeNum' = finalizeNum /\ finalizeNum[r] + 1 .. f = {}
    BY <1>1, <1>4, <1>6
  <2>5. Moves(r, sl, pending[r], submitted[r], f, votes, <<>>, 0)
    BY <1>3, <1>5, <2>2, <2>3, <2>4 DEF Moves
  <2> QED BY <2>5 DEF StepMoves
<1>7. CASE slots[r][k].commitCert # s.commitCert
  <2> DEFINE f == FinalizeUpTo(r, sl)
             nums == finalizeNum[r] + 1 .. f
             closedSlots == [j \in BlockNum |-> IF j \in nums THEN CloseScratch(sl[j]) ELSE sl[j]]
             done == [c \in Client |-> CommittedSeq(sl, nums, c)]
             pd == [c \in Client |-> IF pending[r][c] <= done[c] THEN 0 ELSE pending[r][c]]
             sb == [c \in Client |-> IF submitted[r][c] < done[c] THEN done[c] ELSE submitted[r][c]]
  <2>1. /\ finalizeNum' = [finalizeNum EXCEPT ![r] = f]
        /\ Propose(r, closedSlots, pd, sb, f, votes)
    BY <1>4, <1>7 DEF FinalizeAndPropose
  <2>2. /\ f \in finalizeNum[r]..MaxBlock /\ f \in 0..MaxBlock
        /\ \A j \in nums : HasQuorums(sl[j])
    BY <1>1, FinalizeUpToResult
  <2>3. nums \in SUBSET BlockNum
    BY <1>1, <2>2 DEF BlockNum
  <2>4. done \in Pool
    BY <1>2, <2>3, CommittedSeqType DEF Pool
  <2> HIDE DEF done
  <2>5. \A c \in Client : done[c] \in Nat /\ done[c] \in 0..MaxSeq
                          /\ pending[r][c] \in Nat /\ pending[r][c] \in 0..MaxSeq
                          /\ submitted[r][c] \in Nat /\ submitted[r][c] \in 0..MaxSeq
    BY <1>1, <2>4 DEF Pool
  <2>6. pd \in Pool /\ sb \in Pool
    BY <1>1, <2>5 DEF Pool
  <2>7. \A c \in Client : pd[c] \in Nat /\ sb[c] \in Nat /\ sb[c] >= submitted[r][c]
    BY <1>1, <2>5
  <2>8. (\A c \in Client : pending[r][c] = 0 \/ pending[r][c] > submitted[r][c])
          => \A c \in Client : pd[c] = 0 \/ pd[c] > sb[c]
    BY <1>1, <2>5
  <2>9. closedSlots \in [BlockNum -> Slot] /\ \A j \in BlockNum : closedSlots[j].block = sl[j].block
    <3>1. \A j \in BlockNum : sl[j] \in Slot /\ CloseScratch(sl[j]) \in Slot
                              /\ CloseScratch(sl[j]).block = sl[j].block
      BY <1>2, CloseScratchResult
    <3> QED BY <3>1
  <2> HIDE DEF f, closedSlots, pd, sb
  <2>10. PICK n, bs : n \in Nat /\ Proposed(r, closedSlots, pd, sb, f, votes, bs, n)
    BY <1>1, <2>1, <2>2, <2>6, <2>9, ProposeDetail
  <2>11. Proposed(r, sl, pd, sb, f, votes, bs, n)
    BY <2>9, <2>10 DEF Proposed
  <2>12. finalizeNum'[r] = f /\ \A q \in Correct : q # r => finalizeNum'[q] = finalizeNum[q]
    BY <1>1, <2>1
  <2>13. Moves(r, sl, pd, sb, f, votes, bs, n)
    BY <1>3, <1>5, <2>2, <2>7, <2>8, <2>10, <2>11, <2>12 DEF Moves
  <2> QED BY <2>13 DEF StepMoves
<1> QED BY <1>6, <1>7

LEMMA SlotsAccepted ==
  ASSUME FinalInv, NEW r \in Correct
  PROVE  \A k \in BlockNum : slots[r][k] \in Slot /\ SlotBacked(slots, r, k, slots[r][k])
BY SlotFacts

LEMMA RequestMoves ==
  ASSUME FinalInv, Origin, NEW r \in Correct, NEW command \in Command, Request(r, command)
  PROVE  StepMoves
<1> DEFINE pd == Pushed(r, command)
           f == finalizeNum[r]
<1>1. /\ TypeOK /\ slots \in [Correct -> [BlockNum -> Slot]] /\ finalizeNum \in [Correct -> 0..MaxBlock]
      /\ pending \in [Correct -> Pool] /\ submitted \in [Correct -> Pool]
      /\ MaxBlock \in Nat /\ MaxSeq \in Nat
  BY BoundAssumption DEF FinalInv, PbftInv, TypeOK, Pool
<1>2. pd \in Pool
  BY <1>1 DEF Pushed, Pool, Command
<1>3. \A c \in Client : /\ pd[c] \in Nat /\ submitted[r][c] \in Nat
                        /\ submitted[r][c] >= submitted[r][c]
  BY <1>1, <1>2 DEF Pool
<1>4. (\A c \in Client : pending[r][c] = 0 \/ pending[r][c] > submitted[r][c])
        => \A c \in Client : pd[c] = 0 \/ pd[c] > submitted[r][c]
  BY <1>1 DEF Pushed, Pool
<1>5. f \in f..MaxBlock /\ f \in 0..MaxBlock /\ finalizeNum' = finalizeNum /\ f + 1 .. f = {}
  BY <1>1 DEF Request
<1> HIDE DEF pd
<1>6. \E msgs, bs : \E n \in Nat : /\ Proposed(r, slots[r], pd, submitted[r], f, msgs, bs, n)
                                   /\ \A m \in msgs : m.type # "PrePrepare"
  <2>1. CASE r = Primary
    <3>1. Propose(r, slots[r], pd, submitted[r], f, {})
      BY <2>1 DEF Request, pd
    <3>2. slots[r] \in [BlockNum -> Slot] /\ submitted[r] \in Pool
      BY <1>1
    <3>3. \E n \in Nat : \E bs : Proposed(r, slots[r], pd, submitted[r], f, {}, bs, n)
      BY <1>1, <1>2, <1>5, <3>1, <3>2, ProposeDetail
    <3> QED BY <3>3
  <2>2. CASE r # Primary
    <3>1. /\ pending' = [pending EXCEPT ![r] = pd]
          /\ sent' = sent \cup {Forward(command)}
          /\ UNCHANGED <<slots, proposeNum, submitted>>
      BY <2>2 DEF Request, pd
    <3>2. slots' = [slots EXCEPT ![r] = slots[r]] /\ slots[r] \in [BlockNum -> Slot]
      BY <1>1, <3>1
    <3>3. Proposed(r, slots[r], pd, submitted[r], f, {Forward(command)}, <<>>, 0)
      BY <1>1, <1>2, <3>1, <3>2, NothingProposed
    <3>4. Forward(command).type # "PrePrepare"
      BY DEF Forward
    <3> QED BY <3>3, <3>4
  <2> QED BY <2>1, <2>2
<1>7. PICK msgs, bs, n : /\ n \in Nat /\ Proposed(r, slots[r], pd, submitted[r], f, msgs, bs, n)
                         /\ \A m \in msgs : m.type # "PrePrepare"
  BY <1>6
<1>8. Moves(r, slots[r], pd, submitted[r], f, msgs, bs, n)
  BY <1>3, <1>4, <1>5, <1>7, SlotsAccepted DEF Moves
<1> QED BY <1>8 DEF StepMoves

(* A step that sends messages and nothing else.                                    *)
LEMMA SendMoves ==
  ASSUME FinalInv, Origin, NEW r \in Correct, NEW msgs, sent' = sent \cup msgs,
         \A m \in msgs : m.type # "PrePrepare",
         UNCHANGED <<slots, proposeNum, finalizeNum, pending, submitted>>
  PROVE  StepMoves
<1>1. /\ TypeOK /\ slots \in [Correct -> [BlockNum -> Slot]] /\ finalizeNum \in [Correct -> 0..MaxBlock]
      /\ pending \in [Correct -> Pool] /\ submitted \in [Correct -> Pool]
      /\ MaxBlock \in Nat
  BY BoundAssumption DEF FinalInv, PbftInv, TypeOK, Pool
<1>2. /\ slots' = [slots EXCEPT ![r] = slots[r]] /\ pending' = [pending EXCEPT ![r] = pending[r]]
      /\ slots[r] \in [BlockNum -> Slot] /\ pending[r] \in Pool
  BY <1>1
<1>3. Proposed(r, slots[r], pending[r], submitted[r], finalizeNum[r], msgs, <<>>, 0)
  BY <1>1, <1>2, NothingProposed
<1>4. \A c \in Client : /\ pending[r][c] \in Nat /\ submitted[r][c] \in Nat
                        /\ submitted[r][c] >= submitted[r][c]
  BY <1>1 DEF Pool
<1>5. finalizeNum[r] \in finalizeNum[r]..MaxBlock /\ finalizeNum[r] + 1 .. finalizeNum[r] = {}
  BY <1>1
<1>6. Moves(r, slots[r], pending[r], submitted[r], finalizeNum[r], msgs, <<>>, 0)
  BY <1>3, <1>4, <1>5, SlotsAccepted DEF Moves
<1> QED BY <1>6 DEF StepMoves

(* The primary sends again only what it has sent.                                  *)
LEMMA ResentSent ==
  ASSUME FinalInv, Origin, NEW r \in Correct
  PROVE  Resent(r) \subseteq sent
<1> SUFFICES ASSUME r = Primary, NEW k \in finalizeNum[r] + 1 .. ticked[r]
             PROVE  PrePrepare(k, slots[r][k].block) \in sent
  BY DEF Resent
<1>1. /\ ticked[r] \in 0..MaxBlock /\ proposeNum[r] \in 0..MaxBlock /\ finalizeNum[r] \in 0..MaxBlock
      /\ MaxBlock \in Nat /\ ticked[r] <= proposeNum[r]
      /\ \A j \in 1..proposeNum[r] : slots[r][j].block # NoBlock
  BY BoundAssumption DEF FinalInv, PbftInv, TypeOK, ProposedKept
<1>2. k \in 1..proposeNum[r] /\ k \in BlockNum
  BY <1>1 DEF BlockNum
<1> QED BY <1>1, <1>2 DEF Origin

(* Every step is a move of some replica.                                           *)
LEMMA NextMoves ==
  ASSUME FinalInv, Origin, Next
  PROVE  StepMoves
<1>1. PbftInv
  BY DEF FinalInv
<1>2. ASSUME NEW r \in Correct, NEW k \in BlockNum, NEW b \in Block, AcceptPrePrepare(r, k, b)
      PROVE  StepMoves
  <2> DEFINE x == slots[r][k]
             t == CheckCommitQuorum(CheckPrepareQuorum(r, OpenScratch(r, [x EXCEPT !.block = b], b)))
             msgs == {Prepare(r, k, b)}
  <2>1. r # Primary /\ PrePrepareSigned(k, b) /\ x.block = NoBlock /\ Settle(r, k, t, msgs)
    BY <1>2 DEF AcceptPrePrepare, CanPrePrepare
  <2>2. x \in Slot /\ SlotBacked(slots, r, k, x) /\ r \in Replica
    BY SlotFacts
  <2>3. t \in Slot /\ Grown(x, t) /\ SlotBacked(slots, r, k, t)
    BY <2>1, <2>2, AcceptBacked
  <2>4. t.block = b
    BY <2>2, AcceptBlock
  <2>5. msgs \in SUBSET Message /\ \A m \in msgs : m.type # "PrePrepare"
    BY <2>2 DEF Prepare, Message
  <2> HIDE DEF t, msgs
  <2> QED BY <2>1, <2>3, <2>4, <2>5, SettleMoves
<1>3. ASSUME NEW r \in Correct, NEW q \in Replica, NEW k \in BlockNum, NEW b \in Block,
             ReceivePrepare(r, q, k, b)
      PROVE  StepMoves
  <2> DEFINE x == slots[r][k]
             t == PrepareVoted(r, x, q, b)
  <2>1. x.prepareCert = {} /\ Settle(r, k, t, {})
    BY <1>3 DEF ReceivePrepare, IsPrepared
  <2>2. x \in Slot /\ SlotBacked(slots, r, k, x)
    BY SlotFacts
  <2>3. t \in Slot /\ Grown(x, t) /\ SlotBacked(slots, r, k, t)
    BY <2>1, <2>2, PrepareVotedBacked
  <2>4. t.block = x.block
    <3>1. x.block = NoBlock => t.block = NoBlock
      BY <2>2 DEF PrepareVoted, Slot
    <3> QED BY <2>3, <3>1 DEF Grown
  <2> HIDE DEF t
  <2> QED BY <2>1, <2>3, <2>4, SettleMoves
<1>4. ASSUME NEW r \in Correct, NEW q \in Replica, NEW k \in BlockNum, NEW b \in Block,
             ReceiveCommit(r, q, k, b)
      PROVE  StepMoves
  <2> DEFINE x == slots[r][k]
             t == CommitVoted(x, q, b)
  <2>1. CanCommit(r, q, k, b) /\ Settle(r, k, t, {})
    BY <1>4 DEF ReceiveCommit
  <2>2. x \in Slot /\ SlotBacked(slots, r, k, x)
    BY SlotFacts
  <2>3. Backed(slots, q, k, b)
    BY <1>1, <2>1, CommitIsBacked
  <2>4. t \in Slot /\ Grown(x, t) /\ SlotBacked(slots, r, k, t)
    BY <2>1, <2>2, <2>3, CommitVotedBacked
  <2>5. t.block = x.block
    <3>1. x.block = NoBlock => t.block = NoBlock
      BY <2>2 DEF CommitVoted, Slot
    <3> QED BY <2>4, <3>1 DEF Grown
  <2> HIDE DEF t
  <2> QED BY <2>1, <2>4, <2>5, SettleMoves
<1>5. ASSUME NEW r \in Correct, NEW k, NEW b, RepeatVotes(r, k, b)
      PROVE  StepMoves
  <2> DEFINE msgs == IF slots[r][k].block # b \/ r = Primary THEN {}
                     ELSE {Prepare(r, k, b)}
                            \cup (IF slots[r][k].prepareCert # {} THEN {Commit(r, k, b)} ELSE {})
  <2>1. sent' = sent \cup msgs /\ UNCHANGED <<slots, proposeNum, finalizeNum, pending, submitted>>
    BY <1>5 DEF RepeatVotes
  <2>2. \A m \in msgs : m.type # "PrePrepare"
    BY DEF Prepare, Commit
  <2> HIDE DEF msgs
  <2> QED BY <2>1, <2>2, SendMoves
<1>6. ASSUME NEW r \in Correct, Tick(r)
      PROVE  StepMoves
  <2> DEFINE msgs == {}
  <2>1. sent' = sent \cup msgs /\ UNCHANGED <<slots, proposeNum, finalizeNum, pending, submitted>>
    <3>1. Resent(r) \subseteq sent
      BY ResentSent
    <3> QED BY <1>6, <3>1 DEF Tick
  <2>2. \A m \in msgs : m.type # "PrePrepare"
    OBVIOUS
  <2> HIDE DEF msgs
  <2> QED BY <2>1, <2>2, SendMoves
<1>7. ASSUME NEW r \in Correct, Receive(r)
      PROVE  StepMoves
  <2>1. PICK k \in BlockNum, b \in KnownBlocks :
          \/ AcceptPrePrepare(r, k, b)
          \/ RepeatVotes(r, k, b)
          \/ \E q \in Replica : ReceivePrepare(r, q, k, b) \/ ReceiveCommit(r, q, k, b)
    BY <1>7 DEF Receive
  <2>2. b \in Block
    BY <1>1, KnownBlocksType DEF PbftInv
  <2> QED BY <1>2, <1>3, <1>4, <1>5, <2>1, <2>2
<1>8. ASSUME NEW command \in Command, NEW r \in Correct, ClientRequest(r, command) PROVE StepMoves
  BY <1>8, RequestMoves DEF ClientRequest
<1>9. ASSUME NEW command \in Command, ReceiveForward(command) PROVE StepMoves
  BY <1>9, RequestMoves DEF ReceiveForward
<1> QED BY <1>6, <1>7, <1>8, <1>9 DEF Next

-----------------------------------------------------------------------------
(* What a move leaves and what it needs.                                           *)

LEMMA BlockTypes ==
  ASSUME TypeOK, NEW r \in Correct, NEW k \in BlockNum, slots[r][k].block # NoBlock
  PROVE  slots[r][k].block \in Block
BY DEF TypeOK, Slot

LEMMA MovesKeepBlocks ==
  ASSUME NEW r \in Correct, NEW sl, NEW pd, NEW sb, NEW f, NEW msgs, NEW bs, NEW n,
         Moves(r, sl, pd, sb, f, msgs, bs, n),
         NEW q \in Correct, NEW k \in BlockNum, slots[q][k].block # NoBlock
  PROVE  slots'[q][k].block = slots[q][k].block
<1>1. CASE q = r
  <2>1. sl[k].block = slots[r][k].block
    BY <1>1 DEF Moves
  <2> QED BY <1>1, <2>1 DEF Moves, Proposed
<1>2. CASE q # r
  BY <1>2 DEF Moves, Proposed
<1> QED BY <1>1, <1>2

(* A replica takes its blocks from the primary, if that is correct.                *)
LEMMA FromPrimary ==
  ASSUME TypeOK, Origin, Primary \in Correct,
         NEW r \in Correct, NEW sl, NEW pd, NEW sb, NEW f, NEW msgs, NEW bs, NEW n,
         Moves(r, sl, pd, sb, f, msgs, bs, n), NEW k \in BlockNum, sl[k].block # NoBlock
  PROVE  /\ PrePrepare(k, sl[k].block) \in sent /\ sl[k].block \in Block
         /\ k <= proposeNum[Primary]
<1>1. sl[k].block \in Block
  BY DEF Moves, Slot
<1>2. PrePrepare(k, sl[k].block) \in sent
  <2>1. CASE sl[k].block = slots[r][k].block
    BY <2>1 DEF Origin
  <2>2. CASE PrePrepareSigned(k, sl[k].block)
    BY <2>2, FaultyAssumption DEF PrePrepareSigned, Correct
  <2> QED BY <2>1, <2>2 DEF Moves
<1> QED BY <1>1, <1>2 DEF Origin

LEMMA OriginInit == Init => Origin
<1> SUFFICES ASSUME Init, Primary \in Correct PROVE Origin
  BY DEF Origin
<1>1. proposeNum[Primary] = 0 /\ finalizeNum[Primary] = 0 /\ sent = {} /\ MaxInflight \in Nat
  BY BoundAssumption DEF Init
<1>2. \A r \in Correct : \A k \in BlockNum : slots[r][k].block = NoBlock
  BY DEF Init, EmptySlot
<1> QED BY <1>1, <1>2 DEF Origin

LEMMA OriginMoves ==
  ASSUME FinalInv, Origin, StepMoves
  PROVE  Origin'
<1> SUFFICES ASSUME Primary \in Correct
             PROVE  /\ proposeNum'[Primary] - finalizeNum'[Primary] <= MaxInflight
                    /\ \A k \in BlockNum : \A b \in Block :
                         PrePrepare(k, b) \in sent'
                           => k <= proposeNum'[Primary] /\ b = slots'[Primary][k].block
                    /\ \A r \in Correct : \A k \in BlockNum :
                         slots'[r][k].block # NoBlock => PrePrepare(k, slots'[r][k].block) \in sent'
  BY DEF Origin, PrePrepare
<1>1. TypeOK /\ proposeNum \in [Correct -> 0..MaxBlock] /\ finalizeNum \in [Correct -> 0..MaxBlock]
      /\ MaxBlock \in Nat
  BY BoundAssumption DEF FinalInv, PbftInv, TypeOK
<1>2. PICK r, sl, pd, sb, f, msgs, bs, n : r \in Correct /\ Moves(r, sl, pd, sb, f, msgs, bs, n)
  BY DEF StepMoves
<1> DEFINE first == proposeNum[r]
<1>3. /\ n \in Nat /\ Proposed(r, sl, pd, sb, f, msgs, bs, n) /\ finalizeNum'[r] = f
      /\ \A q \in Correct : q # r => finalizeNum'[q] = finalizeNum[q] /\ proposeNum'[q] = proposeNum[q]
      /\ proposeNum'[r] = first + n /\ first \in Nat /\ r \in Correct
  BY <1>1, <1>2 DEF Moves, Proposed
<1>4. proposeNum'[Primary] - finalizeNum'[Primary] <= MaxInflight
  <2>1. CASE r = Primary
    <3>1. first + n - f <= MaxInflight
      BY <1>3, <2>1 DEF Proposed
    <3>2. proposeNum'[Primary] = first + n /\ finalizeNum'[Primary] = f
      BY <1>3, <2>1
    <3>3. f \in Int /\ first \in Int /\ n \in Int /\ MaxInflight \in Int
      BY <1>1, <1>2, <1>3, BoundAssumption DEF Moves
    <3> HIDE DEF first
    <3> QED BY ONLY <3>1, <3>2, <3>3
  <2>2. CASE r # Primary
    BY <1>3, <2>2 DEF Origin
  <2> QED BY <2>1, <2>2
<1>5. /\ sent' = sent \cup msgs \cup {PrePrepare(first + i, bs[i]) : i \in 1..n}
      /\ \A m \in msgs : m.type # "PrePrepare"
  BY <1>2 DEF Moves, Proposed
<1>6. ASSUME NEW k \in BlockNum, NEW b \in Block, PrePrepare(k, b) \in sent'
      PROVE  k <= proposeNum'[Primary] /\ b = slots'[Primary][k].block
  <2>1. PrePrepare(k, b) \notin msgs
    BY <1>5 DEF PrePrepare
  <2>2. k \in Nat
    BY DEF BlockNum
  <2>3. CASE PrePrepare(k, b) \in sent
    <3>1. k <= proposeNum[Primary] /\ b = slots[Primary][k].block /\ b # NoBlock
      BY <2>3, NoBlockAssumption DEF Origin
    <3>2. slots'[Primary][k].block = b
      BY <1>2, <3>1, MovesKeepBlocks
    <3>3. proposeNum[Primary] \in Nat /\ proposeNum[Primary] <= proposeNum'[Primary]
      BY <1>1, <1>3
    <3>4. proposeNum'[Primary] \in Nat
      BY <1>1, <1>3
    <3> QED BY <2>2, <3>1, <3>2, <3>3, <3>4
  <2>4. CASE PrePrepare(k, b) \in {PrePrepare(first + i, bs[i]) : i \in 1..n}
    <3>1. PICK i \in 1..n : k = first + i /\ b = bs[i]
      BY <2>4 DEF PrePrepare
    <3>2. r = Primary /\ k - first = i /\ ~(k <= first) /\ k <= first + n
      BY <1>3, <3>1 DEF Proposed
    <3>3. sl[k].block = NoBlock
      BY <1>1, <1>2, <3>2, FromPrimary
    <3>4. k - first \in 1..n
      BY <3>1, <3>2
    <3>5. slots'[r][k].block = bs[k - first]
      BY <1>3, <3>3, <3>4 DEF Proposed
    <3>6. slots'[Primary][k].block = b
      BY <3>1, <3>2, <3>5
    <3>7. k <= proposeNum'[Primary]
      BY <1>3, <3>2
    <3> QED BY <3>6, <3>7
  <2> QED BY <1>5, <1>6, <2>1, <2>3, <2>4
<1>7. ASSUME NEW q \in Correct, NEW k \in BlockNum, slots'[q][k].block # NoBlock
      PROVE  PrePrepare(k, slots'[q][k].block) \in sent'
  <2>1. CASE q # r
    <3>1. slots'[q] = slots[q]
      BY <1>3, <2>1 DEF Proposed
    <3> QED BY <1>5, <1>7, <3>1 DEF Origin
  <2>2. CASE q = r /\ k - first \in 1..n /\ sl[k].block = NoBlock
    <3>1. slots'[q][k].block = bs[k - first]
      BY <1>3, <2>2 DEF Proposed
    <3>2. first + (k - first) = k
      BY <1>3 DEF BlockNum
    <3>3. PrePrepare(first + (k - first), bs[k - first]) \in sent'
      BY <1>5, <2>2
    <3> QED BY <3>1, <3>2, <3>3
  <2>3. CASE q = r /\ ~(k - first \in 1..n /\ sl[k].block = NoBlock)
    <3>1. slots'[q][k].block = sl[k].block
      BY <1>3, <2>3 DEF Proposed
    <3> QED BY <1>1, <1>2, <1>5, <1>7, <3>1, FromPrimary
  <2> QED BY <2>1, <2>2, <2>3
<1> QED BY <1>4, <1>6, <1>7

LEMMA OriginNext == FinalInv /\ Origin /\ [Next]_vars => Origin'
<1>1. ASSUME Origin, UNCHANGED vars PROVE Origin'
  BY <1>1 DEF vars, Origin, PrePrepare
<1> QED BY <1>1, NextMoves, OriginMoves

(* Whatever block is anywhere, a correct primary has proposed it, and no more than  *)
(* its window allows.                                                              *)
THEOREM PbftOrigin == Spec => []Origin
BY OriginInit, OriginNext, PbftFinalInvariant, PTL DEF Spec

-----------------------------------------------------------------------------
(* The furthest of the replicas that have finalized fn blocks, and its log.         *)

Leading(fn) == CHOOSE r \in Correct : \A q \in Correct : fn[q] <= fn[r]
LogOf(all, fn) == [k \in 1..fn[Leading(fn)] |-> all[Leading(fn)][k].block]

LEMMA SomeCorrect ==
  ASSUME Cardinality(Replica) > 3 * NumFaulty, Cardinality(Faulty) <= NumFaulty
  PROVE  Correct # {}
<1> SUFFICES ASSUME Correct = {} PROVE FALSE
  OBVIOUS
<1>1. IsFiniteSet(Replica) /\ IsFiniteSet(Faulty) /\ Replica \subseteq Faulty
  BY ReplicaAssumption, FaultyAssumption, FS_Subset DEF Correct
<1>2. /\ Cardinality(Replica) <= Cardinality(Faulty)
      /\ Cardinality(Replica) \in Nat /\ Cardinality(Faulty) \in Nat
  BY <1>1, FS_Subset, FS_CardinalityType
<1> QED BY <1>2, FaultyAssumption

LEMMA LeadingLeads ==
  ASSUME Correct # {}, NEW fn \in [Correct -> 0..MaxBlock]
  PROVE  /\ Leading(fn) \in Correct /\ fn[Leading(fn)] \in 0..MaxBlock
         /\ \A q \in Correct : fn[q] <= fn[Leading(fn)]
<1> DEFINE S == {fn[r] : r \in Correct}
<1>1. S \in SUBSET (0..MaxBlock) /\ S # {} /\ MaxBlock \in Nat
  BY BoundAssumption
<1>2. Max(S) \in S /\ \A y \in S : y <= Max(S)
  <2> HIDE DEF S
  <2> QED BY <1>1, MaxExists
<1>3. PICK r \in Correct : \A q \in Correct : fn[q] <= fn[r]
  BY <1>2
<1> QED BY <1>3 DEF Leading

(* What is final is a block.                                                        *)
FinalBlocks == \A r \in Correct : \A k \in 1..finalizeNum[r] : slots[r][k].block \in Block

LEMMA FinalAreBlocks == FinalInv => FinalBlocks
<1> SUFFICES ASSUME FinalInv, NEW r \in Correct, NEW k \in 1..finalizeNum[r]
             PROVE  slots[r][k].block \in Block
  BY DEF FinalBlocks
<1>1. TypeOK /\ finalizeNum[r] \in 0..MaxBlock /\ MaxBlock \in Nat
  BY BoundAssumption DEF FinalInv, PbftInv, TypeOK
<1>2. k \in BlockNum /\ ~(k > finalizeNum[r])
  BY <1>1 DEF BlockNum
<1> QED BY <1>1, <1>2, SlotFacts, BlockTypes

(* The replica that gets ahead of the others gains no more than the run bound.       *)
LEMMA RunBounded ==
  ASSUME FinalInv, Origin, NEW r \in Correct,
         NEW sl, NEW pd, NEW sb, NEW f, NEW msgs, NEW bs, NEW n,
         Moves(r, sl, pd, sb, f, msgs, bs, n),
         NEW m \in 0..MaxBlock, \A q \in Correct : finalizeNum[q] <= m, f > m
  PROVE  f - m <= RunBound
<1>1. /\ TypeOK /\ MaxBlock \in Nat /\ MaxInflight \in Nat
      /\ proposeNum \in [Correct -> 0..MaxBlock] /\ finalizeNum \in [Correct -> 0..MaxBlock]
      /\ f \in finalizeNum[r]..MaxBlock /\ \A k \in finalizeNum[r] + 1 .. f : HasQuorums(sl[k])
  BY BoundAssumption DEF FinalInv, PbftInv, TypeOK, Moves
<1>2. f \in BlockNum /\ f \in finalizeNum[r] + 1 .. f
  BY <1>1 DEF BlockNum
<1>3. CASE Primary \in Correct
  <2>1. HasQuorums(sl[f]) /\ SlotBacked(slots, r, f, sl[f])
    BY <1>1, <1>2 DEF Moves
  <2>2. sl[f].block # NoBlock
    BY <2>1 DEF HasQuorums, SlotBacked
  <2>3. f <= proposeNum[Primary]
    BY <1>1, <1>2, <1>3, <2>2, FromPrimary
  <2>4. proposeNum[Primary] - finalizeNum[Primary] <= MaxInflight /\ finalizeNum[Primary] <= m
    BY <1>3 DEF Origin
  <2> QED BY <1>1, <1>3, <2>3, <2>4 DEF RunBound
<1>4. CASE Primary \notin Correct
  BY <1>1, <1>4 DEF RunBound
<1> QED BY <1>3, <1>4

LEMMA BroadcastMove ==
  ASSUME FinalInv, FinalBlocks, FinalBlocks', TypeOK',
         Agreement', Origin, Correct # {}, StepMoves
  PROVE  [Broadcast!Next]_Broadcast!vars
<1> DEFINE lead == Leading(finalizeNum)
           next == Leading(finalizeNum')
           m == finalizeNum[lead]
           m2 == finalizeNum'[next]
           log == FinalizedLog(Furthest)
<1>1. PICK r, sl, pd, sb, f, msgs, bs, n : r \in Correct /\ Moves(r, sl, pd, sb, f, msgs, bs, n)
  BY DEF StepMoves
<1>2. /\ TypeOK /\ MaxBlock \in Nat /\ finalizeNum \in [Correct -> 0..MaxBlock]
      /\ f \in finalizeNum[r]..MaxBlock /\ finalizeNum'[r] = f
      /\ \A q \in Correct : q # r => finalizeNum'[q] = finalizeNum[q]
      /\ finalizeNum' \in [Correct -> 0..MaxBlock]
  BY <1>1, BoundAssumption DEF FinalInv, PbftInv, TypeOK, Moves
<1>3. /\ lead \in Correct /\ m \in 0..MaxBlock /\ \A q \in Correct : finalizeNum[q] <= m
      /\ next \in Correct /\ m2 \in 0..MaxBlock /\ \A q \in Correct : finalizeNum'[q] <= m2
  <2>1. /\ lead \in Correct /\ m \in 0..MaxBlock /\ \A q \in Correct : finalizeNum[q] <= m
    BY <1>2, LeadingLeads
  <2>2. /\ next \in Correct /\ m2 \in 0..MaxBlock /\ \A q \in Correct : finalizeNum'[q] <= m2
    BY LeadingLeads DEF TypeOK
  <2> HIDE DEF lead, next, m, m2
  <2> QED BY <2>1, <2>2
<1>4. log = LogOf(slots, finalizeNum) /\ log' = LogOf(slots', finalizeNum')
  BY DEF FinalizedLog, Furthest, LogOf, Leading
<1>5. /\ log = [k \in 1..m |-> slots[lead][k].block]
      /\ log' = [k \in 1..m2 |-> slots'[next][k].block]
  BY <1>4 DEF LogOf
<1> HIDE DEF lead, next, log
<1>6. /\ m \in Nat /\ m2 \in Nat /\ m <= m2 /\ finalizeNum'[lead] >= m
      /\ f <= m => m2 = m
      /\ f > m => m2 = f
  <2>1. finalizeNum'[lead] >= m
    BY <1>2, <1>3
  <2>2. next = r => m2 = f
    BY <1>2
  <2>3. next # r => m2 <= m
    BY <1>2, <1>3
  <2>4. f <= m2 /\ finalizeNum'[lead] <= m2 /\ finalizeNum'[lead] \in Nat /\ f \in Nat
    BY <1>1, <1>2, <1>3
  <2> HIDE DEF m, m2
  <2> QED BY <1>3, <2>1, <2>2, <2>3, <2>4
<1>7. \A k \in 1..m : slots'[next][k].block = slots[lead][k].block
  <2> SUFFICES ASSUME NEW k \in 1..m PROVE slots'[next][k].block = slots[lead][k].block
    OBVIOUS
  <2>1. k \in BlockNum /\ slots[lead][k].block # NoBlock
    BY <1>2, <1>3, NoBlockAssumption DEF FinalBlocks, BlockNum
  <2>2. slots'[lead][k].block = slots[lead][k].block
    BY <1>1, <1>3, <2>1, MovesKeepBlocks
  <2>3. k \in 1..finalizeNum'[lead] /\ k \in 1..m2
    BY <1>2, <1>3, <1>6
  <2>4. k \in (1..finalizeNum'[lead]) \cap (1..finalizeNum'[next])
    BY <2>3
  <2> QED BY <1>3, <2>2, <2>4 DEF Agreement
<1>8. /\ log \in Seq(Block) /\ Len(log) = m /\ log' \in Seq(Block) /\ Len(log') = m2
      /\ \A k \in 1..m : log'[k] = log[k]
  <2>1. /\ \A k \in 1..m : slots[lead][k].block \in Block
        /\ \A k \in 1..m2 : slots'[next][k].block \in Block
    BY <1>3 DEF FinalBlocks
  <2> HIDE DEF m, m2
  <2>2. log \in Seq(Block) /\ Len(log) = m /\ \A k \in 1..m : log[k] = slots[lead][k].block
    BY ONLY <1>5, <1>6, <2>1
  <2>3. /\ log' \in Seq(Block) /\ Len(log') = m2
        /\ \A k \in 1..m2 : log'[k] = slots'[next][k].block
    BY ONLY <1>5, <1>6, <2>1
  <2>4. \A k \in 1..m : k \in 1..m2
    BY <1>6
  <2> QED BY <1>7, <2>2, <2>3, <2>4
<1>9. finalizeNum' = [finalizeNum EXCEPT ![r] = f]
  BY <1>1, <1>2
<1> HIDE DEF m, m2
<1>10. CASE f = finalizeNum[r]
  <2>1. finalizeNum' = finalizeNum
    BY <1>1, <1>2, <1>9, <1>10
  <2>2. m2 = m
    BY <1>1, <1>3, <1>6, <1>10
  <2>3. log' = log
    BY <1>8, <2>2, SeqEqual
  <2> QED BY <2>1, <2>3 DEF Broadcast!vars, log
<1>11. CASE f # finalizeNum[r] /\ f <= m
  <2>1. log' = log
    BY <1>6, <1>8, <1>11, SeqEqual
  <2>2. f \in finalizeNum[r] + 1 .. Len(log)
    BY <1>1, <1>2, <1>8, <1>11
  <2>3. Broadcast!CatchUp(r)
    BY <1>9, <2>1, <2>2 DEF Broadcast!CatchUp, log
  <2> QED BY <1>1, <2>3 DEF Broadcast!Next
<1>12. CASE f > m
  <2>1. f - m <= RunBound
    BY <1>1, <1>3, <1>12, RunBounded
  <2>2. /\ f - m \in 1..RunBound /\ m + (f - m) = f
    <3>1. f \in Nat /\ RunBound \in Nat
      BY <1>1, <1>2, BoundAssumption DEF RunBound
    <3> QED BY <1>6, <1>12, <2>1, <3>1
  <2>3. \E size \in 1..RunBound : Len(log') = Len(log) + size
    BY <1>6, <1>8, <1>12, <2>2
  <2>4. SubSeq(log', 1, Len(log)) = log
    <3>1. /\ SubSeq(log', 1, m) \in Seq(Block) /\ Len(SubSeq(log', 1, m)) = m
          /\ \A i \in 1..m : SubSeq(log', 1, m)[i] = log'[i]
      BY <1>6, <1>8
    <3> QED BY <1>8, <3>1, SeqEqual
  <2>5. \A i \in DOMAIN log' : log'[i] # NoBlock
    BY <1>8, NoBlockAssumption
  <2>6. finalizeNum' = [finalizeNum EXCEPT ![r] = Len(log')]
    BY <1>6, <1>8, <1>9, <1>12
  <2>7. Broadcast!Extend(r)
    BY <2>3, <2>4, <2>5, <2>6 DEF Broadcast!Extend, log
  <2> QED BY <1>1, <2>7 DEF Broadcast!Next
<1> QED BY <1>2, <1>3, <1>6, <1>10, <1>11, <1>12

LEMMA BroadcastStep ==
  ASSUME Correct # {}, FinalInv, FinalBlocks, FinalBlocks', TypeOK', Agreement', Origin, [Next]_vars
  PROVE  [Broadcast!Next]_Broadcast!vars
<1>1. CASE UNCHANGED vars
  BY <1>1 DEF vars, Broadcast!vars, FinalizedLog, Furthest
<1>2. CASE Next
  <2>1. StepMoves
    BY <1>2, NextMoves
  <2> QED BY <2>1, BroadcastMove
<1> QED BY <1>1, <1>2

(* The replicas implement atomic broadcast when fewer than a third of them are       *)
(* faulty, whatever those send: the correct ones hand out the blocks of one log, in  *)
(* its order and without a gap, and with a correct primary the one that is ahead     *)
(* gains no more than the window at a time.                                         *)
THEOREM PbftAtomicBroadcast ==
  ASSUME Cardinality(Replica) > 3 * NumFaulty, Cardinality(Faulty) <= NumFaulty
  PROVE  Spec => BroadcastSpec
<1>1. Correct # {}
  BY SomeCorrect
<1>2. Init => Broadcast!Init
  <2> SUFFICES ASSUME Init
               PROVE  FinalizedLog(Furthest) = <<>> /\ finalizeNum = [r \in Correct |-> 0]
    BY DEF Broadcast!Init
  <2>1. finalizeNum = [r \in Correct |-> 0] /\ finalizeNum \in [Correct -> 0..MaxBlock]
    BY BoundAssumption DEF Init
  <2>2. finalizeNum[Furthest] = 0
    BY <1>1, <2>1, LeadingLeads DEF Furthest, Leading
  <2> QED BY <2>1, <2>2 DEF FinalizedLog
<1>3. FinalInv => TypeOK
  BY DEF FinalInv, PbftInv
<1>4. (FinalInv /\ FinalBlocks /\ FinalBlocks' /\ TypeOK' /\ Agreement' /\ Origin /\ [Next]_vars)
        => [Broadcast!Next]_Broadcast!vars
  BY <1>1, BroadcastStep
<1>5. Spec => []Agreement
  BY PbftAgreement
<1> QED BY <1>2, <1>3, <1>4, <1>5, FinalAreBlocks, PbftFinalInvariant, PbftOrigin, PTL
        DEF Spec, BroadcastSpec, Broadcast!Spec

-----------------------------------------------------------------------------
(* The order of a client's commands. The pool of a correct primary holds what is     *)
(* newer than all it has submitted, and its log holds what the pool has submitted.   *)

(* Command x of block j is in order with command y of block k.                       *)
Before(j, x, k, y) ==
  (x.client = y.client /\ j <= k /\ <<j, x>> # <<k, y>>) => (j < k /\ x.seq < y.seq)

OrderInv ==
  Primary \in Correct =>
    /\ \A c \in Client : pending[Primary][c] = 0 \/ pending[Primary][c] > submitted[Primary][c]
    /\ \A k \in 1..proposeNum[Primary] : \A x \in slots[Primary][k].block :
         x.seq <= submitted[Primary][x.client]
    /\ \A j, k \in 1..proposeNum[Primary] :
         \A x \in slots[Primary][j].block : \A y \in slots[Primary][k].block : Before(j, x, k, y)

(* The log of the primary after it proposed the blocks bs.                           *)
LEMMA ProposedLog ==
  ASSUME FinalInv, Origin, Primary \in Correct,
         NEW sl, NEW pd, NEW sb, NEW f, NEW msgs, NEW bs, NEW n,
         Moves(Primary, sl, pd, sb, f, msgs, bs, n), NEW k \in 1..proposeNum'[Primary]
  PROVE  \/ k \in 1..proposeNum[Primary] /\ slots'[Primary][k].block = slots[Primary][k].block
            /\ slots[Primary][k].block \in Block
         \/ k > proposeNum[Primary] /\ \E i \in 1..n : k = proposeNum[Primary] + i
                                                     /\ slots'[Primary][k].block = bs[i]
<1> DEFINE first == proposeNum[Primary]
<1>1. /\ TypeOK /\ first \in 0..MaxBlock /\ MaxBlock \in Nat
      /\ \A j \in 1..first : slots[Primary][j].block # NoBlock
  BY BoundAssumption DEF FinalInv, PbftInv, TypeOK, ProposedKept
<1>2. n \in Nat /\ proposeNum'[Primary] = first + n /\ first + n <= MaxBlock
  BY DEF Moves, Proposed
<1>3. k \in BlockNum /\ k \in Nat
  BY <1>1, <1>2 DEF BlockNum
<1>4. CASE k <= first
  <2>1. k \in 1..first
    BY <1>1, <1>3, <1>4
  <2>2. slots[Primary][k].block # NoBlock
    BY <1>1, <2>1
  <2> QED BY <1>1, <1>3, <2>1, <2>2, MovesKeepBlocks, BlockTypes
<1>5. CASE k > first
  <2>1. k - first \in 1..n /\ k = first + (k - first)
    BY <1>1, <1>2, <1>3, <1>5
  <2>2. sl[k].block = NoBlock
    BY <1>1, <1>3, <1>5, FromPrimary
  <2>3. slots'[Primary][k].block = bs[k - first]
    BY <1>3, <2>1, <2>2 DEF Moves, Proposed
  <2> QED BY <1>5, <2>1, <2>3
<1> QED BY <1>1, <1>3, <1>4, <1>5

LEMMA OrderMoves ==
  ASSUME FinalInv, Origin, OrderInv, StepMoves
  PROVE  OrderInv'
<1> SUFFICES ASSUME Primary \in Correct
             PROVE  /\ \A c \in Client : \/ pending'[Primary][c] = 0
                                         \/ pending'[Primary][c] > submitted'[Primary][c]
                    /\ \A k \in 1..proposeNum'[Primary] : \A x \in slots'[Primary][k].block :
                         x.seq <= submitted'[Primary][x.client]
                    /\ \A j, k \in 1..proposeNum'[Primary] :
                         \A x \in slots'[Primary][j].block :
                           \A y \in slots'[Primary][k].block : Before(j, x, k, y)
  BY DEF OrderInv, Before
<1>1. PICK r, sl, pd, sb, f, msgs, bs, n : r \in Correct /\ Moves(r, sl, pd, sb, f, msgs, bs, n)
  BY DEF StepMoves
<1>2. CASE r # Primary
  <2>1. /\ slots'[Primary] = slots[Primary] /\ proposeNum'[Primary] = proposeNum[Primary]
        /\ pending'[Primary] = pending[Primary] /\ submitted'[Primary] = submitted[Primary]
    BY <1>1, <1>2 DEF Moves, Proposed
  <2> QED BY <2>1 DEF OrderInv
<1>3. CASE r = Primary
  <2> DEFINE first == proposeNum[Primary]
             Old(k) == slots[Primary][k].block
             New(k) == slots'[Primary][k].block
             was == submitted[Primary]
             now == submitted'[Primary]
  <2>1. /\ first \in Nat /\ proposeNum'[Primary] \in Nat
        /\ \A c \in Client : was[c] \in Nat
    BY <1>1, <1>3, BoundAssumption DEF FinalInv, PbftInv, TypeOK, Moves, Proposed
  <2>2. \A c \in Client : /\ pd[c] \in Nat /\ sb[c] \in Nat /\ sb[c] >= was[c]
                          /\ pd[c] = 0 \/ pd[c] > sb[c]
    BY <1>1, <1>3 DEF Moves, OrderInv
  <2>3. \A c \in Client : /\ pending'[Primary][c] = IF Closes(bs, n, c) THEN 0 ELSE pd[c]
                          /\ now[c] = IF Closes(bs, n, c) THEN pd[c] ELSE sb[c]
    BY <1>1, <1>3 DEF Moves, Proposed
  <2>4. \A i \in 1..n : \A x \in bs[i] : x \in Command /\ x = [client |-> x.client, seq |-> pd[x.client]]
                                       /\ pd[x.client] # 0 /\ x.client \in Client
    BY <1>1, <1>3 DEF Moves, Proposed, PoolCommands, Block, Command
  <2>5. \A i, j \in 1..n : i # j => bs[i] \cap bs[j] = {}
    BY <1>1, <1>3 DEF Moves, Proposed
  <2>6. \A k \in 1..proposeNum'[Primary] :
          \/ k \in 1..first /\ New(k) = Old(k) /\ Old(k) \in Block
          \/ k > first /\ \E i \in 1..n : k = first + i /\ New(k) = bs[i]
    BY <1>1, <1>3, ProposedLog
  <2>7. /\ \A k \in 1..first : \A x \in Old(k) : x.seq <= was[x.client]
        /\ \A j, k \in 1..first : \A x \in Old(j) : \A y \in Old(k) : Before(j, x, k, y)
    BY DEF OrderInv
  <2>8. \A c \in Client : Closes(bs, n, c) => pd[c] # 0 /\ pd[c] > sb[c]
    BY <2>2, <2>4 DEF Closes
  <2>9. \A c \in Client : now[c] \in Nat /\ was[c] <= sb[c] /\ sb[c] <= now[c]
    BY <2>1, <2>2, <2>3, <2>8
  <2>10. \A k \in 1..first : \A x \in Old(k) : Old(k) \in Block =>
           x.client \in Client /\ x.seq \in Nat
    BY BoundAssumption DEF Block, Command
  <2> HIDE DEF first, Old, New, was, now
  <2>11. \A c \in Client : \/ pending'[Primary][c] = 0
                          \/ pending'[Primary][c] > now[c]
    BY <2>2, <2>3
  <2>12. ASSUME NEW k \in 1..proposeNum'[Primary], NEW x \in New(k)
         PROVE  x.seq <= now[x.client]
    <3>1. CASE k \in 1..first /\ New(k) = Old(k) /\ Old(k) \in Block
      <4>1. x.client \in Client /\ x.seq \in Nat /\ x.seq <= was[x.client]
        BY <2>7, <2>10, <3>1
      <4> QED BY <2>1, <2>2, <2>9, <4>1
    <3>2. CASE \E i \in 1..n : k = first + i /\ New(k) = bs[i]
      <4>1. PICK i \in 1..n : x \in bs[i]
        BY <3>2
      <4>2. x.seq = pd[x.client] /\ x.client \in Client /\ Closes(bs, n, x.client)
        BY <2>4, <4>1 DEF Closes
      <4> QED BY <2>2, <2>3, <4>2
    <3> QED BY <2>6, <3>1, <3>2
  <2>13. ASSUME NEW j \in 1..proposeNum'[Primary], NEW k \in 1..proposeNum'[Primary],
                NEW x \in New(j), NEW y \in New(k),
                x.client = y.client, j <= k, <<j, x>> # <<k, y>>
         PROVE  j < k /\ x.seq < y.seq
    <3>1. CASE k \in 1..first
      <4>1. j \in 1..first /\ New(j) = Old(j) /\ New(k) = Old(k)
        BY <2>1, <2>6, <2>13, <3>1
      <4>2. Before(j, x, k, y)
        BY <2>7, <3>1, <4>1
      <4> QED BY <2>13, <4>2 DEF Before
    <3>2. CASE k \notin 1..first
      <4>1. PICK i \in 1..n : k = first + i /\ New(k) = bs[i] /\ k > first
        BY <2>6, <3>2
      <4>2. y = [client |-> y.client, seq |-> pd[y.client]] /\ y.client \in Client /\ y.seq = pd[y.client]
            /\ pd[y.client] # 0
        BY <2>4, <4>1
      <4>3. CASE j \in 1..first /\ New(j) = Old(j) /\ Old(j) \in Block
        <5>1. x.seq \in Nat /\ x.seq <= was[x.client] /\ x.client \in Client
          BY <2>7, <2>10, <4>3
        <5>2. x.seq < y.seq
          BY <2>1, <2>2, <2>13, <4>2, <5>1
        <5> QED BY <2>1, <4>1, <4>3, <5>2
      <4>4. CASE \E h \in 1..n : j = first + h /\ New(j) = bs[h]
        <5>1. PICK h \in 1..n : j = first + h /\ New(j) = bs[h]
          BY <4>4
        <5>2. x = [client |-> x.client, seq |-> pd[x.client]]
          BY <2>4, <5>1
        <5>3. x = y
          BY <2>13, <4>2, <5>2
        <5>4. h = i
          BY <2>5, <4>1, <5>1, <5>3
        <5> QED BY <2>13, <4>1, <5>1, <5>3, <5>4
      <4> QED BY <2>6, <4>3, <4>4
    <3> QED BY <3>1, <3>2
  <2> QED BY <2>11, <2>12, <2>13 DEF Before, New, now
<1> QED BY <1>2, <1>3

(* With a correct primary every replica hands out the commands of a client in the    *)
(* order of their seqs and each only once, although clients and backups send them    *)
(* again.                                                                           *)
THEOREM PbftClientOrder ==
  ASSUME Primary \in Correct
  PROVE  Spec => []ClientOrder
<1>1. Init => OrderInv
  BY BoundAssumption DEF Init, OrderInv
<1>2. (FinalInv /\ Origin /\ OrderInv /\ [Next]_vars) => OrderInv'
  <2>1. ASSUME OrderInv, UNCHANGED vars PROVE OrderInv'
    BY <2>1 DEF vars, OrderInv, Before
  <2> QED BY <2>1, NextMoves, OrderMoves
<1>3. ASSUME FinalInv, FinalBlocks, Origin, OrderInv PROVE ClientOrder
  <2>1. \A r \in Correct : \A k \in 1..finalizeNum[r] :
          k \in 1..proposeNum[Primary] /\ slots[r][k].block = slots[Primary][k].block
    <3> SUFFICES ASSUME NEW r \in Correct, NEW k \in 1..finalizeNum[r]
                 PROVE  k \in 1..proposeNum[Primary] /\ slots[r][k].block = slots[Primary][k].block
      OBVIOUS
    <3>1. /\ finalizeNum[r] \in 0..MaxBlock /\ proposeNum[Primary] \in 0..MaxBlock /\ MaxBlock \in Nat
      BY <1>3, BoundAssumption DEF FinalInv, PbftInv, TypeOK
    <3>2. k \in BlockNum /\ k \in Nat /\ slots[r][k].block \in Block /\ slots[r][k].block # NoBlock
      BY <1>3, <3>1, NoBlockAssumption DEF FinalBlocks, BlockNum
    <3>3. PrePrepare(k, slots[r][k].block) \in sent
      BY <1>3, <3>2 DEF Origin
    <3>4. k <= proposeNum[Primary] /\ slots[r][k].block = slots[Primary][k].block
      BY <1>3, <3>2, <3>3 DEF Origin
    <3> QED BY <3>1, <3>2, <3>4
  <2> QED BY <1>3, <2>1 DEF ClientOrder, OrderInv, Before
<1> QED BY <1>1, <1>2, <1>3, FinalAreBlocks, PbftFinalInvariant, PbftOrigin, PTL DEF Spec

-----------------------------------------------------------------------------
(* A step of PbftLossy, whether it loses a message, receives one or sends one again, *)
(* is a step of Pbft or leaves its variables alone.                                  *)
LEMMA LossyStep == [LossyNext]_lossyVars => [Next]_vars
<1> SUFFICES ASSUME [LossyNext]_lossyVars PROVE [Next]_vars
  OBVIOUS
<1>1. CASE UNCHANGED lossyVars
  BY <1>1 DEF lossyVars, vars
<1>2. ASSUME NEW r \in Correct \ ended, NEW k \in BlockNum, LossyAccept(r, k) PROVE Next
  BY <1>2 DEF LossyAccept, Receive, Next
<1>3. ASSUME NEW r \in Correct \ ended, NEW k \in BlockNum, LossyRepeat(r, k) PROVE Next
  BY <1>3 DEF LossyRepeat, Receive, Next
<1>4. ASSUME NEW r \in Correct \ ended, NEW k \in BlockNum, LossyPrepare(r, k) PROVE Next
  BY <1>4 DEF LossyPrepare, Receive, Next
<1>5. ASSUME NEW r \in Correct \ ended, NEW k \in BlockNum, LossyCommit(r, k) PROVE Next
  BY <1>5 DEF LossyCommit, Receive, Next
<1>6. ASSUME NEW r \in Correct \ ended, LossyTick(r) PROVE Next
  BY <1>6 DEF LossyTick, Next
<1>7. ASSUME NEW command \in Command, LossyRequest(command) PROVE Next
  BY <1>7 DEF LossyRequest, Next
<1>8. CASE Lose \/ Stabilize
  BY <1>8 DEF Lose, Stabilize
<1> QED BY <1>1, <1>2, <1>3, <1>4, <1>5, <1>6, <1>7, <1>8 DEF LossyNext

(* PbftLossy implements Pbft: what replicas do when messages are lost, and sent again by   *)
(* tick and in answer to a repeated PrePrepare, they could do with a network that is late. *)
THEOREM LossyIsPbft == LossySpec => Spec
<1>1. LossyInit => Init
  BY DEF LossyInit
<1> QED BY <1>1, LossyStep, PTL DEF LossySpec, Spec

(* Losses never make correct replicas disagree, nor an assertion fail: what is promised    *)
(* by pbft/mod.rs of the order of blocks does not rest on the repairs of its tick.        *)
THEOREM LossyIsSafe ==
  ASSUME Cardinality(Replica) > 3 * NumFaulty, Cardinality(Faulty) <= NumFaulty
  PROVE  LossySpec => [](Agreement /\ NoPanic) /\ BroadcastSpec
BY LossyIsPbft, PbftAgreement, PbftNeverPanics, PbftAtomicBroadcast, PTL
=============================================================================
