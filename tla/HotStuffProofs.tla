--------------------------- MODULE HotStuffProofs ---------------------------
(* What holds of the HotStuff replicas, for any number of replicas, clients and    *)
(* nonces. The leader proposes only when its leaf is certified, so the blocks are    *)
(* one chain: block b extends and certifies block b - 1. Everything rests on that;     *)
(* every action keeps HotStuffInv, and the properties follow from it.               *)
EXTENDS HotStuff, SetLemmas, SequenceTheorems

BlockType ==
  [parent : Nat, justify : Nat, height : Nat, commands : SUBSET Command,
   reserved : UNION {[D -> Nat] : D \in SUBSET Correct}]

Pool == [Client -> 0..MaxSeq]
Core ==
  [nodes : SUBSET Nat, voteHeight : Nat, lock : Nat, executed : Nat, leaf : Nat, qcHigh : Nat,
   pending : Pool, submitted : Pool, finalized : Seq(Nat),
   votes : SUBSET Nat]

Message ==
  [type : {"Generic"}, to : Backup, block : Nat]
    \cup [type : {"VoteGeneric"}, from : Backup, block : Nat]
    \cup [type : {"Supply"}, from : Backup, nonces : SUBSET Nat]

TypeInv ==
  /\ blocks \in Seq(BlockType) /\ core \in [Correct -> Core] /\ extra \in Int
  /\ waiting \in [Correct -> SUBSET Nat] /\ signing \in [Correct -> SUBSET Nat]
  /\ nonces \in [Correct -> SUBSET Nat] /\ made \in [Correct -> Nat]
  /\ stock \in [Replica -> SUBSET Nat]
  /\ scratches \in SUBSET Nat /\ partials \in SUBSET (Nat \X Correct)
  /\ network \in SUBSET Message
  /\ failed \in BOOLEAN /\ fallback \in BOOLEAN

-----------------------------------------------------------------------------
(* Block b is certified by a quorum and extends block b - 1 with its certificate. *)
Linear(bs) ==
  \A b \in 1..Len(bs) :
    /\ bs[b].parent = b - 1 /\ bs[b].justify = b - 1 /\ bs[b].height = b
    /\ Cardinality(DOMAIN bs[b].reserved) >= QuorumSize

(* A core that has handled the blocks up to voteHeight: its lock is two blocks    *)
(* behind, and what it has finalized three.                                       *)
Back(k, d) == IF k > d THEN k - d ELSE 0
Chain(s) ==
  /\ s \in Core
  /\ s.nodes = 0..s.voteHeight
  /\ s.lock = Back(s.voteHeight, 2)
  /\ s.executed = Back(s.voteHeight, 3)
  /\ s.finalized = [i \in 1..Back(s.voteHeight, 3) |-> i]

(* The leader: its last block has a scratch until it is certified.                *)
LeaderOK(s, scr) ==
  /\ Chain(s)
  /\ s.voteHeight = Len(blocks) /\ s.leaf = Len(blocks)
  /\ s.qcHigh \in {Len(blocks), Back(Len(blocks), 1)}
  /\ s.votes = {}
  /\ scr = IF s.qcHigh = Len(blocks) THEN {} ELSE {Len(blocks)}

Top(r) == core[r].voteHeight

BackupCore(s) ==
  Chain(s) /\ s.leaf = Back(s.voteHeight, 1) /\ s.qcHigh = Back(s.voteHeight, 1)

(* A backup: what waits is not the next block.                                    *)
BackupsOK ==
  \A r \in Backup :
    /\ BackupCore(core[r]) /\ core[r].votes = {}
    /\ Top(r) <= Len(blocks)
    /\ \A b \in waiting[r] : b >= Top(r) + 2 /\ b <= Len(blocks)
    /\ signing[r] = waiting[r]

(* Every proposal reaches a backup once.                                          *)
GenericOK(net) ==
  \A r \in Backup : \A b \in Nat :
    Generic(b, r) \in net => b > Top(r) /\ b <= Len(blocks) /\ b \notin waiting[r]

(* A nominated backup votes once, and its block has a scratch until it has done so. *)
VotesOK(net, scr, par) ==
  /\ \A p \in par : /\ p[1] \in scr /\ p[2] \in DOMAIN blocks[p[1]].reserved
                    /\ p[2] # Leader => p[1] <= Top(p[2])
  /\ \A r \in Backup : \A b \in Nat :
       VoteGeneric(b, r) \in net =>
         /\ b \in scr /\ r \in DOMAIN blocks[b].reserved
         /\ b <= Top(r) /\ <<b, r>> \notin par
  /\ \A r \in Backup : \A b \in 1..Len(blocks) :
       r \in DOMAIN blocks[b].reserved /\ b > Top(r) => b \in scr

(* The nonces of r: those in stock, those in supplies and those that are reserved  *)
(* are distinct, and r holds them until it has signed with them.                  *)
Reserves(b, r) == b \in 1..Len(blocks) /\ r \in DOMAIN blocks[b].reserved
NoncesOK(net) ==
  /\ \A r \in Silent : stock[r] = {}
  /\ \A r \in Correct :
       /\ nonces[r] \subseteq 1..made[r]
       /\ stock[r] \subseteq nonces[r]
       /\ \A b \in 1..Len(blocks) : Reserves(b, r) =>
            /\ blocks[b].reserved[r] \in 1..made[r] \ stock[r]
            /\ r # Leader /\ b > Top(r) => blocks[b].reserved[r] \in nonces[r]
       /\ \A b, d \in 1..Len(blocks) : Reserves(b, r) /\ Reserves(d, r) /\ b # d =>
            blocks[b].reserved[r] # blocks[d].reserved[r]
  /\ \A m \in net : m.type = "Supply" =>
       /\ m.nonces \subseteq nonces[m.from] /\ m.nonces \cap stock[m.from] = {}
       /\ \A b \in 1..Len(blocks) : Reserves(b, m.from) =>
            blocks[b].reserved[m.from] \notin m.nonces
       /\ \A n \in net : n.type = "Supply" /\ n.from = m.from /\ n # m =>
            n.nonces \cap m.nonces = {}

(* The inductive invariant.                                                      *)
HotStuffInv ==
  /\ TypeInv
  /\ Linear(blocks)
  /\ LeaderOK(core[Leader], scratches)
  /\ BackupsOK
  /\ GenericOK(network)
  /\ VotesOK(network, scratches, partials)
  /\ NoncesOK(network)
  /\ ~failed

-----------------------------------------------------------------------------
LEMMA ReplicaFacts ==
  /\ Leader \in Correct /\ Leader \notin Backup /\ Backup \subseteq Correct
  /\ Correct \subseteq Replica /\ Replica \subseteq Nat /\ Correct = Backup \cup {Leader}
  /\ IsFiniteSet(Replica) /\ IsFiniteSet(Correct)
  /\ QuorumSize \in Int /\ QuorumSize > 1
<1>1. Leader \in Replica /\ Leader \notin Silent
  BY ReplicaAssumption, SilentAssumption DEF Replica, Leader
<1>2. IsFiniteSet(Replica)
  BY ReplicaAssumption, FS_Interval DEF Replica
<1>3. Correct \subseteq Replica
  BY DEF Correct
<1>4. IsFiniteSet(Correct)
  BY <1>2, <1>3, FS_Subset
<1>5. Replica \subseteq Nat
  BY ReplicaAssumption DEF Replica
<1> QED BY <1>1, <1>2, <1>3, <1>4, <1>5, ReplicaAssumption, QuorumAssumption DEF Correct, Backup, QuorumSize

-----------------------------------------------------------------------------
(* The chain.                                                                  *)

LEMMA ChainLinks ==
  ASSUME NEW bs \in Seq(BlockType), Linear(bs), NEW b \in 0..Len(bs)
  PROVE  /\ Parent(bs, b) = Back(b, 1) /\ Justify(bs, b) = Back(b, 1) /\ Height(bs, b) = b
         /\ CommandsOf(bs, b) \subseteq Command
<1>1. CASE b = 0
  BY <1>1 DEF Parent, Justify, Height, CommandsOf, Back
<1>2. CASE b # 0
  <2>1. b \in 1..Len(bs) /\ bs[b] \in BlockType
    BY <1>2
  <2>2. bs[b].commands \subseteq Command
    BY <2>1 DEF BlockType
  <2> QED BY <1>2, <2>1, <2>2 DEF Linear, Parent, Justify, Height, CommandsOf, Back
<1> QED BY <1>1, <1>2

LEMMA LinearBranch ==
  ASSUME NEW bs \in Seq(BlockType), Linear(bs), NEW b \in 0..Len(bs)
  PROVE  Branch(bs, b) = 0..b
<1> DEFINE n == Len(bs)
           Rec(f) == f = [k \in 0..n |-> IF k = 0 THEN {0} ELSE {k} \cup f[Parent(bs, k)]]
           up == CHOOSE f : Rec(f)
           g == [k \in 0..n |-> 0..k]
<1>1. n \in Nat /\ \A k \in 1..n : Parent(bs, k) = k - 1
  BY ChainLinks DEF Back
<1>2. Rec(g)
  <2> SUFFICES ASSUME NEW k \in 0..n
               PROVE  0..k = IF k = 0 THEN {0} ELSE {k} \cup g[Parent(bs, k)]
    OBVIOUS
  <2>1. CASE k = 0
    BY <2>1
  <2>2. CASE k # 0
    <3>1. Parent(bs, k) = k - 1 /\ k - 1 \in 0..n
      BY <1>1, <2>2
    <3>2. g[Parent(bs, k)] = 0..(k - 1)
      BY <3>1
    <3>3. 0..k = {k} \cup 0..(k - 1)
      BY <1>1
    <3> QED BY <2>2, <3>2, <3>3
  <2> QED BY <2>1, <2>2
<1> HIDE DEF g, Rec
<1>3. Rec(up)
  BY <1>2
<1> HIDE DEF up
<1>4. up[0] = {0} /\ \A k \in 1..n : up[k] = {k} \cup up[k - 1]
  <2>1. \A k \in 0..n : up[k] = IF k = 0 THEN {0} ELSE {k} \cup up[Parent(bs, k)]
    BY <1>3 DEF Rec
  <2>2. 0 \in 0..n
    BY <1>1
  <2>3. up[0] = {0}
    BY <2>1, <2>2
  <2>4. ASSUME NEW k \in 1..n PROVE up[k] = {k} \cup up[k - 1]
    <3>1. k \in 0..n /\ k # 0 /\ Parent(bs, k) = k - 1
      BY <1>1
    <3> QED BY <2>1, <3>1
  <2> QED BY <2>3, <2>4
<1>5. \A k \in 0..n : up[k] = 0..k
  <2> DEFINE bad == {k \in 0..n : up[k] # 0..k}
  <2> SUFFICES ASSUME bad # {} PROVE FALSE
    OBVIOUS
  <2>1. PICK k \in bad : \A y \in bad : k <= y
    <3>1. bad \in SUBSET (0..n)
      OBVIOUS
    <3> HIDE DEF bad
    <3> QED BY <1>1, <3>1, LeastExists
  <2>2. CASE k = 0
    <3>1. 0..0 = {0}
      OBVIOUS
    <3> QED BY <1>4, <2>1, <2>2, <3>1
  <2>3. CASE k # 0
    <3>1. k \in 1..n /\ k - 1 \in 0..n
      BY <1>1, <2>3
    <3>2. up[k - 1] = 0..(k - 1)
      BY <1>1, <2>1, <3>1
    <3>3. up[k] = {k} \cup 0..(k - 1)
      BY <1>4, <3>1, <3>2
    <3>4. {k} \cup 0..(k - 1) = 0..k
      BY <3>1
    <3> QED BY <3>3, <3>4
  <2> QED BY <2>2, <2>3
<1>6. Branch(bs, b) = up[b]
  BY DEF Branch, up, Rec, n
<1> QED BY <1>5, <1>6

(* Ascending lists an interval in order.                                       *)
LEMMA AscendingInterval ==
  ASSUME NEW a \in Nat, NEW z \in Nat, a <= z + 1
  PROVE  Ascending(a..z) = [i \in 1..(z - a + 1) |-> a + i - 1]
<1>1. Cardinality(a..z) = z - a + 1
  BY FS_Interval
<1>2. ASSUME NEW i \in 1..(z - a + 1)
      PROVE  (CHOOSE n \in a..z : Cardinality({m \in a..z : m < n}) = i - 1) = a + i - 1
  <2>1. \A n \in a..z : Cardinality({m \in a..z : m < n}) = n - a
    <3> TAKE n \in a..z
    <3>1. {m \in a..z : m < n} = a..(n - 1)
      OBVIOUS
    <3>2. n - 1 \in Int /\ a <= n /\ n \in Int
      OBVIOUS
    <3>3. Cardinality(a..(n - 1)) = IF a > n - 1 THEN 0 ELSE (n - 1) - a + 1
      BY <3>2, FS_Interval
    <3>4. Cardinality(a..(n - 1)) = n - a
      BY <3>2, <3>3
    <3> QED BY <3>1, <3>4
  <2>2. a + i - 1 \in a..z /\ Cardinality({m \in a..z : m < a + i - 1}) = i - 1
    <3>1. a + i - 1 \in a..z /\ (a + i - 1) - a = i - 1
      OBVIOUS
    <3> QED BY <2>1, <3>1
  <2>3. \A n \in a..z : Cardinality({m \in a..z : m < n}) = i - 1 => n = a + i - 1
    <3> TAKE n \in a..z
    <3>1. Cardinality({m \in a..z : m < n}) = n - a
      BY <2>1
    <3> QED BY <3>1
  <2> QED BY <2>2, <2>3
<1> QED BY <1>1, <1>2 DEF Ascending

-----------------------------------------------------------------------------
(* The core. Its pool does not matter to the chain.                             *)
SameChain(s, t) ==
  /\ t \in Core
  /\ t.nodes = s.nodes /\ t.voteHeight = s.voteHeight /\ t.lock = s.lock
  /\ t.executed = s.executed /\ t.leaf = s.leaf /\ t.qcHigh = s.qcHigh
  /\ t.finalized = s.finalized /\ t.votes = s.votes

LEMMA PushedSame ==
  ASSUME NEW s \in Core, NEW command \in Command
  PROVE  SameChain(s, Pushed(s, command))
<1>1. command.client \in Client /\ command.seq \in 0..MaxSeq
  BY BoundAssumption DEF Command
<1> QED BY <1>1 DEF Pushed, SameChain, Core, Pool

LEMMA ClosedSame ==
  ASSUME NEW s \in Core, NEW batch
  PROVE  SameChain(s, Closed(s, batch))
<1>1. 0 \in 0..MaxSeq
  BY BoundAssumption
<1> QED BY <1>1 DEF Closed, SameChain, Core, Pool

LEMMA CommittedSame ==
  ASSUME NEW s \in Core, NEW commands \in SUBSET Command
  PROVE  SameChain(s, Committed(s, commands))
<1> DEFINE seqs(c) == {0} \cup {x.seq : x \in {y \in commands : y.client = c}}
<1>1. \A c \in Client : Max(seqs(c)) \in 0..MaxSeq
  <2> TAKE c \in Client
  <2>1. seqs(c) \in SUBSET (0..MaxSeq) /\ seqs(c) # {} /\ MaxSeq \in Nat
    BY BoundAssumption DEF Command
  <2> HIDE DEF seqs
  <2>2. Max(seqs(c)) \in seqs(c)
    BY <2>1, MaxExists
  <2> QED BY <2>1, <2>2
<1> DEFINE done(c) == Max(seqs(c))
           pend == [c \in Client |-> IF s.pending[c] <= done(c) THEN 0 ELSE s.pending[c]]
           subm == [c \in Client |-> IF s.submitted[c] < done(c) THEN done(c) ELSE s.submitted[c]]
<1>2. Committed(s, commands) = [s EXCEPT !.pending = pend, !.submitted = subm]
  BY DEF Committed
<1>3. pend \in Pool /\ subm \in Pool
  <2> HIDE DEF seqs
  <2>1. 0 \in 0..MaxSeq
    BY BoundAssumption
  <2> QED BY <1>1, <2>1 DEF Core, Pool
<1> HIDE DEF pend, subm
<1> QED BY <1>2, <1>3 DEF SameChain, Core

LEMMA BackupBeatSame ==
  ASSUME NEW s \in Core
  PROVE  SameChain(s, BackupBeat(s))
<1>1. SameChain(s, s)
  BY DEF SameChain
<1> QED BY <1>1, ClosedSame DEF BackupBeat

-----------------------------------------------------------------------------
(* The log of the first n blocks.                                              *)
LEMMA Counting ==
  ASSUME NEW n \in Nat
  PROVE  /\ [i \in 1..n |-> i] \in Seq(Nat)
         /\ [i \in 1..n |-> i] \o <<n + 1>> = [i \in 1..(n + 1) |-> i]
<1> DEFINE a == [i \in 1..n |-> i]
           b == <<n + 1>>
           c == [i \in 1..(n + 1) |-> i]
<1>1. a \in Seq(Nat) /\ Len(a) = n /\ \A i \in 1..n : a[i] = i
  OBVIOUS
<1>2. b \in Seq(Nat) /\ Len(b) = 1 /\ b[1] = n + 1
  OBVIOUS
<1>3. c \in Seq(Nat) /\ Len(c) = n + 1 /\ \A i \in 1..(n + 1) : c[i] = i
  OBVIOUS
<1> HIDE DEF a, b, c
<1>4. /\ a \o b \in Seq(Nat) /\ Len(a \o b) = n + 1
      /\ \A i \in 1..(n + 1) : (a \o b)[i] = IF i <= n THEN a[i] ELSE b[i - n]
  <2>1. /\ a \o b \in Seq(Nat) /\ Len(a \o b) = Len(a) + Len(b)
        /\ \A i \in 1..(Len(a) + Len(b)) :
             (a \o b)[i] = IF i <= Len(a) THEN a[i] ELSE b[i - Len(a)]
    BY <1>1, <1>2, ConcatProperties
  <2> QED BY <1>1, <1>2, <2>1
<1>5. ASSUME NEW i \in 1..(n + 1) PROVE (a \o b)[i] = c[i]
  <2>1. CASE i <= n
    BY <1>1, <1>3, <1>4, <2>1
  <2>2. CASE i = n + 1
    <3>1. ~(i <= n) /\ i - n = 1
      BY <2>2
    <3>2. (a \o b)[i] = b[1]
      BY <1>4, <3>1
    <3>3. c[i] = i
      BY <1>3
    <3> QED BY <1>2, <2>2, <3>2, <3>3
  <2>3. i <= n \/ i = n + 1
    OBVIOUS
  <2> QED BY <2>1, <2>2, <2>3
<1>6. a \o b = c
  BY <1>3, <1>4, <1>5, SeqEqual
<1> QED BY <1>1, <1>6 DEF a, b, c

(* Handling the next block finalizes the one that is three behind.               *)
LEMMA OnCommitNext ==
  ASSUME NEW bs \in Seq(BlockType), Linear(bs), NEW k \in Nat, k + 1 <= Len(bs),
         NEW s \in Core, s.executed = Back(k, 3),
         s.finalized = [i \in 1..Back(k, 3) |-> i],
         NEW v, v = OnCommit(bs, s, Back(k + 1, 3))
  PROVE  /\ v \in Core /\ v.nodes = s.nodes /\ v.voteHeight = s.voteHeight /\ v.lock = s.lock
         /\ v.leaf = s.leaf /\ v.qcHigh = s.qcHigh /\ v.votes = s.votes
         /\ v.finalized = [i \in 1..Back(k + 1, 3) |-> i]
<1> DEFINE e == Back(k, 3)
           f == Back(k + 1, 3)
           new == NotExecuted(bs, s, f)
           commands == UNION {CommandsOf(bs, n) : n \in new}
           t == Committed(s, commands)
<1>1. e \in Nat /\ f \in Nat /\ e <= f /\ f <= e + 1 /\ f \in 0..Len(bs) /\ e \in 0..Len(bs)
      /\ Len(bs) \in Nat
  BY DEF Back
<1>2. new = (e + 1)..f
  <2>1. Branch(bs, f) = 0..f
    BY <1>1, LinearBranch
  <2>2. \A n \in 0..f : n \in 0..Len(bs)
    BY <1>1
  <2>3. Height(bs, s.executed) = e /\ \A n \in 0..f : Height(bs, n) = n
    BY <1>1, <2>2, ChainLinks
  <2>4. new = {n \in 0..f : n > e}
    BY <2>1, <2>3 DEF NotExecuted
  <2> HIDE DEF new, e, f
  <2> QED BY <1>1, <2>4
<1>3. commands \subseteq Command
  <2>1. \A n \in new : n \in 0..Len(bs)
    BY <1>1, <1>2
  <2> HIDE DEF new
  <2> QED BY <2>1, ChainLinks
<1>4. SameChain(s, t)
  <2> HIDE DEF commands
  <2> QED BY <1>3, CommittedSame
<1>5. Ascending(new) = [i \in 1..(f - e) |-> e + i]
  <2>1. Ascending((e + 1)..f) = [i \in 1..(f - (e + 1) + 1) |-> (e + 1) + i - 1]
    <3> HIDE DEF e, f
    <3> QED BY <1>1, AscendingInterval
  <2>2. f - (e + 1) + 1 = f - e /\ \A i \in 1..(f - e) : (e + 1) + i - 1 = e + i
    <3> HIDE DEF e, f
    <3> QED BY <1>1
  <2> HIDE DEF new, e, f
  <2> QED BY <1>2, <2>1, <2>2
<1>6. OnCommit(bs, s, f) = [t EXCEPT !.finalized = @ \o Ascending(new)]
  BY DEF OnCommit
<1> HIDE DEF new, commands, t
<1>7. t.finalized \o Ascending(new) = [i \in 1..f |-> i]
  <2> HIDE DEF e, f
  <2>1. t.finalized = [i \in 1..e |-> i]
    BY <1>4 DEF SameChain, e
  <2>2. CASE f = e
    <3>1. Ascending(new) = <<>>
      BY <1>1, <1>5, <2>2
    <3>2. [i \in 1..e |-> i] \in Seq(Nat)
      BY <1>1, Counting
    <3>3. [i \in 1..e |-> i] \o <<>> = [i \in 1..e |-> i]
      BY <3>2, ConcatEmptySeq
    <3> QED BY <2>1, <2>2, <3>1, <3>3
  <2>3. CASE f = e + 1
    <3>1. Ascending(new) = <<e + 1>>
      BY <1>1, <1>5, <2>3
    <3>2. [i \in 1..e |-> i] \o <<e + 1>> = [i \in 1..(e + 1) |-> i]
      BY <1>1, Counting
    <3> QED BY <2>1, <2>3, <3>1, <3>2
  <2>4. f = e \/ f = e + 1
    BY <1>1
  <2> QED BY <2>2, <2>3, <2>4
<1> DEFINE fin == t.finalized \o Ascending(new)
<1>8. fin \in Seq(Nat) /\ OnCommit(bs, s, f) = [t EXCEPT !.finalized = fin]
  <2> HIDE DEF f
  <2> QED BY <1>1, <1>6, <1>7, Counting
<1> HIDE DEF f, fin
<1>9. fin = [i \in 1..f |-> i] /\ t \in Core
  BY <1>4, <1>7 DEF fin, SameChain
<1>10. v = [t EXCEPT !.finalized = fin]
  BY <1>8 DEF f
<1>11. /\ v \in Core /\ v.finalized = fin /\ v.nodes = t.nodes /\ v.voteHeight = t.voteHeight
       /\ v.lock = t.lock /\ v.leaf = t.leaf /\ v.qcHigh = t.qcHigh /\ v.votes = t.votes
  BY <1>8, <1>9, <1>10 DEF Core
<1> QED BY <1>4, <1>9, <1>11 DEF f, SameChain

(* The core that has entered the next block is updated with its certificates.     *)
LEMMA UpdateNext ==
  ASSUME NEW bs \in Seq(BlockType), Linear(bs), NEW k \in Nat, k + 1 <= Len(bs),
         NEW s \in Core, s.nodes = 0..(k + 1), s.voteHeight = k + 1,
         s.lock = Back(k, 2), s.executed = Back(k, 3),
         s.finalized = [i \in 1..Back(k, 3) |-> i],
         s.qcHigh \in 0..Len(bs), NEW new, new = Update(bs, s, k + 1)
  PROVE  /\ Chain(new) /\ new.voteHeight = k + 1 /\ new.votes = s.votes
         /\ new.qcHigh = (IF k > s.qcHigh THEN k ELSE s.qcHigh)
         /\ new.leaf = (IF k > s.qcHigh THEN k ELSE s.leaf)
<1> DEFINE b == k + 1
           b1 == Justify(bs, b)
           b2 == Justify(bs, b1)
           b3 == Justify(bs, b2)
           t == UpdateQuorumCertHigh(bs, s, b1)
           u == IF Height(bs, b2) > Height(bs, t.lock) THEN [t EXCEPT !.lock = b2] ELSE t
           final == ThreeChain(bs, s, b1, b2, b3)
           v == OnCommit(bs, u, final)
<1>1. Len(bs) \in Nat /\ \A n \in 0..Len(bs) :
        Parent(bs, n) = Back(n, 1) /\ Justify(bs, n) = Back(n, 1) /\ Height(bs, n) = n
  BY ChainLinks
<1>2. b1 = k /\ b2 = Back(k, 1) /\ b3 = Back(k, 2) /\ final = Back(b, 3)
  <2>1. b \in 0..Len(bs) /\ Back(b, 1) = k /\ k \in 0..Len(bs) /\ Back(k, 1) \in 0..Len(bs)
        /\ Back(Back(k, 1), 1) = Back(k, 2) /\ Back(b, 3) = Back(k, 2)
    BY <1>1 DEF Back
  <2>2. b1 = k
    BY <1>1, <2>1
  <2>3. b2 = Back(k, 1)
    BY <1>1, <2>1, <2>2
  <2>4. b3 = Back(k, 2)
    BY <1>1, <2>1, <2>3
  <2>5. Parent(bs, b1) = b2 /\ Parent(bs, b2) = b3
    BY <1>1, <2>1, <2>2, <2>3, <2>4
  <2> QED BY <2>1, <2>2, <2>3, <2>4, <2>5 DEF ThreeChain
<1> HIDE DEF b1, b2, b3, final
<1>3. /\ t \in Core /\ t.nodes = s.nodes /\ t.voteHeight = k + 1 /\ t.lock = s.lock
      /\ t.executed = s.executed /\ t.finalized = s.finalized /\ t.votes = s.votes
      /\ t.qcHigh = (IF k > s.qcHigh THEN k ELSE s.qcHigh)
      /\ t.leaf = (IF k > s.qcHigh THEN k ELSE s.leaf)
  <2>1. Height(bs, b1) = k /\ Height(bs, s.qcHigh) = s.qcHigh
    BY <1>1, <1>2
  <2> QED BY <1>2, <2>1 DEF UpdateQuorumCertHigh, Core
<1> HIDE DEF t
<1>4. /\ u \in Core /\ u.nodes = s.nodes /\ u.voteHeight = k + 1 /\ u.lock = Back(b, 2)
      /\ u.executed = s.executed /\ u.finalized = s.finalized /\ u.votes = s.votes
      /\ u.qcHigh = t.qcHigh /\ u.leaf = t.leaf
  <2>1. Height(bs, b2) = Back(k, 1) /\ Height(bs, t.lock) = Back(k, 2)
    <3>1. Back(k, 1) \in 0..Len(bs) /\ Back(k, 2) \in 0..Len(bs)
      BY <1>1 DEF Back
    <3> QED BY <1>1, <1>2, <1>3, <3>1
  <2>2. Back(k, 1) > Back(k, 2) => Back(b, 2) = Back(k, 1)
    BY DEF Back
  <2>3. ~(Back(k, 1) > Back(k, 2)) => Back(b, 2) = Back(k, 2)
    BY DEF Back
  <2>4. Back(k, 1) \in Nat
    BY DEF Back
  <2>5. CASE Back(k, 1) > Back(k, 2)
    <3>1. u = [t EXCEPT !.lock = b2]
      BY <2>1, <2>5
    <3> QED BY <1>2, <1>3, <2>2, <2>4, <2>5, <3>1 DEF Core
  <2>6. CASE ~(Back(k, 1) > Back(k, 2))
    <3>1. u = t
      BY <2>1, <2>6
    <3> QED BY <1>3, <2>3, <2>6, <3>1
  <2> QED BY <2>5, <2>6
<1> HIDE DEF u
<1>5. /\ v \in Core /\ v.nodes = u.nodes /\ v.voteHeight = u.voteHeight /\ v.lock = u.lock
      /\ v.leaf = u.leaf /\ v.qcHigh = u.qcHigh /\ v.votes = u.votes
      /\ v.finalized = [i \in 1..Back(b, 3) |-> i]
  <2>1. u.executed = Back(k, 3) /\ u.finalized = [i \in 1..Back(k, 3) |-> i]
    BY <1>4
  <2>2. v = OnCommit(bs, u, Back(k + 1, 3))
    BY <1>2
  <2> HIDE DEF v
  <2> QED BY <1>4, <2>1, <2>2, OnCommitNext
<1> HIDE DEF v
<1>7. new = [v EXCEPT !.executed = final]
  BY DEF Update, v, final, u, t, b1, b2, b3
<1>8. final \in Nat
  BY <1>2 DEF Back
<1> DEFINE w == [v EXCEPT !.executed = final]
<1>9. /\ w \in Core /\ w.executed = Back(b, 3) /\ w.nodes = 0..b /\ w.voteHeight = b
      /\ w.lock = Back(b, 2) /\ w.leaf = t.leaf /\ w.qcHigh = t.qcHigh /\ w.votes = s.votes
      /\ w.finalized = [i \in 1..Back(b, 3) |-> i]
  BY <1>2, <1>4, <1>5, <1>8 DEF Core
<1> HIDE DEF w
<1> QED BY <1>3, <1>7, <1>9 DEF Chain, w

(* A backup votes for the next block, whatever its pool.                           *)
LEMMA HandleNext ==
  ASSUME TypeInv, Linear(blocks), NEW s, BackupCore(s), s.voteHeight + 1 <= Len(blocks)
  PROVE  LET t == HandleProposal(s, s.voteHeight + 1)
         IN  /\ BackupCore(t) /\ t.voteHeight = s.voteHeight + 1
             /\ t.votes = s.votes \cup {s.voteHeight + 1}
<1> DEFINE k == s.voteHeight
           b == k + 1
           e == [s EXCEPT !.nodes = @ \cup {b}]
           e2 == [e EXCEPT !.voteHeight = Height(blocks, b), !.votes = @ \cup {b}]
           p == Proposal(blocks, s, b)
<1>1. /\ blocks \in Seq(BlockType) /\ Len(blocks) \in Nat /\ s \in Core /\ k \in Nat
      /\ s.nodes = 0..k
  BY DEF TypeInv, BackupCore, Chain, Core
<1>2. \A n \in 0..Len(blocks) :
        Parent(blocks, n) = Back(n, 1) /\ Justify(blocks, n) = Back(n, 1) /\ Height(blocks, n) = n
  BY <1>1, ChainLinks
<1>3. Justify(blocks, b) = k /\ Height(blocks, b) = b /\ Branch(blocks, b) = 0..b
  <2>1. b \in 0..Len(blocks) /\ Back(b, 1) = k
    BY <1>1 DEF Back
  <2> QED BY <1>1, <1>2, <2>1, LinearBranch
<1>4. ShouldVote(blocks, s, b)
  <2>1. s.lock \in 0..b
    BY <1>1 DEF BackupCore, Chain, Back
  <2> QED BY <1>1, <1>3, <2>1 DEF ShouldVote
<1>5. p = Update(blocks, e2, b)
  BY <1>4 DEF Proposal
<1>6. /\ e2 \in Core /\ e2.nodes = 0..b /\ e2.voteHeight = b /\ e2.votes = s.votes \cup {b}
      /\ e2.lock = s.lock /\ e2.executed = s.executed /\ e2.finalized = s.finalized
      /\ e2.qcHigh = s.qcHigh /\ e2.leaf = s.leaf
  <2> DEFINE ns == s.nodes \cup {b}
  <2>1. ns = 0..b /\ ns \in SUBSET Nat
    BY <1>1
  <2>2. e \in Core /\ e.nodes = 0..b /\ e.votes = s.votes /\ e.qcHigh = s.qcHigh
        /\ e.leaf = s.leaf /\ e.lock = s.lock /\ e.executed = s.executed
        /\ e.finalized = s.finalized
    <3>1. e = [s EXCEPT !.nodes = ns]
      OBVIOUS
    <3> HIDE DEF e, ns, b
    <3> QED BY <1>1, <2>1, <3>1 DEF Core
  <2> HIDE DEF e
  <2>3. Height(blocks, b) = b /\ b \in Nat /\ e.votes \cup {b} \in SUBSET Nat
    BY <1>1, <1>3, <2>2 DEF Core
  <2> HIDE DEF b
  <2> QED BY <2>2, <2>3 DEF Core
<1> HIDE DEF e2, e
<1>7. /\ s.qcHigh = Back(k, 1) /\ s.leaf = Back(k, 1) /\ s.qcHigh \in 0..Len(blocks)
      /\ s.lock = Back(k, 2) /\ s.executed = Back(k, 3) /\ s.finalized = [i \in 1..Back(k, 3) |-> i]
  BY <1>1 DEF BackupCore, Chain, Back
<1>8. /\ Chain(p) /\ p.voteHeight = b /\ p.votes = e2.votes
      /\ p.qcHigh = (IF k > e2.qcHigh THEN k ELSE e2.qcHigh)
      /\ p.leaf = (IF k > e2.qcHigh THEN k ELSE e2.leaf)
  BY <1>1, <1>5, <1>6, <1>7, UpdateNext
<1>9. p.qcHigh = Back(b, 1) /\ p.leaf = Back(b, 1)
  BY <1>1, <1>6, <1>7, <1>8 DEF Back
<1> HIDE DEF p
<1>10. SameChain(p, BackupBeat(p))
  BY <1>8, BackupBeatSame DEF Chain
<1>11. HandleProposal(s, b) = BackupBeat(p)
  BY <1>1, <1>3 DEF HandleProposal, p
<1> HIDE DEF b
<1> QED BY <1>6, <1>8, <1>9, <1>10, <1>11 DEF SameChain, BackupCore, Chain, b

(* The fold of Handled is there: by least counterexample, as every prefix is.      *)
HandledUpTo(f, start, order, n) ==
  f = [i \in 0..n |-> IF i = 0 THEN start ELSE HandleProposal(f[i - 1], order[i])]

LEMMA HandledExists ==
  ASSUME NEW start, NEW order, NEW n \in Nat
  PROVE  \E f : HandledUpTo(f, start, order, n)
<1> DEFINE Fold(f, m) ==
             /\ f = [i \in 0..m |-> f[i]] /\ f[0] = start
             /\ \A i \in 1..m : f[i] = HandleProposal(f[i - 1], order[i])
           bad == {m \in 0..n : ~ \E f : Fold(f, m)}
<1>1. bad = {}
  <2> SUFFICES ASSUME bad # {} PROVE FALSE
    OBVIOUS
  <2>1. PICK m \in bad : \A y \in bad : m <= y
    <3>1. bad \in SUBSET (0..n)
      OBVIOUS
    <3> HIDE DEF bad
    <3> QED BY <3>1, LeastExists
  <2>2. m \in 0..n /\ ~ \E f : Fold(f, m)
    BY <2>1
  <2>3. CASE m = 0
    <3> DEFINE g == [i \in 0..m |-> start]
    <3>1. g = [i \in 0..m |-> g[i]] /\ g[0] = start /\ 1..m = {}
      BY <2>3
    <3>2. Fold(g, m)
      BY <3>1
    <3> QED BY <2>2, <3>2
  <2>4. CASE m # 0
    <3>1. m - 1 \in 0..n /\ m - 1 \notin bad
      BY <2>1, <2>2, <2>4
    <3>2. PICK f : Fold(f, m - 1)
      BY <3>1
    <3> DEFINE g == [i \in 0..m |-> IF i = m THEN HandleProposal(f[m - 1], order[m]) ELSE f[i]]
    <3>3. g = [i \in 0..m |-> g[i]]
      OBVIOUS
    <3>4. g[0] = start
      BY <2>2, <2>4, <3>2
    <3>5. ASSUME NEW i \in 1..m PROVE g[i] = HandleProposal(g[i - 1], order[i])
      <4>1. i \in 0..m /\ i - 1 \in 0..m /\ i - 1 # m
        BY <2>2
      <4>2. g[i - 1] = f[i - 1]
        BY <4>1
      <4>3. CASE i = m
        BY <4>1, <4>2, <4>3
      <4>4. CASE i # m
        <5>1. i \in 1..(m - 1)
          BY <2>2, <4>4
        <5>2. f[i] = HandleProposal(f[i - 1], order[i])
          BY <3>2, <5>1
        <5>3. g[i] = f[i]
          BY <4>1, <4>4
        <5> QED BY <4>2, <5>2, <5>3
      <4> QED BY <4>3, <4>4
    <3> HIDE DEF g
    <3>6. Fold(g, m)
      BY <3>3, <3>4, <3>5
    <3> QED BY <2>2, <3>6
  <2> QED BY <2>3, <2>4
<1>2. PICK f : Fold(f, n)
  BY <1>1
<1>3. ASSUME NEW i \in 0..n
      PROVE  f[i] = IF i = 0 THEN start ELSE HandleProposal(f[i - 1], order[i])
  <2>1. i # 0 => i \in 1..n
    OBVIOUS
  <2> QED BY <1>2, <2>1
<1>4. f = [i \in 0..n |-> IF i = 0 THEN start ELSE HandleProposal(f[i - 1], order[i])]
  BY <1>2, <1>3
<1> QED BY <1>4 DEF HandledUpTo

(* A backup that handles the next n blocks in order votes for all of them.         *)
LEMMA HandledRun ==
  ASSUME TypeInv, Linear(blocks), NEW r, BackupCore(core[r]), core[r].votes = {},
         NEW order, NEW n \in Nat, Len(order) = n, Top(r) + n <= Len(blocks),
         \A i \in 1..n : order[i] = Top(r) + i
  PROVE  /\ BackupCore(Handled(r, order))
         /\ Handled(r, order).voteHeight = Top(r) + n
         /\ Handled(r, order).votes = (Top(r) + 1)..(Top(r) + n)
<1> DEFINE after == CHOOSE f : HandledUpTo(f, core[r], order, n)
           k == Top(r)
           Good(i) == /\ BackupCore(after[i]) /\ after[i].voteHeight = k + i
                      /\ after[i].votes = (k + 1)..(k + i)
<1>1. HandledUpTo(after, core[r], order, n)
  BY HandledExists
<1>2. Handled(r, order) = after[n]
  BY DEF Handled, HandledUpTo
<1> HIDE DEF after
<1>3. after[0] = core[r] /\ \A i \in 1..n : after[i] = HandleProposal(after[i - 1], order[i])
  <2>1. \A i \in 0..n : after[i] = IF i = 0 THEN core[r] ELSE HandleProposal(after[i - 1], order[i])
    BY <1>1 DEF HandledUpTo
  <2>2. 0 \in 0..n /\ \A i \in 1..n : i \in 0..n /\ i # 0
    OBVIOUS
  <2> QED BY <2>1, <2>2
<1>4. k \in Nat /\ Len(blocks) \in Nat /\ k = core[r].voteHeight
  BY DEF BackupCore, Chain, Core, TypeInv, Top
<1>5. Good(0)
  <2>1. (k + 1)..(k + 0) = {} /\ k + 0 = k
    BY <1>4
  <2> QED BY <1>3, <1>4, <2>1
<1>6. ASSUME NEW i \in 1..n, Good(i - 1) PROVE Good(i)
  <2> DEFINE s == after[i - 1]
  <2>1. BackupCore(s) /\ s.voteHeight = k + (i - 1) /\ s.votes = (k + 1)..(k + (i - 1))
    BY <1>6
  <2> HIDE DEF s
  <2>2. s.voteHeight + 1 = k + i /\ k + i <= Len(blocks) /\ order[i] = k + i
    BY <1>4, <2>1
  <2>3. after[i] = HandleProposal(s, s.voteHeight + 1)
    BY <1>3, <2>2 DEF s
  <2>4. /\ BackupCore(after[i]) /\ after[i].voteHeight = s.voteHeight + 1
        /\ after[i].votes = s.votes \cup {s.voteHeight + 1}
    BY <2>1, <2>2, <2>3, HandleNext
  <2>5. (k + 1)..(k + (i - 1)) \cup {k + i} = (k + 1)..(k + i)
    <3> HIDE DEF k
    <3>1. k \in Nat /\ i \in Nat
      BY <1>4
    <3> QED BY <3>1
  <2> QED BY <2>1, <2>2, <2>4, <2>5
<1>7. Good(n)
  <2> DEFINE bad == {i \in 0..n : ~Good(i)}
  <2> HIDE DEF Good
  <2> SUFFICES ASSUME bad # {} PROVE FALSE
    OBVIOUS
  <2>1. PICK i \in bad : \A y \in bad : i <= y
    <3>1. bad \in SUBSET (0..n)
      OBVIOUS
    <3> HIDE DEF bad
    <3> QED BY <3>1, LeastExists
  <2>2. i \in 1..n /\ i - 1 \in 0..n
    BY <1>5, <2>1
  <2>3. Good(i - 1)
    BY <2>1, <2>2
  <2> QED BY <1>6, <2>1, <2>2, <2>3
<1> QED BY <1>2, <1>7

(* What the next block of a backup unblocks: all that waits without a gap.         *)
LEMMA UnblockedRun ==
  ASSUME TypeInv, Linear(blocks), BackupsOK, NEW r \in Backup, NEW b, b = Top(r) + 1,
         b <= Len(blocks)
  PROVE  \E n \in Nat :
           /\ n >= 1 /\ Top(r) + n <= Len(blocks)
           /\ Len(Unblocked(r, b)) = n
           /\ \A i \in 1..n : Unblocked(r, b)[i] = Top(r) + i
           /\ \A w \in b..(Top(r) + n) : w = b \/ w \in waiting[r]
           /\ Top(r) + n + 1 \notin waiting[r]
<1> DEFINE k == Top(r)
           L == Len(blocks)
           ready == {w \in waiting[r] : b \in Branch(blocks, w)
                       /\ Branch(blocks, w) \ core[r].nodes \subseteq waiting[r] \cup {b}}
           U == {b} \cup ready
           m == Max(U)
<1>1. /\ k \in Nat /\ L \in Nat /\ core[r].nodes = 0..k
      /\ \A w \in waiting[r] : w \in Nat /\ w >= k + 2 /\ w <= L
  <2>1. k \in Nat /\ core[r].nodes = 0..k
    BY DEF BackupsOK, BackupCore, Chain, Core, Top
  <2>2. waiting[r] \in SUBSET Nat
    BY ReplicaFacts DEF TypeInv
  <2> QED BY <2>1, <2>2 DEF BackupsOK, TypeInv
<1> HIDE DEF k, L
<1>2. \A w \in waiting[r] : Branch(blocks, w) = 0..w
  BY <1>1, LinearBranch DEF TypeInv, L
<1>3. b = k + 1 /\ b \in 0..L
  BY <1>1 DEF k, L
<1>4. \A w \in waiting[r] : w \in ready <=> \A x \in b..w : x = b \/ x \in waiting[r]
  <2> TAKE w \in waiting[r]
  <2>1. b \in 0..w
    BY <1>1, <1>3
  <2>2. (0..w) \ (0..k) = b..w
    BY <1>1, <1>3
  <2>3. w \in ready <=> b \in 0..w /\ (0..w) \ (0..k) \subseteq waiting[r] \cup {b}
    BY <1>1, <1>2
  <2> QED BY <2>1, <2>2, <2>3
<1> HIDE DEF ready
<1>5. U \in SUBSET (0..L) /\ U # {} /\ ready \subseteq waiting[r]
  BY <1>1, <1>3 DEF ready
<1>6. m \in U /\ \A y \in U : y <= m
  <2> HIDE DEF U
  <2> QED BY <1>1, <1>5, MaxExists
<1>7. m \in Nat /\ b <= m /\ m <= L
  BY <1>1, <1>3, <1>5, <1>6
<1> HIDE DEF m
<1>8. \A w \in b..m : w = b \/ w \in waiting[r]
  <2>1. CASE m = b
    BY <1>1, <1>3, <2>1
  <2>2. CASE m # b
    <3>1. m \in ready /\ m \in waiting[r]
      BY <1>5, <1>6, <2>2
    <3> QED BY <1>4, <3>1
  <2> QED BY <2>1, <2>2
<1>9. U = b..m
  <2>1. ASSUME NEW w \in b..m PROVE w \in U
    <3>1. CASE w = b
      BY <3>1
    <3>2. CASE w # b
      <4>1. w \in waiting[r] /\ \A x \in b..w : x \in b..m
        BY <1>3, <1>7, <1>8, <3>2
      <4>2. w \in ready
        BY <1>4, <1>8, <4>1
      <4> QED BY <4>2
    <3> QED BY <3>1, <3>2
  <2>2. ASSUME NEW w \in U PROVE w \in b..m
    <3>1. w \in Nat /\ w <= m
      BY <1>5, <1>6
    <3>2. w >= b
      BY <1>1, <1>3, <1>5
    <3> QED BY <1>3, <1>7, <3>1, <3>2
  <2> QED BY <2>1, <2>2
<1>10. m + 1 \notin waiting[r]
  <2> SUFFICES ASSUME m + 1 \in waiting[r] PROVE FALSE
    OBVIOUS
  <2>1. \A x \in b..(m + 1) : x = b \/ x \in waiting[r]
    <3>1. \A x \in b..(m + 1) : x = m + 1 \/ x \in b..m
      BY <1>3, <1>7
    <3> QED BY <1>8, <3>1
  <2>2. m + 1 \in U
    BY <1>4, <2>1
  <2>3. m + 1 <= m
    BY <1>6, <2>2
  <2> QED BY <1>7, <2>3
<1> DEFINE n == m - k
<1>11. n \in Nat /\ n >= 1 /\ k + n = m /\ k + n <= L
  BY <1>1, <1>3, <1>7
<1>12. Unblocked(r, b) = [i \in 1..n |-> k + i]
  <2>1. Unblocked(r, b) = Ascending(U)
    BY DEF Unblocked, ready
  <2> HIDE DEF U
  <2>2. Ascending(b..m) = [i \in 1..(m - b + 1) |-> b + i - 1]
    <3>1. b \in Nat /\ m \in Nat /\ b <= m + 1
      BY <1>1, <1>3, <1>7
    <3> QED BY <3>1, AscendingInterval, Zenon
  <2>3. m - b + 1 = n /\ \A i \in 1..n : b + i - 1 = k + i
    BY <1>1, <1>3, <1>7
  <2> HIDE DEF n
  <2> QED BY <1>9, <2>1, <2>2, <2>3
<1> HIDE DEF n
<1>13. Len(Unblocked(r, b)) = n /\ \A i \in 1..n : Unblocked(r, b)[i] = k + i
  BY <1>11, <1>12
<1> QED BY <1>8, <1>10, <1>11, <1>13 DEF k, L

-----------------------------------------------------------------------------
LEMMA Messages ==
  ASSUME NEW b, NEW r, NEW c, NEW q, NEW ns
  PROVE  /\ Generic(b, r) = Generic(c, q) => b = c /\ r = q
         /\ VoteGeneric(b, r) = VoteGeneric(c, q) => b = c /\ r = q
         /\ Generic(b, r) # VoteGeneric(c, q) /\ Generic(b, r) # Supply(q, ns)
         /\ VoteGeneric(b, r) # Supply(q, ns)
         /\ Generic(b, r).type # "Supply" /\ VoteGeneric(b, r).type # "Supply"
BY DEF Generic, VoteGeneric, Supply

LEMMA InitInv == Init => HotStuffInv
<1> SUFFICES ASSUME Init PROVE HotStuffInv
  OBVIOUS
<1> USE ReplicaFacts DEF Init
<1>1. SupplySize \in Nat /\ 1..SupplySize \in SUBSET Nat
  BY SupplyAssumption
<1>2. InitCore \in Core /\ Chain(InitCore)
  <2>1. 0..0 = {0} /\ 0 \in 0..MaxSeq /\ 1..0 = {}
    BY BoundAssumption
  <2>2. [i \in 1..0 |-> i] = <<>>
    BY <2>1
  <2> QED BY <2>1, <2>2 DEF InitCore, Core, Chain, Back, Pool
<1>3. TypeInv
  <2>1. network \subseteq Message
    BY <1>1 DEF Message, Supply
  <2>2. core \in [Correct -> Core]
    BY <1>2
  <2>3. stock \in [Replica -> SUBSET Nat] /\ nonces \in [Correct -> SUBSET Nat]
    BY <1>1
  <2>4. made \in [Correct -> Nat]
    BY <1>1
  <2>5. waiting \in [Correct -> SUBSET Nat] /\ signing \in [Correct -> SUBSET Nat]
    OBVIOUS
  <2>6. blocks \in Seq(BlockType) /\ extra \in Int /\ failed \in BOOLEAN /\ fallback \in BOOLEAN
        /\ scratches \in SUBSET Nat /\ partials \in SUBSET (Nat \X Correct)
    <3>1. /\ blocks = <<>> /\ extra = 0 /\ scratches = {} /\ partials = {}
          /\ failed = FALSE /\ fallback = FALSE
      OBVIOUS
    <3> HIDE DEF Init
    <3>2. blocks \in Seq(BlockType)
      BY <3>1
    <3>3. extra \in Int /\ scratches \in SUBSET Nat /\ partials \in SUBSET (Nat \X Correct)
      BY <3>1
    <3>4. failed \in BOOLEAN /\ fallback \in BOOLEAN
      BY <3>1
    <3> QED BY <3>2, <3>3, <3>4
  <2> HIDE DEF Init
  <2> QED BY <2>1, <2>2, <2>3, <2>4, <2>5, <2>6 DEF TypeInv
<1>4. Len(blocks) = 0 /\ blocks = <<>> /\ 1..Len(blocks) = {}
  OBVIOUS
<1>5. \A r \in Correct : core[r] = InitCore
  OBVIOUS
<1>6. InitCore.voteHeight = 0 /\ InitCore.leaf = 0 /\ InitCore.qcHigh = 0 /\ InitCore.votes = {}
  BY DEF InitCore
<1>7. Linear(blocks)
  BY <1>4 DEF Linear
<1>8. LeaderOK(core[Leader], scratches)
  BY <1>2, <1>4, <1>5, <1>6 DEF LeaderOK, Back
<1>9. BackupsOK
  BY <1>2, <1>4, <1>5, <1>6 DEF BackupsOK, BackupCore, Back, Top
<1>10. GenericOK(network) /\ VotesOK(network, scratches, partials)
  <2>1. \A m \in network : m.type = "Supply"
    BY DEF Supply
  <2>2. \A r, b : Generic(b, r) \notin network /\ VoteGeneric(b, r) \notin network
    BY <2>1 DEF Generic, VoteGeneric
  <2>3. partials = {}
    OBVIOUS
  <2> HIDE DEF Init
  <2> QED BY <1>4, <2>2, <2>3 DEF GenericOK, VotesOK
<1>11. NoncesOK(network)
  <2>1. \A r \in Silent : stock[r] = {}
    <3>1. \A r \in Silent : r \in Replica /\ r # Leader
      BY SilentAssumption
    <3> QED BY <3>1
  <2>2. \A r \in Correct : /\ nonces[r] \subseteq 1..made[r] /\ stock[r] \subseteq nonces[r]
    OBVIOUS
  <2>3. ASSUME NEW m \in network
        PROVE  /\ m.nonces \subseteq nonces[m.from] /\ m.nonces \cap stock[m.from] = {}
               /\ \A n \in network : n.from = m.from => n = m
    <3>1. PICK r \in Backup : m = Supply(r, 1..SupplySize)
      OBVIOUS
    <3>2. m.from = r /\ m.nonces = 1..SupplySize
      BY <3>1 DEF Supply
    <3>3. stock[r] = {} /\ nonces[r] = 1..SupplySize
      BY <3>1
    <3>4. \A n \in network : n.from = r => n = m
      BY <3>1 DEF Supply
    <3> QED BY <3>2, <3>3, <3>4
  <2> HIDE DEF Init
  <2> QED BY <1>4, <2>1, <2>2, <2>3 DEF NoncesOK
<1> QED BY <1>3, <1>7, <1>8, <1>9, <1>10, <1>11 DEF HotStuffInv

-----------------------------------------------------------------------------
(* Nonces.                                                                     *)
LEMMA RefillFacts ==
  ASSUME TypeInv, NEW r \in Correct, nonces[r] \subseteq 1..made[r], NEW used
  PROVE  /\ MadeAfter(r, used) \in Nat /\ MadeAfter(r, used) >= made[r]
         /\ NoncesAfter(r, used) \subseteq 1..MadeAfter(r, used)
         /\ nonces[r] \ used \subseteq NoncesAfter(r, used)
         /\ \A x \in NewSupply(r) : x \in Nat /\ x > made[r]
         /\ Refills(r, used) => NewSupply(r) \subseteq NoncesAfter(r, used)
<1>1. made[r] \in Nat /\ SupplySize \in Nat
  BY SupplyAssumption DEF TypeInv
<1>2. CASE Refills(r, used)
  BY <1>1, <1>2 DEF MadeAfter, NoncesAfter, NewSupply
<1>3. CASE ~Refills(r, used)
  BY <1>1, <1>3 DEF MadeAfter, NoncesAfter, NewSupply
<1> QED BY <1>2, <1>3

(* The leader reserves nonces that are in stock, for a quorum of signers.           *)
LEMMA NominatedFacts ==
  ASSUME TypeInv, NoncesOK(network)
  PROVE  /\ Nominated \subseteq Correct /\ IsFiniteSet(Nominated)
         /\ \A r \in Nominated : Max(stock[r]) \in stock[r]
<1>1. Nominated \subseteq Correct
  BY DEF Nominated, NoncesOK, Correct
<1>2. ASSUME NEW r \in Nominated PROVE Max(stock[r]) \in stock[r]
  <2>1. r \in Correct /\ stock[r] # {}
    BY <1>1 DEF Nominated
  <2>2. stock[r] \in SUBSET (0..made[r]) /\ made[r] \in Nat
    BY <2>1 DEF NoncesOK, TypeInv
  <2> QED BY <2>1, <2>2, MaxExists
<1>3. IsFiniteSet(Nominated)
  BY <1>1, ReplicaFacts, FS_Subset
<1> QED BY <1>1, <1>2, <1>3

-----------------------------------------------------------------------------
(* The leader beats with core s when the network is in and the scratches are scr   *)
(* and par.                                                                     *)
LeaderReady(s, in, scr, par) ==
  /\ TypeInv /\ Linear(blocks) /\ BackupsOK /\ GenericOK(network) /\ NoncesOK(network) /\ ~failed
  /\ in \subseteq network /\ scr \in SUBSET Nat /\ par \in SUBSET (Nat \X Correct)
  /\ LeaderOK(s, scr) /\ VotesOK(in, scr, par)

(* Fewer messages are no harm.                                                  *)
LEMMA FewerMessages ==
  ASSUME NEW in, in \subseteq network
  PROVE  /\ GenericOK(network) => GenericOK(in)
         /\ NoncesOK(network) => NoncesOK(in)
<1>1. GenericOK(network) => GenericOK(in)
  BY DEF GenericOK
<1>2. NoncesOK(network) => NoncesOK(in)
  BY DEF NoncesOK
<1> QED BY <1>1, <1>2

LEMMA LeaderQuiet ==
  ASSUME NEW s, NEW in, NEW scr, NEW par, LeaderReady(s, in, scr, par),
         core' = [core EXCEPT ![Leader] = s], network' = in, scratches' = scr, partials' = par,
         extra' \in Int, fallback' \in BOOLEAN,
         UNCHANGED <<blocks, waiting, signing, nonces, made, stock, failed>>
  PROVE  HotStuffInv'
<1>1. TypeInv /\ s \in Core /\ in \subseteq network
  BY DEF LeaderReady, LeaderOK, Chain
<1>2. core'[Leader] = s /\ \A r \in Backup : core'[r] = core[r]
  BY <1>1, ReplicaFacts DEF TypeInv
<1>3. TypeInv'
  BY <1>1 DEF TypeInv, LeaderReady
<1>4. BackupsOK'
  BY <1>2 DEF BackupsOK, Top, LeaderReady
<1>5. GenericOK(network)'
  BY <1>1, <1>2, FewerMessages DEF GenericOK, Top, LeaderReady
<1>6. VotesOK(network, scratches, partials)'
  <2>1. \A p \in partials' : p[2] # Leader => p[2] \in Backup
    BY ReplicaFacts DEF LeaderReady
  <2> QED BY <1>2, <2>1 DEF VotesOK, Top, LeaderReady
<1>7. NoncesOK(network)'
  <2>1. NoncesOK(in)
    BY <1>1, FewerMessages DEF LeaderReady
  <2>2. \A r \in Correct : r # Leader => r \in Backup
    BY ReplicaFacts
  <2> QED BY <1>2, <2>1, <2>2 DEF NoncesOK, Reserves, Top
<1>8. LeaderOK(core[Leader], scratches)'
  BY <1>2 DEF LeaderOK, LeaderReady
<1> QED BY <1>3, <1>4, <1>5, <1>6, <1>7, <1>8 DEF HotStuffInv, Linear, LeaderReady

(* The leader enters the block that it has made.                                *)
LEMMA ProposedNext ==
  ASSUME NEW bs \in Seq(BlockType), Linear(bs), NEW s, Chain(s), s.voteHeight + 1 = Len(bs),
         s.qcHigh = s.voteHeight, NEW b, b = Len(bs), NEW t, t = Proposed(bs, s, b)
  PROVE  /\ Chain(t) /\ t.voteHeight = b /\ t.leaf = b /\ t.qcHigh = Back(b, 1)
         /\ t.votes = s.votes
         /\ b \notin s.nodes /\ ShouldVote(bs, s, b)
<1> DEFINE k == s.voteHeight
           e == [s EXCEPT !.nodes = @ \cup {b}, !.voteHeight = Height(bs, b), !.leaf = b]
<1>1. s \in Core /\ k \in Nat /\ s.nodes = 0..k /\ b = k + 1 /\ Len(bs) \in Nat /\ b \in Nat
  BY DEF Chain, Core
<1>2. Height(bs, b) = b /\ Branch(bs, b) = 0..b
  <2>1. b \in 0..Len(bs)
    BY <1>1
  <2> QED BY <2>1, ChainLinks, LinearBranch
<1>3. /\ e \in Core /\ e.nodes = 0..(k + 1) /\ e.voteHeight = k + 1 /\ e.leaf = k + 1
      /\ e.votes = s.votes /\ e.qcHigh = k
      /\ e.lock = s.lock /\ e.executed = s.executed /\ e.finalized = s.finalized
  <2>1. s.nodes \cup {b} = 0..(k + 1) /\ 0..(k + 1) \in SUBSET Nat
    <3> HIDE DEF k
    <3> QED BY <1>1
  <2>2. e = [s EXCEPT !.nodes = 0..(k + 1), !.voteHeight = b, !.leaf = b]
    BY <1>2, <2>1
  <2> HIDE DEF e
  <2>3. k + 1 = b
    BY <1>1
  <2> QED BY <1>1, <2>1, <2>2, <2>3 DEF Core
<1>4. t = Update(bs, e, k + 1)
  BY <1>1 DEF Proposed
<1> HIDE DEF e
<1>5. e.lock = Back(k, 2) /\ e.executed = Back(k, 3) /\ e.finalized = [i \in 1..Back(k, 3) |-> i]
      /\ e.qcHigh \in 0..Len(bs)
  BY <1>1, <1>3 DEF Chain
<1>6. /\ Chain(t) /\ t.voteHeight = k + 1 /\ t.votes = e.votes
      /\ t.qcHigh = (IF k > e.qcHigh THEN k ELSE e.qcHigh)
      /\ t.leaf = (IF k > e.qcHigh THEN k ELSE e.leaf)
  <2>1. k \in Nat /\ k + 1 <= Len(bs)
    BY <1>1
  <2> HIDE DEF k
  <2> QED BY <1>3, <1>4, <1>5, <2>1, UpdateNext
<1>7. t.qcHigh = k /\ t.leaf = k + 1 /\ Back(b, 1) = k
  BY <1>1, <1>3, <1>6 DEF Back
<1>8. ShouldVote(bs, s, b)
  <2>1. s.lock \in 0..b
    BY <1>1 DEF Chain, Back
  <2> QED BY <1>1, <1>2, <2>1 DEF ShouldVote
<1>9. b \notin s.nodes
  BY <1>1
<1> QED BY <1>1, <1>3, <1>6, <1>7, <1>8, <1>9

LEMMA LeaderProposes ==
  ASSUME NEW s, NEW in, NEW scr, NEW par, LeaderReady(s, in, scr, par), s.qcHigh = s.leaf,
         NEW batch \in SUBSET Command, Propose(s, batch, in, scr, par),
         UNCHANGED <<waiting, signing>>
  PROVE  HotStuffInv'
<1> DEFINE reserved == [r \in Nominated |-> Max(stock[r])]
           block == [parent |-> s.leaf, justify |-> s.qcHigh,
                     height |-> Height(blocks, s.leaf) + 1, commands |-> batch,
                     reserved |-> reserved]
           b == Len(blocks) + 1
           bs == Append(blocks, block)
           used == {reserved[r] : r \in Nominated \cap {Leader}}
<1>1. /\ TypeInv /\ Linear(blocks) /\ BackupsOK /\ GenericOK(network) /\ NoncesOK(network)
      /\ ~failed /\ in \subseteq network /\ LeaderOK(s, scr) /\ VotesOK(in, scr, par)
      /\ blocks \in Seq(BlockType) /\ Len(blocks) \in Nat
  BY DEF LeaderReady, TypeInv
<1>2. extra' = ExtraAfter(batch) /\ extra' \in Int
  BY <1>1 DEF Propose, ExtraAfter, TypeInv
<1>3. CASE Cardinality(Nominated) < QuorumSize
  <2>1. /\ core' = [core EXCEPT ![Leader] = s] /\ network' = in /\ scratches' = scr
        /\ partials' = par /\ fallback' \in BOOLEAN
        /\ UNCHANGED <<blocks, waiting, signing, nonces, made, stock, failed>>
    BY <1>3 DEF Propose
  <2> QED BY <1>2, <2>1, LeaderQuiet
<1>4. CASE ~(Cardinality(Nominated) < QuorumSize)
  <2>1. /\ blocks' = bs
        /\ core' = [core EXCEPT ![Leader] = Proposed(bs, s, b)]
        /\ network' = in \cup {Generic(b, r) : r \in Backup}
        /\ scratches' = scr \cup {b}
        /\ partials' = par \cup {<<b, r>> : r \in Nominated \cap {Leader}}
        /\ nonces' = [nonces EXCEPT ![Leader] = NoncesAfter(Leader, used)]
        /\ made' = [made EXCEPT ![Leader] = MadeAfter(Leader, used)]
        /\ stock' = IF Refills(Leader, used)
                    THEN [StockAfter(reserved) EXCEPT ![Leader] = NewSupply(Leader)]
                    ELSE StockAfter(reserved)
        /\ failed' = (failed \/ b \in s.nodes \/ ~ShouldVote(bs, s, b)
                             \/ ~(used \subseteq nonces[Leader]))
        /\ UNCHANGED fallback
    BY <1>4 DEF Propose
  (* Reserved nonces.                                                           *)
  <2>2. /\ Nominated \subseteq Correct /\ Cardinality(Nominated) >= QuorumSize
        /\ \A r \in Nominated : reserved[r] \in stock[r]
        /\ reserved \in [Nominated -> Nat] /\ DOMAIN reserved = Nominated
    <3>1. Nominated \subseteq Correct /\ IsFiniteSet(Nominated)
          /\ \A r \in Nominated : reserved[r] \in stock[r]
      BY <1>1, NominatedFacts
    <3>2. Cardinality(Nominated) \in Nat
      BY <3>1, FS_CardinalityType
    <3>3. \A r \in Nominated : reserved[r] \in Nat
      BY <1>1, <3>1, ReplicaFacts DEF TypeInv
    <3> HIDE DEF reserved
    <3>4. reserved = [r \in Nominated |-> reserved[r]]
      BY DEF reserved
    <3> QED BY <1>4, <3>1, <3>2, <3>3, <3>4, ReplicaFacts
  (* The leader has certified its last block.                                   *)
  <2>3. /\ s.leaf = Len(blocks) /\ s.qcHigh = Len(blocks) /\ scr = {} /\ par = {}
        /\ \A r, c : VoteGeneric(c, r) \in in => ~(r \in Backup /\ c \in Nat)
        /\ \A r \in Backup : \A c \in 1..Len(blocks) :
             r \in DOMAIN blocks[c].reserved => c <= Top(r)
    <3>1. s.leaf = Len(blocks) /\ s.qcHigh = Len(blocks) /\ scr = {}
      BY <1>1 DEF LeaderOK
    <3>2. par = {}
      BY <1>1, <3>1 DEF VotesOK
    <3>3. \A r \in Backup : \A c \in 1..Len(blocks) :
             r \in DOMAIN blocks[c].reserved => c <= Top(r)
      <4>1. \A r \in Backup : Top(r) \in Nat
        BY <1>1 DEF BackupsOK, BackupCore, Chain, Core, Top
      <4> QED BY <1>1, <3>1, <4>1 DEF VotesOK
    <3> QED BY <1>1, <3>1, <3>2, <3>3 DEF VotesOK
  (* The chain with the new block.                                              *)
  <2>4. block \in BlockType /\ block.parent = Len(blocks) /\ block.justify = Len(blocks)
        /\ block.height = b /\ block.reserved = reserved
    <3>1. Height(blocks, Len(blocks)) = Len(blocks)
      BY <1>1, ChainLinks
    <3>2. reserved \in UNION {[D -> Nat] : D \in SUBSET Correct}
      <4> HIDE DEF reserved
      <4> QED BY <2>2
    <3> HIDE DEF reserved
    <3> QED BY <1>1, <2>3, <3>1, <3>2 DEF BlockType
  <2> HIDE DEF block
  <2>5. /\ bs \in Seq(BlockType) /\ Len(bs) = b /\ bs[b] = block
        /\ \A i \in 1..Len(blocks) : bs[i] = blocks[i]
    BY <1>1, <2>4
  <2> HIDE DEF bs, used, b, reserved
  <2>6. b = Len(blocks) + 1 /\ b \in Nat
    BY <1>1 DEF b
  <2>7. Linear(bs)
    <3> SUFFICES ASSUME NEW i \in 1..Len(bs)
                 PROVE  /\ bs[i].parent = i - 1 /\ bs[i].justify = i - 1 /\ bs[i].height = i
                        /\ Cardinality(DOMAIN bs[i].reserved) >= QuorumSize
      BY DEF Linear
    <3>1. CASE i = b
      BY <1>1, <2>2, <2>4, <2>5, <2>6, <3>1
    <3>2. CASE i # b
      <4>1. i \in 1..Len(blocks) /\ bs[i] = blocks[i]
        BY <1>1, <2>5, <2>6, <3>2
      <4> QED BY <1>1, <4>1 DEF Linear
    <3> QED BY <3>1, <3>2
  <2>8. /\ Chain(core'[Leader]) /\ core'[Leader].voteHeight = b /\ core'[Leader].leaf = b
        /\ core'[Leader].qcHigh = Len(blocks) /\ core'[Leader].votes = {}
        /\ b \notin s.nodes /\ ShouldVote(bs, s, b)
        /\ \A r \in Backup : core'[r] = core[r]
    <3> DEFINE t == Proposed(bs, s, b)
    <3>1. core'[Leader] = t /\ \A r \in Backup : core'[r] = core[r]
      BY <1>1, <2>1, ReplicaFacts DEF TypeInv
    <3>2. Chain(s) /\ s.voteHeight + 1 = Len(bs) /\ s.qcHigh = s.voteHeight /\ s.votes = {}
      BY <1>1, <2>3, <2>5, <2>6 DEF LeaderOK
    <3>3. /\ Chain(t) /\ t.voteHeight = b /\ t.leaf = b /\ t.qcHigh = Back(b, 1)
          /\ t.votes = s.votes /\ b \notin s.nodes /\ ShouldVote(bs, s, b)
      <4> HIDE DEF t
      <4>1. t = Proposed(bs, s, b)
        BY DEF t
      <4> QED BY <2>5, <2>7, <3>2, <4>1, ProposedNext
    <3>4. Back(b, 1) = Len(blocks)
      BY <1>1, <2>6 DEF Back
    <3> HIDE DEF t
    <3> QED BY <3>1, <3>2, <3>3, <3>4
  <2>9. used \subseteq stock[Leader] /\ used \subseteq nonces[Leader]
    <3>1. \A x \in used : x \in stock[Leader]
      BY <2>2 DEF used
    <3> QED BY <1>1, <3>1, ReplicaFacts DEF NoncesOK
  <2>10. ~failed'
    BY <1>1, <2>1, <2>8, <2>9
  <2>11. TypeInv'
    <3>1. core' \in [Correct -> Core]
      <4>1. Proposed(bs, s, b) = core'[Leader]
        BY <1>1, <2>1, ReplicaFacts DEF TypeInv
      <4>2. Proposed(bs, s, b) \in Core
        BY <2>8, <4>1 DEF Chain
      <4> QED BY <1>1, <2>1, <4>2 DEF TypeInv
    <3>2. nonces' \in [Correct -> SUBSET Nat] /\ made' \in [Correct -> Nat]
      <4>1. NoncesAfter(Leader, used) \in SUBSET Nat /\ MadeAfter(Leader, used) \in Nat
        BY <1>1, RefillFacts, ReplicaFacts DEF NoncesOK
      <4> QED BY <1>1, <2>1, <4>1 DEF TypeInv
    <3>3. stock' \in [Replica -> SUBSET Nat]
      <4>1. StockAfter(reserved) \in [Replica -> SUBSET Nat]
        BY <1>1 DEF TypeInv, StockAfter
      <4>2. NewSupply(Leader) \in SUBSET Nat
        BY <1>1, RefillFacts, ReplicaFacts DEF NoncesOK
      <4> QED BY <2>1, <4>1, <4>2
    <3>4. network' \subseteq Message
      <4>1. \A r \in Backup : Generic(b, r) \in Message
        BY <2>6 DEF Message, Generic
      <4>2. in \subseteq Message
        BY <1>1 DEF TypeInv
      <4> QED BY <2>1, <4>1, <4>2
    <3>5. scratches' \in SUBSET Nat /\ partials' \in SUBSET (Nat \X Correct)
      BY <2>1, <2>3, <2>6, ReplicaFacts
    <3>6. failed' \in BOOLEAN /\ fallback' \in BOOLEAN
      BY <2>1, <2>10, <1>1 DEF TypeInv
    <3> QED BY <1>1, <1>2, <2>1, <2>5, <3>1, <3>2, <3>3, <3>4, <3>5, <3>6 DEF TypeInv
  <2>12. LeaderOK(core[Leader], scratches)'
    <3>1. Back(Len(bs), 1) = Len(blocks) /\ Len(blocks) # Len(bs)
      BY <1>1, <2>5, <2>6 DEF Back
    <3> QED BY <2>1, <2>3, <2>5, <2>8, <3>1 DEF LeaderOK
  <2>13. BackupsOK'
    <3>1. \A r \in Backup : core'[r] = core[r] /\ waiting'[r] = waiting[r] /\ signing'[r] = signing[r]
      BY <2>8
    <3>2. \A r \in Backup : Top(r) <= Len(blocks) => Top(r) <= Len(bs)
      <4>1. \A r \in Backup : Top(r) \in Nat
        BY <1>1 DEF BackupsOK, BackupCore, Chain, Core, Top
      <4> QED BY <1>1, <2>5, <2>6, <4>1
    <3>3. \A r \in Backup : \A c \in waiting[r] : c <= Len(blocks) => c <= Len(bs)
      <4>1. \A r \in Backup : \A c \in waiting[r] : c \in Nat
        BY <1>1, ReplicaFacts DEF TypeInv
      <4> QED BY <1>1, <2>5, <2>6, <4>1
    <3> QED BY <1>1, <2>1, <3>1, <3>2, <3>3 DEF BackupsOK, Top
  <2>14. GenericOK(network)'
    <3> SUFFICES ASSUME NEW r \in Backup, NEW c \in Nat, Generic(c, r) \in network'
                 PROVE  c > Top(r) /\ c <= Len(bs) /\ c \notin waiting[r]
      BY <2>1, <2>8 DEF GenericOK, Top
    <3>1. CASE Generic(c, r) \in in
      BY <1>1, <2>5, <2>6, <3>1 DEF GenericOK
    <3>2. CASE Generic(c, r) \notin in
      <4>1. c = b
        <5>1. PICK q \in Backup : Generic(c, r) = Generic(b, q)
          BY <2>1, <3>2
        <5> QED BY <5>1, Messages
      <4>2. Top(r) \in Nat /\ Top(r) <= Len(blocks) /\ \A w \in waiting[r] : w \in Nat /\ w <= Len(blocks)
        BY <1>1, ReplicaFacts DEF TypeInv, BackupsOK, BackupCore, Chain, Core, Top
      <4> QED BY <1>1, <2>5, <2>6, <4>1, <4>2
    <3> QED BY <3>1, <3>2
  <2>15. VotesOK(network, scratches, partials)'
    <3>1. \A p \in partials' : p[1] \in scratches' /\ p[2] \in DOMAIN bs[p[1]].reserved
                               /\ p[2] = Leader
      BY <2>1, <2>2, <2>3, <2>4, <2>5
    <3>2. \A r \in Backup : \A c \in Nat : VoteGeneric(c, r) \notin network'
      BY <2>1, <2>3, Messages
    <3>3. \A r \in Backup : \A c \in 1..Len(bs) :
            r \in DOMAIN bs[c].reserved /\ c > Top(r) => c \in scratches'
      <4> SUFFICES ASSUME NEW r \in Backup, NEW c \in 1..Len(bs), c # b,
                          r \in DOMAIN bs[c].reserved, c > Top(r)
                   PROVE  FALSE
        BY <2>1
      <4>1. c \in 1..Len(blocks) /\ bs[c] = blocks[c]
        BY <1>1, <2>5, <2>6
      <4>2. Top(r) \in Nat
        BY <1>1 DEF BackupsOK, BackupCore, Chain, Core, Top
      <4> QED BY <2>3, <4>1, <4>2
    <3> QED BY <2>1, <2>8, <3>1, <3>2, <3>3 DEF VotesOK, Top
  <2>16. NoncesOK(network)'
    <3>1. \A r \in Replica : StockAfter(reserved)[r] =
            IF r \in Nominated THEN stock[r] \ {reserved[r]} ELSE stock[r]
      BY <2>2 DEF StockAfter
    <3>2. ASSUME NEW r \in Backup
          PROVE  /\ nonces'[r] = nonces[r] /\ made'[r] = made[r]
                 /\ stock'[r] = StockAfter(reserved)[r]
      <4>1. r \in Correct /\ r \in Replica /\ r # Leader
        BY ReplicaFacts
      <4>2. StockAfter(reserved) = [q \in Replica |-> StockAfter(reserved)[q]]
        BY DEF StockAfter
      <4> QED BY <1>1, <2>1, <4>1, <4>2 DEF TypeInv
    <3>3. /\ nonces'[Leader] = NoncesAfter(Leader, used)
          /\ made'[Leader] = MadeAfter(Leader, used)
          /\ stock'[Leader] = IF Refills(Leader, used) THEN NewSupply(Leader)
                              ELSE StockAfter(reserved)[Leader]
      <4>1. StockAfter(reserved) = [q \in Replica |-> StockAfter(reserved)[q]]
        BY DEF StockAfter
      <4> QED BY <1>1, <2>1, <4>1, ReplicaFacts DEF TypeInv
    <3>4. ASSUME NEW r \in Correct
          PROVE  /\ nonces'[r] \subseteq 1..made'[r] /\ made[r] \in Nat /\ made'[r] \in Nat
                 /\ made'[r] >= made[r] /\ stock'[r] \subseteq nonces'[r]
                 /\ \A x \in stock'[r] :
                      (x \in stock[r] /\ (r \in Nominated => x # reserved[r])) \/ x > made[r]
      <4>1. /\ made[r] \in Nat /\ nonces[r] \subseteq 1..made[r] /\ stock[r] \subseteq nonces[r]
            /\ r \in Replica
        BY <1>1, ReplicaFacts DEF TypeInv, NoncesOK
      <4>2. CASE r # Leader
        <5>1. r \in Backup
          BY <4>2, ReplicaFacts
        <5>2. stock'[r] = IF r \in Nominated THEN stock[r] \ {reserved[r]} ELSE stock[r]
          BY <3>1, <3>2, <4>1, <5>1
        <5>3. nonces'[r] = nonces[r] /\ made'[r] = made[r]
          BY <3>2, <5>1
        <5>4. stock'[r] \subseteq nonces'[r]
          BY <4>1, <5>2, <5>3
        <5>5. \A x \in stock'[r] : x \in stock[r] /\ (r \in Nominated => x # reserved[r])
          BY <5>2
        <5> QED BY <4>1, <5>3, <5>4, <5>5
      <4>3. CASE r = Leader
        <5>1. /\ made'[r] \in Nat /\ made'[r] >= made[r]
              /\ nonces'[r] \subseteq 1..made'[r] /\ nonces[r] \ used \subseteq nonces'[r]
              /\ \A x \in NewSupply(r) : x \in Nat /\ x > made[r]
              /\ Refills(r, used) => NewSupply(r) \subseteq nonces'[r]
          BY <1>1, <3>3, <4>1, <4>3, RefillFacts
        <5>2. CASE Refills(r, used)
          BY <3>3, <4>1, <4>3, <5>1, <5>2
        <5>3. CASE ~Refills(r, used)
          <6>1. stock'[r] = IF r \in Nominated THEN stock[r] \ {reserved[r]} ELSE stock[r]
            BY <3>1, <3>3, <4>1, <4>3, <5>3
          <6>2. used = IF r \in Nominated THEN {reserved[r]} ELSE {}
            BY <4>3 DEF used
          <6> QED BY <4>1, <5>1, <6>1, <6>2
        <5> QED BY <5>2, <5>3
      <4> QED BY <4>2, <4>3
    <3>5. ASSUME NEW i \in 1..Len(bs), NEW r, r \in DOMAIN bs[i].reserved
          PROVE  \/ i # b /\ Reserves(i, r) /\ bs[i].reserved[r] = blocks[i].reserved[r]
                 \/ i = b /\ r \in Nominated /\ bs[i].reserved[r] = reserved[r]
      <4>1. CASE i = b
        BY <2>2, <2>4, <2>5, <3>5, <4>1
      <4>2. CASE i # b
        <5>1. i \in 1..Len(blocks) /\ bs[i] = blocks[i]
          BY <1>1, <2>5, <2>6, <4>2
        <5> QED BY <3>5, <4>2, <5>1 DEF Reserves
      <4> QED BY <4>1, <4>2
    <3>6. \A r \in Silent : stock'[r] = {}
      <4> TAKE r \in Silent
      <4>1. r \in Replica /\ r # Leader /\ r \notin Nominated /\ stock[r] = {}
        BY <1>1, <2>2, SilentAssumption DEF NoncesOK, Correct
      <4>2. StockAfter(reserved) = [q \in Replica |-> StockAfter(reserved)[q]]
        BY DEF StockAfter
      <4> QED BY <2>1, <3>1, <4>1, <4>2
    <3>7. ASSUME NEW r \in Correct, NEW i \in 1..Len(bs), r \in DOMAIN bs[i].reserved
          PROVE  /\ bs[i].reserved[r] \in 1..made'[r] \ stock'[r]
                 /\ r # Leader /\ i > Top(r)' => bs[i].reserved[r] \in nonces'[r]
      <4>1. /\ nonces[r] \subseteq 1..made[r] /\ stock[r] \subseteq nonces[r]
            /\ r # Leader => nonces'[r] = nonces[r] /\ Top(r)' = Top(r)
        BY <1>1, <2>8, <3>2, ReplicaFacts DEF NoncesOK, Top
      <4>2. CASE i # b
        <5>1. Reserves(i, r) /\ bs[i].reserved[r] = blocks[i].reserved[r] /\ i \in 1..Len(blocks)
          BY <3>5, <3>7, <4>2 DEF Reserves
        <5>2. /\ blocks[i].reserved[r] \in 1..made[r] \ stock[r]
              /\ r # Leader /\ i > Top(r) => blocks[i].reserved[r] \in nonces[r]
          BY <1>1, <5>1 DEF NoncesOK
        <5> QED BY <3>4, <4>1, <5>1, <5>2
      <4>3. CASE i = b
        <5>1. r \in Nominated /\ bs[i].reserved[r] = reserved[r] /\ reserved[r] \in stock[r]
          BY <2>2, <3>5, <3>7, <4>3
        <5>2. reserved[r] \in 1..made[r]
          BY <4>1, <5>1
        <5> QED BY <3>4, <4>1, <5>1, <5>2
      <4> QED BY <4>2, <4>3
    <3>8. ASSUME NEW r \in Correct, NEW i \in 1..Len(bs), NEW j \in 1..Len(bs), i # j,
                 r \in DOMAIN bs[i].reserved, r \in DOMAIN bs[j].reserved
          PROVE  bs[i].reserved[r] # bs[j].reserved[r]
      <4>1. \A c \in 1..Len(blocks) : Reserves(c, r) => blocks[c].reserved[r] \notin stock[r]
        BY <1>1 DEF NoncesOK
      <4>2. r \in Nominated => reserved[r] \in stock[r]
        BY <2>2
      <4>3. CASE i # b /\ j # b
        <5>1. /\ Reserves(i, r) /\ bs[i].reserved[r] = blocks[i].reserved[r]
              /\ Reserves(j, r) /\ bs[j].reserved[r] = blocks[j].reserved[r]
          BY <3>5, <3>8, <4>3
        <5> QED BY <1>1, <3>8, <5>1 DEF NoncesOK, Reserves
      <4>4. CASE i = b \/ j = b
        BY <3>5, <3>8, <4>1, <4>2, <4>4 DEF Reserves
      <4> QED BY <4>3, <4>4
    <3>9. ASSUME NEW m \in network', m.type = "Supply"
          PROVE  /\ m \in in /\ m.from \in Backup
      <4>1. m \in in
        BY <2>1, <3>9, Messages
      <4>2. m \in Message
        BY <1>1, <4>1 DEF TypeInv
      <4> QED BY <3>9, <4>1, <4>2 DEF Message
    <3>10. ASSUME NEW m \in network', m.type = "Supply"
           PROVE  /\ m.nonces \subseteq nonces'[m.from] /\ m.nonces \cap stock'[m.from] = {}
                  /\ \A i \in 1..Len(bs) : m.from \in DOMAIN bs[i].reserved =>
                       bs[i].reserved[m.from] \notin m.nonces
                  /\ \A n \in network' : n.type = "Supply" /\ n.from = m.from /\ n # m =>
                       n.nonces \cap m.nonces = {}
      <4>1. /\ m \in network /\ m.from \in Backup /\ m.from \in Replica
            /\ nonces'[m.from] = nonces[m.from] /\ stock'[m.from] \subseteq stock[m.from]
        <5>1. m \in network /\ m.from \in Backup /\ m.from \in Replica
          BY <1>1, <3>9, <3>10, ReplicaFacts
        <5>2. nonces'[m.from] = nonces[m.from] /\ stock'[m.from] = StockAfter(reserved)[m.from]
          BY <3>2, <5>1
        <5>3. stock'[m.from] \subseteq stock[m.from]
          BY <3>1, <5>1, <5>2
        <5> QED BY <5>1, <5>2, <5>3
      <4>2. /\ m.nonces \subseteq nonces[m.from] /\ m.nonces \cap stock[m.from] = {}
            /\ \A c \in 1..Len(blocks) : Reserves(c, m.from) =>
                 blocks[c].reserved[m.from] \notin m.nonces
            /\ \A n \in network : n.type = "Supply" /\ n.from = m.from /\ n # m =>
                 n.nonces \cap m.nonces = {}
        BY <1>1, <3>10, <4>1 DEF NoncesOK
      <4>3. \A i \in 1..Len(bs) : m.from \in DOMAIN bs[i].reserved =>
              bs[i].reserved[m.from] \notin m.nonces
        <5> SUFFICES ASSUME NEW i \in 1..Len(bs), m.from \in DOMAIN bs[i].reserved
                     PROVE  bs[i].reserved[m.from] \notin m.nonces
          OBVIOUS
        <5>1. CASE i # b
          BY <3>5, <4>2, <5>1 DEF Reserves
        <5>2. CASE i = b
          BY <2>2, <3>5, <4>2, <5>2
        <5> QED BY <5>1, <5>2
      <4>4. \A n \in network' : n.type = "Supply" => n \in network
        BY <1>1, <3>9
      <4> QED BY <4>1, <4>2, <4>3, <4>4
    <3> HIDE DEF bs
    <3>11. \A i, r : Reserves(i, r)' <=> i \in 1..Len(bs) /\ r \in DOMAIN bs[i].reserved
      BY <2>1 DEF Reserves
    <3> QED BY <2>1, <3>4, <3>6, <3>7, <3>8, <3>10, <3>11 DEF NoncesOK
  <2> QED BY <2>1, <2>7, <2>10, <2>11, <2>12, <2>13, <2>14, <2>15, <2>16 DEF HotStuffInv
<1> QED BY <1>3, <1>4

LEMMA SameLeader ==
  ASSUME NEW s, NEW t, NEW scr, SameChain(s, t), LeaderOK(s, scr)
  PROVE  LeaderOK(t, scr)
BY DEF SameChain, LeaderOK, Chain

LEMMA LeaderBeatInv ==
  ASSUME NEW s, NEW in, NEW scr, NEW par, LeaderReady(s, in, scr, par),
         LeaderBeat(s, in, scr, par), UNCHANGED <<waiting, signing>>
  PROVE  HotStuffInv'
<1> DEFINE beats == s.qcHigh = s.leaf /\ (PoolCommands(s.pending) # {} \/ extra > 0)
<1>1. CASE ~beats
  <2>1. /\ core' = [core EXCEPT ![Leader] = s]
        /\ network' = in /\ scratches' = scr /\ partials' = par
        /\ UNCHANGED <<blocks, extra, nonces, made, stock, failed, fallback>>
    BY <1>1 DEF LeaderBeat
  <2>2. extra' \in Int /\ fallback' \in BOOLEAN
    BY <2>1 DEF LeaderReady, TypeInv
  <2> QED BY <2>1, <2>2, LeaderQuiet
<1>2. CASE beats
  <2>1. PICK batch \in Batches(s) : Propose(Closed(s, batch), batch, in, scr, par)
    BY <1>2 DEF LeaderBeat
  <2>2. s \in Core
    BY DEF LeaderReady, LeaderOK, Chain
  <2>3. batch \subseteq Command
    <3>1. \A c \in Client : s.pending[c] \in 0..MaxSeq
      BY <2>2 DEF Core, Pool
    <3>2. PoolCommands(s.pending) \subseteq Command
      BY <3>1, BoundAssumption DEF PoolCommands, Command
    <3> QED BY <2>1, <3>2 DEF Batches
  <2> DEFINE t == Closed(s, batch)
  <2>4. SameChain(s, t)
    BY <2>2, ClosedSame
  <2> HIDE DEF t
  <2>5. LeaderReady(t, in, scr, par) /\ t.qcHigh = t.leaf
    BY <1>2, <2>4, SameLeader DEF LeaderReady, SameChain
  <2>6. Propose(t, batch, in, scr, par)
    BY <2>1 DEF t
  <2> QED BY <2>3, <2>5, <2>6, LeaderProposes
<1> QED BY <1>1, <1>2

LEMMA RequestLeaderInv ==
  ASSUME HotStuffInv, NEW command \in Command, RequestLeader(command)
  PROVE  HotStuffInv'
<1> DEFINE t == Pushed(core[Leader], command)
<1>1. core[Leader] \in Core
  BY DEF HotStuffInv, LeaderOK, Chain
<1>2. SameChain(core[Leader], t)
  BY <1>1, PushedSame
<1> HIDE DEF t
<1>3. LeaderReady(t, network, scratches, partials)
  BY <1>2, SameLeader DEF LeaderReady, HotStuffInv, TypeInv
<1>4. LeaderBeat(t, network, scratches, partials) /\ UNCHANGED <<waiting, signing>>
  BY DEF RequestLeader, t
<1> QED BY <1>3, <1>4, LeaderBeatInv

(* The vote of a nominated signer is only counted, or it is the last one and the leader *)
(* beats, ready for the next block.                                              *)
LEMMA VoteOutcome ==
  ASSUME HotStuffInv, NEW r \in Backup, NEW b \in DOMAIN blocks, ReceiveVote(b, r)
  PROVE  \/ /\ HotStuffInv' /\ UNCHANGED <<blocks, core, nonces, stock>>
            /\ network' = network \ {VoteGeneric(b, r)}
            /\ \E signers \in SUBSET DOMAIN blocks[b].reserved :
                 fallback' => AddPartial(b, signers) = "Err"
         \/ \E s : /\ LeaderReady(s, network \ {VoteGeneric(b, r)}, {}, {})
                   /\ LeaderBeat(s, network \ {VoteGeneric(b, r)}, {}, {})
                   /\ UNCHANGED <<waiting, signing>>
<1> DEFINE in == network \ {VoteGeneric(b, r)}
           par == partials \cup {<<b, r>>}
           signed == {p \in par : p[1] = b}
           signers == {p[2] : p \in signed}
           sig == AddPartial(b, signers) = "Sig"
           s == UpdateQuorumCertHigh(blocks, core[Leader], b)
           L == Len(blocks)
<1>1. /\ TypeInv /\ Linear(blocks) /\ BackupsOK /\ GenericOK(network) /\ NoncesOK(network)
      /\ ~failed /\ LeaderOK(core[Leader], scratches)
      /\ VotesOK(network, scratches, partials)
      /\ L \in Nat /\ b \in Nat /\ b \in 1..L /\ blocks \in Seq(BlockType)
  BY DEF HotStuffInv, TypeInv
<1>2. /\ VoteGeneric(b, r) \in network /\ b \in scratches /\ r \in DOMAIN blocks[b].reserved
      /\ b <= Top(r) /\ r \in Correct
  BY <1>1, ReplicaFacts DEF ReceiveVote, VotesOK
<1>3. scratches = {L} /\ b = L /\ core[Leader].qcHigh = Back(L, 1)
  BY <1>1, <1>2 DEF LeaderOK
<1>4. ASSUME NEW q \in Backup, NEW c \in Nat, VoteGeneric(c, q) \in in
      PROVE  /\ c \in scratches /\ q \in DOMAIN blocks[c].reserved
             /\ c <= Top(q) /\ <<c, q>> \notin par
  <2>1. VoteGeneric(c, q) \in network /\ <<c, q>> # <<b, r>>
    BY <1>4
  <2> QED BY <1>1, <2>1 DEF VotesOK
<1>5. ASSUME NEW p \in par
      PROVE  /\ p \in Nat \X Correct /\ p[1] \in scratches /\ p[2] \in DOMAIN blocks[p[1]].reserved
             /\ p[2] # Leader => p[1] <= Top(p[2])
  <2>1. CASE p \in partials
    BY <1>1, <2>1 DEF VotesOK, TypeInv
  <2>2. CASE p = <<b, r>>
    BY <1>1, <1>2, <2>2
  <2> QED BY <2>1, <2>2
<1>6. CASE ~sig
  <2>1. /\ partials' = par /\ network' = in /\ failed' = (failed \/ b \notin scratches)
        /\ fallback' = (b \in scratches /\ AddPartial(b, signers) = "Err")
        /\ UNCHANGED <<blocks, core, extra, nonces, made, stock, scratches, waiting, signing>>
    BY <1>2, <1>6 DEF ReceiveVote
  <2>2. LeaderReady(core[Leader], in, scratches, par)
    <3>1. VotesOK(in, scratches, par)
      BY <1>1, <1>4, <1>5 DEF VotesOK
    <3>2. par \in SUBSET (Nat \X Correct) /\ scratches \in SUBSET Nat
      BY <1>1, <1>5 DEF TypeInv
    <3> QED BY <1>1, <3>1, <3>2 DEF LeaderReady
  <2>3. core' = [core EXCEPT ![Leader] = core[Leader]] /\ extra' \in Int /\ fallback' \in BOOLEAN
        /\ failed' = failed
    BY <1>1, <1>2, <2>1, ReplicaFacts DEF TypeInv
  <2>4. signers \subseteq DOMAIN blocks[b].reserved
    <3> SUFFICES ASSUME NEW p \in signed PROVE p[2] \in DOMAIN blocks[b].reserved
      OBVIOUS
    <3>1. p \in par /\ p[1] = b
      OBVIOUS
    <3> QED BY <1>5, <3>1
  <2> HIDE DEF in, par, signers
  <2>5. HotStuffInv'
    BY <2>1, <2>2, <2>3, LeaderQuiet
  <2> QED BY <2>1, <2>4, <2>5 DEF in
<1>7. CASE sig
  <2>1. /\ LeaderBeat(s, in, scratches \ {b}, par \ signed)
        /\ UNCHANGED <<waiting, signing>>
    BY <1>2, <1>7 DEF ReceiveVote
  <2>2. DOMAIN blocks[b].reserved \subseteq signers
    BY <1>7 DEF AddPartial
  <2>3. \A q \in DOMAIN blocks[b].reserved : <<b, q>> \in par
    <3> TAKE q \in DOMAIN blocks[b].reserved
    <3>1. PICK p \in signed : q = p[2]
      BY <2>2
    <3>2. p \in par /\ p[1] = b /\ p \in Nat \X Correct
      BY <1>5, <3>1
    <3>3. p = <<b, q>>
      BY <3>1, <3>2
    <3> QED BY <3>2, <3>3
  <2>4. scratches \ {b} = {} /\ par \ signed = {}
    BY <1>3, <1>5
  <2>5. VotesOK(in, {}, {})
    <3>1. ASSUME NEW q \in Backup, NEW c \in Nat PROVE VoteGeneric(c, q) \notin in
      <4> SUFFICES ASSUME VoteGeneric(c, q) \in in PROVE FALSE
        OBVIOUS
      <4>1. c = b /\ q \in DOMAIN blocks[b].reserved /\ <<b, q>> \notin par
        BY <1>3, <1>4
      <4> QED BY <2>3, <4>1
    <3>2. ASSUME NEW q \in Backup, NEW c \in 1..L, q \in DOMAIN blocks[c].reserved, c > Top(q)
          PROVE  FALSE
      <4>1. c = b
        BY <1>1, <1>3, <3>2 DEF VotesOK
      <4>2. <<b, q>> \in par
        BY <2>3, <3>2, <4>1
      <4>3. q # Leader /\ Top(q) \in Nat
        BY <1>1, ReplicaFacts DEF BackupsOK, BackupCore, Chain, Core, Top
      <4>4. b <= Top(q)
        BY <1>5, <4>2, <4>3
      <4> QED BY <1>1, <3>2, <4>1, <4>3, <4>4
    <3> QED BY <3>1, <3>2 DEF VotesOK
  <2>6. LeaderOK(s, {})
    <3>1. Height(blocks, b) = L /\ Height(blocks, core[Leader].qcHigh) = Back(L, 1) /\ L > Back(L, 1)
      <4>1. Back(L, 1) \in 0..L /\ b \in 0..L /\ L > Back(L, 1)
        BY <1>1, <1>3 DEF Back
      <4> QED BY <1>1, <1>3, <4>1, ChainLinks
    <3>2. s = [core[Leader] EXCEPT !.qcHigh = b, !.leaf = b]
      BY <3>1 DEF UpdateQuorumCertHigh
    <3>3. core[Leader] \in Core
      BY <1>1 DEF LeaderOK, Chain
    <3>4. /\ s \in Core /\ s.nodes = core[Leader].nodes /\ s.voteHeight = core[Leader].voteHeight
          /\ s.lock = core[Leader].lock /\ s.executed = core[Leader].executed
          /\ s.finalized = core[Leader].finalized /\ s.votes = core[Leader].votes
          /\ s.qcHigh = b /\ s.leaf = b
      BY <1>1, <3>2, <3>3 DEF Core
    <3> HIDE DEF s
    <3> QED BY <1>1, <1>3, <3>4 DEF LeaderOK, Chain
  <2> HIDE DEF s, in, par, signed
  <2>7. LeaderReady(s, in, {}, {})
    <3>1. in \subseteq network
      BY DEF in
    <3> QED BY <1>1, <2>5, <2>6, <3>1 DEF LeaderReady
  <2>8. LeaderBeat(s, in, {}, {})
    BY <2>1, <2>4
  <2> QED BY <2>1, <2>7, <2>8 DEF in
<1> QED BY <1>6, <1>7

LEMMA ReceiveVoteInv ==
  ASSUME HotStuffInv, NEW r \in Backup, NEW b \in DOMAIN blocks, ReceiveVote(b, r)
  PROVE  HotStuffInv'
BY VoteOutcome, LeaderBeatInv

-----------------------------------------------------------------------------
LEMMA ReceiveSupplyInv ==
  ASSUME HotStuffInv, NEW r \in Backup, ReceiveSupply(r)
  PROVE  HotStuffInv'
<1>1. PICK m \in network :
        /\ m.type = "Supply" /\ m.from = r
        /\ stock' = [stock EXCEPT ![r] = @ \cup m.nonces]
        /\ network' = network \ {m}
  BY DEF ReceiveSupply
<1>2. UNCHANGED <<blocks, core, extra, waiting, signing, nonces, made, scratches, partials,
                  failed, fallback>>
  BY DEF ReceiveSupply
<1>3. /\ TypeInv /\ NoncesOK(network) /\ r \in Correct /\ r \in Replica
      /\ m.nonces \subseteq nonces[r] /\ m.nonces \cap stock[r] = {}
      /\ \A b \in 1..Len(blocks) : Reserves(b, r) => blocks[b].reserved[r] \notin m.nonces
      /\ \A n \in network : n.type = "Supply" /\ n.from = r /\ n # m => n.nonces \cap m.nonces = {}
  BY <1>1, ReplicaFacts DEF HotStuffInv, NoncesOK
<1>4. /\ stock'[r] = stock[r] \cup m.nonces
      /\ \A q \in Replica : q # r => stock'[q] = stock[q]
  BY <1>1, <1>3 DEF TypeInv
<1>5. TypeInv'
  <2>1. stock' \in [Replica -> SUBSET Nat]
    <3>1. nonces[r] \subseteq Nat
      BY <1>3 DEF TypeInv
    <3> QED BY <1>1, <1>3, <3>1 DEF TypeInv
  <2>2. network' \subseteq Message
    BY <1>1, <1>3 DEF TypeInv
  <2> QED BY <1>2, <1>3, <2>1, <2>2 DEF TypeInv
<1>6. NoncesOK(network)'
  <2>1. NoncesOK(network')
    BY <1>1, <1>3, FewerMessages
  <2>2. \A q \in Silent : stock'[q] = {}
    BY <1>3, <1>4, ReplicaFacts, SilentAssumption DEF NoncesOK, Correct
  <2>3. ASSUME NEW q \in Correct
        PROVE  /\ stock'[q] \subseteq nonces[q]
               /\ \A b \in 1..Len(blocks) : Reserves(b, q) => blocks[b].reserved[q] \notin stock'[q]
    BY <1>3, <1>4, ReplicaFacts DEF NoncesOK
  <2>4. ASSUME NEW n \in network', n.type = "Supply"
        PROVE  n.nonces \cap stock'[n.from] = {}
    <3>1. n \in network /\ n # m /\ n.nonces \cap stock[n.from] = {}
      BY <1>1, <1>3, <2>4 DEF NoncesOK
    <3>2. n.from \in Replica
      <4>1. n \in Message
        BY <1>3, <3>1 DEF TypeInv
      <4> QED BY <2>4, <4>1, ReplicaFacts DEF Message
    <3> QED BY <1>3, <1>4, <2>4, <3>1, <3>2
  <2>5. \A b, q : Reserves(b, q)' <=> Reserves(b, q)
    BY <1>2 DEF Reserves
  <2>6. \A q : Top(q)' = Top(q)
    BY <1>2 DEF Top
  <2> QED BY <1>2, <2>1, <2>2, <2>3, <2>4, <2>5, <2>6 DEF NoncesOK
<1>7. GenericOK(network)'
  <2>1. network' \subseteq network
    BY <1>1
  <2> QED BY <1>2, <2>1 DEF HotStuffInv, GenericOK, Top
<1>8. VotesOK(network, scratches, partials)'
  <2>1. network' \subseteq network
    BY <1>1
  <2> QED BY <1>2, <2>1 DEF HotStuffInv, VotesOK, Top
<1>9. Linear(blocks)' /\ LeaderOK(core[Leader], scratches)' /\ BackupsOK' /\ ~failed'
  BY <1>2 DEF HotStuffInv, Linear, LeaderOK, BackupsOK, Top
<1> QED BY <1>5, <1>6, <1>7, <1>8, <1>9 DEF HotStuffInv

LEMMA RequestBackupInv ==
  ASSUME HotStuffInv, NEW r \in Backup, NEW command \in Command, RequestBackup(r, command)
  PROVE  HotStuffInv' /\ Top(r)' = Top(r)
<1> DEFINE p == Pushed(core[r], command)
           t == BackupBeat(p)
<1>1. /\ core' = [core EXCEPT ![r] = t]
      /\ UNCHANGED <<blocks, extra, waiting, signing, nonces, made, stock, scratches, partials,
                     network, failed, fallback>>
  BY DEF RequestBackup
<1>2. core[r] \in Core /\ r \in Correct /\ r # Leader /\ TypeInv
  BY ReplicaFacts DEF HotStuffInv, TypeInv
<1>3. SameChain(core[r], p) /\ SameChain(p, t)
  <2>1. SameChain(core[r], p)
    BY <1>2, PushedSame
  <2> HIDE DEF p
  <2> QED BY <2>1, BackupBeatSame DEF SameChain
<1> HIDE DEF p, t
<1>4. SameChain(core[r], t)
  BY <1>3 DEF SameChain
<1>5. core'[r] = t /\ \A q \in Correct : q # r => core'[q] = core[q]
  BY <1>1, <1>2 DEF TypeInv
<1>6. \A q \in Correct : Top(q)' = Top(q)
  BY <1>4, <1>5 DEF Top, SameChain
<1>7. TypeInv'
  BY <1>1, <1>2, <1>4 DEF TypeInv, SameChain
<1>8. BackupsOK'
  <2>1. BackupCore(t) /\ t.votes = {}
    BY <1>4 DEF SameChain, HotStuffInv, BackupsOK, BackupCore, Chain
  <2>2. ASSUME NEW q \in Backup PROVE BackupCore(core'[q]) /\ core'[q].votes = {}
    <3>1. BackupCore(core[q]) /\ core[q].votes = {}
      BY DEF HotStuffInv, BackupsOK
    <3> QED BY <1>5, <2>1, <3>1, ReplicaFacts
  <2>3. \A q \in Backup : BackupCore(core[q])' <=> BackupCore(core'[q])
    BY DEF BackupCore, Chain
  <2> QED BY <1>1, <1>6, <2>2, <2>3, ReplicaFacts DEF HotStuffInv, BackupsOK
<1>9. GenericOK(network)' /\ NoncesOK(network)' /\ VotesOK(network, scratches, partials)'
  <2>1. GenericOK(network)'
    BY <1>1, <1>6, ReplicaFacts DEF HotStuffInv, GenericOK
  <2>2. NoncesOK(network)'
    BY <1>1, <1>6, ReplicaFacts DEF HotStuffInv, NoncesOK, Reserves
  <2>3. VotesOK(network, scratches, partials)'
    <3>1. \A x \in partials : x[2] \in Correct
      BY <1>2 DEF TypeInv
    <3> QED BY <1>1, <1>6, <3>1, ReplicaFacts DEF HotStuffInv, VotesOK
  <2> QED BY <2>1, <2>2, <2>3
<1>10. Linear(blocks)' /\ LeaderOK(core[Leader], scratches)' /\ ~failed'
  BY <1>1, <1>2, <1>5, ReplicaFacts DEF HotStuffInv, Linear, LeaderOK
<1> QED BY <1>2, <1>6, <1>7, <1>8, <1>9, <1>10 DEF HotStuffInv

-----------------------------------------------------------------------------
(* A backup receives a proposal: one that must wait for its parent.                *)
LEMMA GenericWaitsInv ==
  ASSUME HotStuffInv, NEW r \in Backup, NEW b \in DOMAIN blocks, ReceiveGeneric(r, b),
         Parent(blocks, b) \notin core[r].nodes
  PROVE  HotStuffInv'
<1> DEFINE in == network \ {Generic(b, r)}
<1>1. /\ TypeInv /\ Linear(blocks) /\ BackupsOK /\ GenericOK(network) /\ NoncesOK(network)
      /\ ~failed /\ LeaderOK(core[Leader], scratches)
      /\ VotesOK(network, scratches, partials)
      /\ Len(blocks) \in Nat /\ b \in Nat /\ b \in 1..Len(blocks) /\ blocks \in Seq(BlockType)
      /\ r \in Correct /\ r # Leader
  BY ReplicaFacts DEF HotStuffInv, TypeInv
<1>2. /\ Generic(b, r) \in network
      /\ waiting' = [waiting EXCEPT ![r] = @ \cup {b}]
      /\ signing' = [signing EXCEPT ![r] = @ \cup {b}]
      /\ network' = in /\ failed' = (failed \/ b \in signing[r])
      /\ UNCHANGED <<blocks, core, extra, nonces, made, stock, scratches, partials, fallback>>
  BY DEF ReceiveGeneric
<1>3. /\ b > Top(r) /\ b \notin waiting[r] /\ signing[r] = waiting[r]
      /\ Top(r) \in Nat /\ core[r].nodes = 0..Top(r)
  BY <1>1, <1>2 DEF GenericOK, BackupsOK, BackupCore, Chain, Core, Top
<1>4. b >= Top(r) + 2
  <2>1. Parent(blocks, b) = b - 1
    <3>1. b \in 0..Len(blocks) /\ Back(b, 1) = b - 1
      BY <1>1 DEF Back
    <3> QED BY <1>1, <3>1, ChainLinks
  <2> QED BY <1>1, <1>3, <2>1
<1>5. /\ waiting'[r] = waiting[r] \cup {b} /\ signing'[r] = signing[r] \cup {b}
      /\ \A q \in Correct : q # r => waiting'[q] = waiting[q] /\ signing'[q] = signing[q]
  BY <1>1, <1>2 DEF TypeInv
<1>6. TypeInv'
  <2>1. waiting' \in [Correct -> SUBSET Nat] /\ signing' \in [Correct -> SUBSET Nat]
    BY <1>1, <1>2 DEF TypeInv
  <2>2. failed' \in BOOLEAN /\ network' \subseteq Message
    BY <1>1, <1>2, <1>3 DEF TypeInv
  <2> QED BY <1>1, <1>2, <2>1, <2>2 DEF TypeInv
<1>7. BackupsOK'
  <2>1. \A q : Top(q)' = Top(q)
    BY <1>2 DEF Top
  <2>2. ASSUME NEW q \in Backup
        PROVE  /\ \A c \in waiting'[q] : c >= Top(q) + 2 /\ c <= Len(blocks)
               /\ signing'[q] = waiting'[q]
    <3>1. /\ \A c \in waiting[q] : c >= Top(q) + 2 /\ c <= Len(blocks)
          /\ signing[q] = waiting[q]
      BY <1>1 DEF BackupsOK
    <3>2. CASE q = r
      <4>1. waiting'[q] = waiting[q] \cup {b} /\ signing'[q] = signing[q] \cup {b}
        BY <1>5, <3>2
      <4>2. b >= Top(q) + 2 /\ b <= Len(blocks)
        BY <1>1, <1>4, <3>2
      <4> QED BY <3>1, <4>1, <4>2
    <3>3. CASE q # r
      BY <1>5, <3>1, <3>3, ReplicaFacts
    <3> QED BY <3>2, <3>3
  <2> QED BY <1>1, <1>2, <2>1, <2>2 DEF BackupsOK, BackupCore, Chain
<1>8. GenericOK(network)'
  <2> SUFFICES ASSUME NEW q \in Backup, NEW c \in Nat, Generic(c, q) \in in
               PROVE  c > Top(q) /\ c <= Len(blocks) /\ c \notin waiting'[q]
    BY <1>2 DEF GenericOK, Top
  <2>1. c > Top(q) /\ c <= Len(blocks) /\ c \notin waiting[q]
    BY <1>1 DEF GenericOK
  <2>2. ~(c = b /\ q = r)
    OBVIOUS
  <2> QED BY <1>5, <2>1, <2>2, ReplicaFacts
<1>9. VotesOK(network, scratches, partials)' /\ NoncesOK(network)'
  <2>1. network' \subseteq network
    BY <1>2
  <2>2. VotesOK(network, scratches, partials)'
    BY <1>1, <1>2, <2>1 DEF VotesOK, Top
  <2>3. NoncesOK(network')
    BY <1>1, <2>1, FewerMessages
  <2>4. NoncesOK(network)'
    BY <1>2, <2>3 DEF NoncesOK, Reserves, Top
  <2> QED BY <2>2, <2>4
<1>10. Linear(blocks)' /\ LeaderOK(core[Leader], scratches)' /\ ~failed'
  BY <1>1, <1>2, <1>3 DEF Linear, LeaderOK
<1> QED BY <1>6, <1>7, <1>8, <1>9, <1>10 DEF HotStuffInv

(* And one that extends what the backup has: it is handled, with all that waits     *)
(* for it, and voted for with the nonces in used.                                 *)
Signs(r, used) ==
  /\ \A i \in 1..Len(blocks) : Reserves(i, r) /\ i > Top(r) /\ i <= Top(r)' =>
       blocks[i].reserved[r] \in used
  /\ nonces' = [nonces EXCEPT ![r] = NoncesAfter(r, used)]
  /\ Refills(r, used) => Supply(r, NewSupply(r)) \in network'

LEMMA GenericHandledInv ==
  ASSUME HotStuffInv, NEW r \in Backup, NEW b \in DOMAIN blocks, ReceiveGeneric(r, b),
         Parent(blocks, b) \in core[r].nodes
  PROVE  HotStuffInv' /\ Top(r) <= Top(r)' /\ \E used : Signs(r, used)
<1> DEFINE in == network \ {Generic(b, r)}
           k == Top(r)
           L == Len(blocks)
           s == Handled(r, Unblocked(r, b))
           nominated == {v \in s.votes : r \in DOMAIN blocks[v].reserved}
           used == {blocks[v].reserved[r] : v \in nominated}
           supply == IF Refills(r, used) THEN {Supply(r, NewSupply(r))} ELSE {}
           t == [s EXCEPT !.votes = {}]
<1>1. /\ TypeInv /\ Linear(blocks) /\ BackupsOK /\ GenericOK(network) /\ NoncesOK(network)
      /\ ~failed /\ LeaderOK(core[Leader], scratches)
      /\ VotesOK(network, scratches, partials)
      /\ L \in Nat /\ b \in Nat /\ b \in 1..L /\ blocks \in Seq(BlockType)
      /\ r \in Correct /\ r # Leader
  BY ReplicaFacts DEF HotStuffInv, TypeInv
<1>2. /\ Generic(b, r) \in network
      /\ waiting' = [waiting EXCEPT ![r] = (@ \cup {b}) \ s.nodes]
      /\ signing' = [signing EXCEPT ![r] = (@ \cup {b}) \ s.votes]
      /\ failed' = (failed \/ b \in signing[r] \/ b \in core[r].nodes
                           \/ ~(s.votes \subseteq signing[r] \cup {b})
                           \/ ~(used \subseteq nonces[r]))
      /\ core' = [core EXCEPT ![r] = t]
      /\ nonces' = [nonces EXCEPT ![r] = NoncesAfter(r, used)]
      /\ made' = [made EXCEPT ![r] = MadeAfter(r, used)]
      /\ network' = in \cup {VoteGeneric(v, r) : v \in nominated} \cup supply
      /\ UNCHANGED <<blocks, extra, stock, scratches, partials, fallback>>
  BY DEF ReceiveGeneric, Vote
<1>3. /\ b > k /\ b \notin waiting[r] /\ signing[r] = waiting[r]
      /\ k \in Nat /\ core[r].nodes = 0..k /\ BackupCore(core[r]) /\ core[r].votes = {}
      /\ \A w \in waiting[r] : w \in Nat /\ w >= k + 2 /\ w <= L
  <2>1. waiting[r] \in SUBSET Nat
    BY <1>1 DEF TypeInv
  <2> QED BY <1>1, <1>2, <2>1 DEF GenericOK, BackupsOK, BackupCore, Chain, Core, Top
<1>4. b = k + 1
  <2>1. Parent(blocks, b) = b - 1
    <3>1. b \in 0..Len(blocks) /\ Back(b, 1) = b - 1
      BY <1>1 DEF Back
    <3> QED BY <1>1, <3>1, ChainLinks
  <2> QED BY <1>1, <1>3, <2>1
<1>5. PICK n \in Nat :
        /\ n >= 1 /\ k + n <= L
        /\ Len(Unblocked(r, b)) = n
        /\ \A i \in 1..n : Unblocked(r, b)[i] = k + i
        /\ \A w \in b..(k + n) : w = b \/ w \in waiting[r]
        /\ k + n + 1 \notin waiting[r]
  <2>1. b <= Len(blocks)
    BY <1>1
  <2> QED BY <1>1, <1>4, <2>1, UnblockedRun
<1>6. BackupCore(s) /\ s.voteHeight = k + n /\ s.votes = (k + 1)..(k + n) /\ s.nodes = 0..(k + n)
  <2>1. BackupCore(s) /\ s.voteHeight = k + n /\ s.votes = (k + 1)..(k + n)
    BY <1>1, <1>3, <1>5, HandledRun
  <2> HIDE DEF s, k
  <2>2. s.nodes = 0..s.voteHeight
    BY <2>1 DEF BackupCore, Chain
  <2> QED BY <2>1, <2>2
<1> HIDE DEF s
<1>7. BackupCore(t) /\ t.voteHeight = k + n /\ t.votes = {}
  <2>1. s \in Core
    BY <1>6 DEF BackupCore, Chain
  <2>2. /\ t \in Core /\ t.voteHeight = s.voteHeight /\ t.nodes = s.nodes /\ t.lock = s.lock
        /\ t.executed = s.executed /\ t.finalized = s.finalized /\ t.leaf = s.leaf
        /\ t.qcHigh = s.qcHigh /\ t.votes = {}
    BY <2>1 DEF Core
  <2> HIDE DEF t, k
  <2> QED BY <1>6, <2>2 DEF BackupCore, Chain
<1> HIDE DEF t
<1>8. /\ core'[r] = t /\ \A q \in Correct : q # r => core'[q] = core[q]
      /\ Top(r)' = k + n /\ \A q \in Correct : q # r => Top(q)' = Top(q)
  <2>1. core'[r] = t /\ \A q \in Correct : q # r => core'[q] = core[q]
    BY <1>1, <1>2 DEF TypeInv
  <2> QED BY <1>7, <2>1 DEF Top
<1>9. /\ waiting'[r] = (waiting[r] \cup {b}) \ (0..(k + n))
      /\ signing'[r] = (waiting[r] \cup {b}) \ ((k + 1)..(k + n))
      /\ \A q \in Correct : q # r => waiting'[q] = waiting[q] /\ signing'[q] = signing[q]
  BY <1>1, <1>2, <1>3, <1>6 DEF TypeInv
<1>10. ASSUME NEW v \in nominated
       PROVE  /\ v \in Nat /\ v \in 1..L /\ v > k /\ v <= k + n /\ Reserves(v, r)
              /\ blocks[v].reserved[r] \in nonces[r]
  <2>1. v \in (k + 1)..(k + n) /\ r \in DOMAIN blocks[v].reserved
    BY <1>6
  <2>2. v \in Nat /\ v \in 1..L /\ v > k /\ v <= k + n
    BY <1>1, <1>3, <1>5, <2>1
  <2> QED BY <1>1, <2>1, <2>2 DEF NoncesOK, Reserves
<1>11. ASSUME NEW v \in (k + 1)..(k + n), r \in DOMAIN blocks[v].reserved PROVE v \in nominated
  BY <1>6, <1>11
<1> HIDE DEF nominated
<1>12. used \subseteq nonces[r]
  BY <1>10
<1>13. ~failed'
  <2>1. b \notin 0..k
    BY <1>3, <1>4
  <2>2. (k + 1)..(k + n) \subseteq waiting[r] \cup {b}
    BY <1>4, <1>5
  <2> QED BY <1>1, <1>2, <1>3, <1>6, <1>12, <2>1, <2>2
<1>14. /\ MadeAfter(r, used) \in Nat /\ MadeAfter(r, used) >= made[r] /\ made[r] \in Nat
       /\ NoncesAfter(r, used) \subseteq 1..MadeAfter(r, used)
       /\ nonces[r] \ used \subseteq NoncesAfter(r, used)
       /\ \A x \in NewSupply(r) : x \in Nat /\ x > made[r]
       /\ Refills(r, used) => NewSupply(r) \subseteq NoncesAfter(r, used)
       /\ nonces[r] \subseteq 1..made[r] /\ stock[r] \subseteq nonces[r]
  <2>1. nonces[r] \subseteq 1..made[r] /\ stock[r] \subseteq nonces[r] /\ made[r] \in Nat
    BY <1>1 DEF NoncesOK, TypeInv
  <2> HIDE DEF used
  <2> QED BY <1>1, <2>1, RefillFacts
<1>15. /\ nonces'[r] = NoncesAfter(r, used) /\ made'[r] = MadeAfter(r, used)
       /\ \A q \in Correct : q # r => nonces'[q] = nonces[q] /\ made'[q] = made[q]
  BY <1>1, <1>2 DEF TypeInv
<1>16. TypeInv'
  <2>1. core' \in [Correct -> Core]
    BY <1>1, <1>2, <1>7 DEF TypeInv, BackupCore, Chain
  <2>2. waiting' \in [Correct -> SUBSET Nat] /\ signing' \in [Correct -> SUBSET Nat]
    BY <1>1, <1>2 DEF TypeInv
  <2>3. nonces' \in [Correct -> SUBSET Nat] /\ made' \in [Correct -> Nat]
    <3>1. NoncesAfter(r, used) \in SUBSET Nat
      BY <1>14
    <3> QED BY <1>1, <1>2, <1>14, <3>1 DEF TypeInv
  <2>4. network' \subseteq Message
    <3>1. \A v \in nominated : VoteGeneric(v, r) \in Message
      BY <1>10 DEF VoteGeneric, Message
    <3>2. Supply(r, NewSupply(r)) \in Message
      BY <1>14 DEF Supply, Message
    <3>3. in \subseteq Message /\ supply \subseteq Message
      BY <1>1, <3>2 DEF TypeInv
    <3> HIDE DEF in, supply
    <3> QED BY <1>2, <3>1, <3>3
  <2>5. failed' \in BOOLEAN
    BY <1>2
  <2> QED BY <1>1, <1>2, <2>1, <2>2, <2>3, <2>4, <2>5 DEF TypeInv
<1>17. BackupsOK'
  <2>1. ASSUME NEW q \in Backup
        PROVE  /\ BackupCore(core'[q]) /\ core'[q].votes = {} /\ Top(q)' <= L
               /\ \A c \in waiting'[q] : c >= Top(q)' + 2 /\ c <= L
               /\ signing'[q] = waiting'[q]
    <3>1. CASE q # r
      BY <1>1, <1>8, <1>9, <3>1, ReplicaFacts DEF BackupsOK
    <3>2. CASE q = r
      <4>1. \A c \in waiting'[r] : c \in waiting[r] /\ c >= k + n + 2
        <5> SUFFICES ASSUME NEW c \in waiting'[r] PROVE c \in waiting[r] /\ c >= k + n + 2
          OBVIOUS
        <5>1. c \in waiting[r] \cup {b} /\ c \notin 0..(k + n)
          BY <1>9
        <5>2. c \in waiting[r]
          <6>1. b \in 0..(k + n)
            <7> HIDE DEF k
            <7> QED BY <1>3, <1>4, <1>5
          <6> QED BY <5>1, <6>1
        <5>3. c \in Nat /\ c # k + n + 1
          BY <1>3, <1>5, <5>2
        <5> HIDE DEF k
        <5> QED BY <1>3, <5>1, <5>2, <5>3
      <4>2. signing'[r] = waiting'[r]
        <5>1. \A c \in waiting[r] \cup {b} : c \in 0..(k + n) <=> c \in (k + 1)..(k + n)
          <6> HIDE DEF k
          <6> QED BY <1>1, <1>3, <1>4
        <5> QED BY <1>9, <5>1
      <4> QED BY <1>3, <1>5, <1>7, <1>8, <3>2, <4>1, <4>2
    <3> QED BY <3>1, <3>2
  <2>2. \A q : BackupCore(core[q])' <=> BackupCore(core'[q])
    BY DEF BackupCore, Chain
  <2> QED BY <1>2, <2>1, <2>2 DEF BackupsOK
<1>18. GenericOK(network)'
  <2> SUFFICES ASSUME NEW q \in Backup, NEW c \in Nat, Generic(c, q) \in network'
               PROVE  c > Top(q)' /\ c <= L /\ c \notin waiting'[q]
    BY <1>2 DEF GenericOK
  <2>1. Generic(c, q) \in in
    BY <1>2, Messages
  <2>2. c > Top(q) /\ c <= L /\ c \notin waiting[q]
    BY <1>1, <2>1 DEF GenericOK
  <2>3. CASE q # r
    BY <1>8, <1>9, <2>2, <2>3, ReplicaFacts
  <2>4. CASE q = r
    <3>1. c # b
      BY <2>1, <2>4
    <3>2. c > k + n
      <4>1. c > k /\ c \notin waiting[r] /\ c \notin b..(k + n)
        BY <1>5, <2>2, <2>4, <3>1
      <4> HIDE DEF k
      <4> QED BY <1>3, <1>4, <4>1
    <3> QED BY <1>8, <1>9, <2>2, <2>4, <3>1, <3>2
  <2> QED BY <2>3, <2>4
<1>19. \A q \in Backup : Top(q) \in Nat /\ Top(q)' \in Nat /\ Top(q) <= Top(q)'
  <2> TAKE q \in Backup
  <2>1. Top(q) \in Nat /\ q \in Correct
    BY <1>1, ReplicaFacts DEF BackupsOK, BackupCore, Chain, Core, Top
  <2> QED BY <1>3, <1>8, <2>1
<1>20. VotesOK(network, scratches, partials)'
  <2>1. ASSUME NEW p \in partials
        PROVE  /\ p[1] \in scratches /\ p[2] \in DOMAIN blocks[p[1]].reserved
               /\ p[2] # Leader => p[1] <= Top(p[2])'
    <3>1. p \in Nat \X Correct
      BY <1>1 DEF TypeInv
    <3>2. p[1] \in Nat /\ p[2] # Leader => p[2] \in Backup
      BY <3>1, ReplicaFacts
    <3>3. /\ p[1] \in scratches /\ p[2] \in DOMAIN blocks[p[1]].reserved
          /\ p[2] # Leader => p[1] <= Top(p[2])
      BY <1>1 DEF VotesOK
    <3> QED BY <1>19, <3>1, <3>2, <3>3
  <2>2. ASSUME NEW q \in Backup, NEW c \in Nat, VoteGeneric(c, q) \in network'
        PROVE  /\ c \in scratches /\ q \in DOMAIN blocks[c].reserved
               /\ c <= Top(q)' /\ <<c, q>> \notin partials
    <3>1. CASE VoteGeneric(c, q) \in network
      <4>1. /\ c \in scratches /\ q \in DOMAIN blocks[c].reserved
            /\ c <= Top(q) /\ <<c, q>> \notin partials
        BY <1>1, <3>1 DEF VotesOK
      <4> QED BY <1>19, <4>1
    <3>2. CASE VoteGeneric(c, q) \notin network
      <4>1. q = r /\ c \in nominated
        <5>1. VoteGeneric(c, q) \notin supply
          BY Messages
        <5>2. PICK v \in nominated : VoteGeneric(c, q) = VoteGeneric(v, r)
          BY <1>2, <2>2, <3>2, <5>1
        <5> QED BY <5>2, Messages
      <4>2. c \in 1..L /\ r \in DOMAIN blocks[c].reserved /\ c > k /\ c <= k + n
        BY <1>10, <4>1 DEF Reserves
      <4>3. c \in scratches
        BY <1>1, <4>2 DEF VotesOK
      <4>4. <<c, r>> \notin partials
        <5>1. <<c, r>> \in partials => c <= k
          BY <1>1 DEF VotesOK
        <5> QED BY <1>3, <4>2, <5>1
      <4> QED BY <1>8, <4>1, <4>2, <4>3, <4>4
    <3> QED BY <3>1, <3>2
  <2>3. ASSUME NEW q \in Backup, NEW c \in 1..L, q \in DOMAIN blocks[c].reserved, c > Top(q)'
        PROVE  c \in scratches
    <3>1. c > Top(q)
      BY <1>1, <1>19, <2>3
    <3> QED BY <1>1, <2>3, <3>1 DEF VotesOK
  <2> QED BY <1>2, <2>1, <2>2, <2>3 DEF VotesOK
<1>21. NoncesOK(network)'
  <2>1. ASSUME NEW i \in 1..L, Reserves(i, r)
        PROVE  /\ blocks[i].reserved[r] \in 1..made[r] \ stock[r]
               /\ i > k => blocks[i].reserved[r] \in nonces[r]
               /\ i > k + n => blocks[i].reserved[r] \notin used
    <3>1. /\ blocks[i].reserved[r] \in 1..made[r] \ stock[r]
          /\ i > k => blocks[i].reserved[r] \in nonces[r]
      BY <1>1, <2>1 DEF NoncesOK
    <3>2. \A v \in nominated : i > k + n => blocks[i].reserved[r] # blocks[v].reserved[r]
      <4> SUFFICES ASSUME NEW v \in nominated, i > k + n
                   PROVE  blocks[i].reserved[r] # blocks[v].reserved[r]
        OBVIOUS
      <4>1. v \in 1..L /\ Reserves(v, r) /\ i # v
        BY <1>3, <1>10
      <4> QED BY <1>1, <2>1, <4>1 DEF NoncesOK
    <3> QED BY <3>1, <3>2
  <2>2. used \cap stock[r] = {}
    BY <1>1, <1>10, <2>1
  <2>3. ASSUME NEW m \in network, m.type = "Supply", m.from = r PROVE m.nonces \cap used = {}
    <3>1. \A v \in nominated : blocks[v].reserved[r] \notin m.nonces
      BY <1>1, <1>10, <2>3 DEF NoncesOK
    <3> QED BY <3>1
  <2> HIDE DEF used
  <2>4. ASSUME NEW q \in Correct
        PROVE  /\ nonces'[q] \subseteq 1..made'[q] /\ stock[q] \subseteq nonces'[q]
               /\ \A i \in 1..L : Reserves(i, q) =>
                    /\ blocks[i].reserved[q] \in 1..made'[q] \ stock[q]
                    /\ q # Leader /\ i > Top(q)' => blocks[i].reserved[q] \in nonces'[q]
    <3>1. CASE q # r
      BY <1>1, <1>8, <1>15, <3>1 DEF NoncesOK
    <3>2. CASE q = r
      <4>1. nonces'[r] \subseteq 1..made'[r] /\ stock[r] \subseteq nonces'[r]
        BY <1>14, <1>15, <2>2
      <4>2. ASSUME NEW i \in 1..L, Reserves(i, r)
            PROVE  /\ blocks[i].reserved[r] \in 1..made'[r] \ stock[r]
                   /\ i > Top(r)' => blocks[i].reserved[r] \in nonces'[r]
        <5>1. blocks[i].reserved[r] \in 1..made'[r] \ stock[r]
          BY <1>14, <1>15, <2>1, <4>2
        <5>2. i > Top(r)' => i > k /\ i > k + n
          BY <1>3, <1>8
        <5> HIDE DEF k
        <5> QED BY <1>14, <1>15, <2>1, <4>2, <5>1, <5>2
      <4> QED BY <3>2, <4>1, <4>2
    <3> QED BY <3>1, <3>2
  <2>5. ASSUME NEW m \in network', m.type = "Supply"
        PROVE  m \in network \/ (m = Supply(r, NewSupply(r)) /\ Refills(r, used))
    BY <1>2, <2>5, Messages
  <2>6. ASSUME NEW m \in network, m.type = "Supply"
        PROVE  /\ m.from \in Correct /\ m.nonces \subseteq nonces[m.from]
               /\ m.nonces \subseteq nonces'[m.from] /\ m.nonces \cap stock[m.from] = {}
               /\ \A i \in 1..L : Reserves(i, m.from) => blocks[i].reserved[m.from] \notin m.nonces
               /\ \A c \in network : c.type = "Supply" /\ c.from = m.from /\ c # m =>
                    c.nonces \cap m.nonces = {}
    <3>1. m.from \in Correct
      <4>1. m \in Message
        BY <1>1 DEF TypeInv
      <4> QED BY <2>6, <4>1, ReplicaFacts DEF Message
    <3>2. /\ m.nonces \subseteq nonces[m.from] /\ m.nonces \cap stock[m.from] = {}
          /\ \A i \in 1..L : Reserves(i, m.from) => blocks[i].reserved[m.from] \notin m.nonces
          /\ \A c \in network : c.type = "Supply" /\ c.from = m.from /\ c # m =>
                    c.nonces \cap m.nonces = {}
      BY <1>1, <2>6 DEF NoncesOK
    <3>3. m.nonces \subseteq nonces'[m.from]
      BY <1>14, <1>15, <2>3, <2>6, <3>1, <3>2
    <3> QED BY <3>1, <3>2, <3>3
  <2> DEFINE new == Supply(r, NewSupply(r))
  <2>7. new.from = r /\ new.nonces = NewSupply(r)
    BY DEF Supply
  <2> HIDE DEF new
  <2>8. ASSUME NEW m \in network', m.type = "Supply"
        PROVE  /\ m.nonces \subseteq nonces'[m.from] /\ m.nonces \cap stock[m.from] = {}
               /\ \A i \in 1..L : Reserves(i, m.from) => blocks[i].reserved[m.from] \notin m.nonces
               /\ \A c \in network' : c.type = "Supply" /\ c.from = m.from /\ c # m =>
                    c.nonces \cap m.nonces = {}
    <3>1. ASSUME NEW c \in network, c.type = "Supply", c.from = r
          PROVE  c.nonces \cap NewSupply(r) = {}
      <4>1. \A x \in c.nonces : x \in 1..made[r]
        BY <1>14, <2>6, <3>1
      <4> QED BY <1>14, <4>1
    <3>2. CASE m \in network
      <4>1. \A c \in network' : c.type = "Supply" => c \in network \/ c = new
        BY <2>5 DEF new
      <4>2. \A c \in network' : c.type = "Supply" /\ c.from = m.from /\ c # m =>
                    c.nonces \cap m.nonces = {}
        BY <2>6, <2>7, <2>8, <3>1, <3>2, <4>1
      <4> QED BY <2>6, <2>8, <3>2, <4>2
    <3>3. CASE m \notin network
      <4>1. m = new /\ Refills(r, used)
        BY <2>5, <2>8, <3>3 DEF new
      <4>2. m.nonces \subseteq nonces'[r]
        BY <1>14, <1>15, <2>7, <4>1
      <4>3. \A x \in m.nonces : x \in Nat /\ x > made[r]
        BY <1>14, <2>7, <4>1
      <4>4. m.nonces \cap stock[r] = {}
        BY <1>14, <4>3
      <4>5. \A i \in 1..L : Reserves(i, r) => blocks[i].reserved[r] \notin m.nonces
        <5>1. \A i \in 1..L : Reserves(i, r) => blocks[i].reserved[r] \in 1..made[r]
          BY <2>1
        <5> QED BY <1>14, <4>3, <5>1
      <4>6. \A c \in network' : c.type = "Supply" /\ c.from = r /\ c # m => c.nonces \cap m.nonces = {}
        BY <2>5, <2>7, <3>1, <4>1 DEF new
      <4> QED BY <2>7, <4>1, <4>2, <4>4, <4>5, <4>6
    <3> QED BY <3>2, <3>3
  <2>9. \A i, q : Reserves(i, q)' <=> Reserves(i, q)
    BY <1>2 DEF Reserves
  <2>10. /\ \A q \in Silent : stock[q] = {}
         /\ \A q \in Correct : \A i, j \in 1..L : Reserves(i, q) /\ Reserves(j, q) /\ i # j =>
              blocks[i].reserved[q] # blocks[j].reserved[q]
    BY <1>1 DEF NoncesOK
  <2> QED BY <1>2, <2>4, <2>8, <2>9, <2>10 DEF NoncesOK
<1>22. Linear(blocks)' /\ LeaderOK(core[Leader], scratches)'
  <2>1. core'[Leader] = core[Leader]
    BY <1>1, <1>8, ReplicaFacts
  <2> QED BY <1>1, <1>2, <2>1 DEF Linear, LeaderOK
<1>23. Signs(r, used)
  <2>1. ASSUME NEW i \in 1..L, Reserves(i, r), i > k, i <= Top(r)'
        PROVE  blocks[i].reserved[r] \in used
    <3>1. i \in (k + 1)..(k + n)
      <4> HIDE DEF k
      <4> QED BY <1>3, <1>8, <2>1
    <3>2. i \in nominated
      BY <1>11, <2>1, <3>1 DEF Reserves
    <3> QED BY <3>2
  <2> HIDE DEF used
  <2>2. Refills(r, used) => Supply(r, NewSupply(r)) \in network'
    BY <1>2
  <2> QED BY <1>2, <2>1, <2>2 DEF Signs
<1> HIDE DEF used
<1> QED BY <1>13, <1>16, <1>17, <1>18, <1>19, <1>20, <1>21, <1>22, <1>23 DEF HotStuffInv

-----------------------------------------------------------------------------
LEMMA NextInv ==
  ASSUME HotStuffInv, [Next]_vars PROVE HotStuffInv'
<1>1. CASE UNCHANGED vars
  <2> USE <1>1 DEF vars
  <2>1. TypeInv'
    BY DEF HotStuffInv, TypeInv
  <2>2. Linear(blocks)' /\ LeaderOK(core[Leader], scratches)' /\ ~failed'
    BY DEF HotStuffInv, Linear, LeaderOK
  <2>3. BackupsOK'
    BY DEF HotStuffInv, BackupsOK, Top
  <2>4. GenericOK(network)' /\ VotesOK(network, scratches, partials)'
    BY DEF HotStuffInv, GenericOK, VotesOK, Top
  <2>5. NoncesOK(network)'
    BY DEF HotStuffInv, NoncesOK, Reserves, Top
  <2> QED BY <2>1, <2>2, <2>3, <2>4, <2>5 DEF HotStuffInv
<1>2. ASSUME NEW r \in Backup, ReceiveSupply(r) PROVE HotStuffInv'
  BY <1>2, ReceiveSupplyInv
<1>3. ASSUME NEW r \in Backup, NEW b \in DOMAIN blocks, ReceiveGeneric(r, b) PROVE HotStuffInv'
  BY <1>3, GenericWaitsInv, GenericHandledInv
<1>4. ASSUME NEW r \in Backup, NEW b \in DOMAIN blocks, ReceiveVote(b, r) PROVE HotStuffInv'
  BY <1>4, ReceiveVoteInv
<1>5. ASSUME NEW command \in Command, RequestLeader(command) PROVE HotStuffInv'
  BY <1>5, RequestLeaderInv
<1>6. ASSUME NEW r \in Backup, NEW command \in Command, RequestBackup(r, command)
      PROVE  HotStuffInv'
  BY <1>6, RequestBackupInv
<1> QED BY <1>1, <1>2, <1>3, <1>4, <1>5, <1>6 DEF Next

(* The invariant that the theorems below rest on: the replicas of src/hotstuff/mod.rs *)
(* build one chain, and nonces, votes and scratches agree.                         *)
THEOREM HotStuffInvariant == Spec => []HotStuffInv
<1>1. Init => HotStuffInv
  BY InitInv
<1>2. HotStuffInv /\ [Next]_vars => HotStuffInv'
  BY NextInv
<1> QED BY <1>1, <1>2, PTL DEF Spec

(* No assertion and no unwrap of Replica fails, in any order of the messages.       *)
THEOREM HotStuffNeverPanics == Spec => []NoPanic
<1>1. HotStuffInv => NoPanic
  BY DEF HotStuffInv, NoPanic
<1> QED BY <1>1, HotStuffInvariant, PTL

(* No nonce is reserved for two blocks, nor is one that is reserved still in stock.  *)
THEOREM HotStuffNonceOnce == Spec => []NonceOnce
<1>1. ASSUME HotStuffInv PROVE NonceOnce
  <2>1. TypeInv /\ NoncesOK(network) /\ DOMAIN blocks = 1..Len(blocks)
    BY <1>1 DEF HotStuffInv, TypeInv
  <2>2. ASSUME NEW i \in DOMAIN blocks, NEW r \in DOMAIN blocks[i].reserved
        PROVE  r \in Correct /\ Reserves(i, r)
    <3>1. blocks[i] \in BlockType
      BY <2>1 DEF TypeInv
    <3>2. PICK D \in SUBSET Correct : blocks[i].reserved \in [D -> Nat]
      BY <3>1 DEF BlockType
    <3> QED BY <2>1, <2>2, <3>2 DEF Reserves
  <2>3. \A i, j \in DOMAIN blocks :
          \A r \in DOMAIN blocks[i].reserved \cap DOMAIN blocks[j].reserved :
            i # j => blocks[i].reserved[r] # blocks[j].reserved[r]
    BY <2>1, <2>2 DEF NoncesOK
  <2>4. \A i \in DOMAIN blocks : \A r \in DOMAIN blocks[i].reserved :
          blocks[i].reserved[r] \notin stock[r]
    BY <2>1, <2>2 DEF NoncesOK
  <2> QED BY <2>3, <2>4 DEF NonceOnce
<1> QED BY <1>1, HotStuffInvariant, PTL

(* What a replica finalizes is locked by a quorum of the replicas.                 *)
THEOREM HotStuffFinalizedLocked == Spec => []FinalizedLocked
<1>1. ASSUME HotStuffInv PROVE FinalizedLocked
  <2> SUFFICES ASSUME NEW r \in Correct, NEW b \in ToSet(core[r].finalized)
               PROVE  Cardinality({q \in Correct : b \in Branch(blocks, core[q].lock)}) >= QuorumSize
    BY DEF FinalizedLocked
  <2> DEFINE L == Len(blocks)
             holders == {q \in Correct : b \in Branch(blocks, core[q].lock)}
             signers == DOMAIN blocks[b + 2].reserved
  <2>1. /\ TypeInv /\ Linear(blocks) /\ BackupsOK /\ LeaderOK(core[Leader], scratches)
        /\ VotesOK(network, scratches, partials)
        /\ L \in Nat /\ blocks \in Seq(BlockType)
    BY <1>1 DEF HotStuffInv, TypeInv
  <2>2. \A q \in Correct : /\ Chain(core[q]) /\ Top(q) \in Nat /\ Top(q) <= L
                           /\ q = Leader => Top(q) = L
    <3> TAKE q \in Correct
    <3>1. CASE q = Leader
      BY <2>1, <3>1 DEF LeaderOK, Top
    <3>2. CASE q # Leader
      <4>1. q \in Backup
        BY <3>2, ReplicaFacts
      <4>2. Chain(core[q]) /\ Top(q) <= L
        BY <2>1, <4>1 DEF BackupsOK, BackupCore
      <4>3. Top(q) \in Nat
        BY <4>2 DEF Chain, Core, Top
      <4> QED BY <3>2, <4>2, <4>3
    <3> QED BY <3>1, <3>2
  <2>3. b \in Nat /\ b >= 1 /\ b + 3 <= Top(r)
    <3>1. core[r].finalized = [i \in 1..Back(Top(r), 3) |-> i]
      BY <2>2 DEF Chain, Top
    <3>2. b \in 1..Back(Top(r), 3)
      <4> DEFINE m == Back(Top(r), 3)
      <4>1. m \in Nat
        BY <2>2 DEF Back
      <4> HIDE DEF m
      <4>2. core[r].finalized = [i \in 1..m |-> i]
        BY <3>1 DEF m
      <4>3. \E i \in DOMAIN core[r].finalized : b = core[r].finalized[i]
        BY DEF ToSet
      <4>4. b \in 1..m
        BY <4>2, <4>3
      <4> QED BY <4>4 DEF m
    <3> QED BY <2>2, <3>2 DEF Back
  <2>4. b + 2 \in 1..L /\ b + 2 \notin scratches
    BY <2>1, <2>2, <2>3 DEF LeaderOK
  <2>5. signers \subseteq Correct /\ Cardinality(signers) >= QuorumSize
    <3>1. blocks[b + 2] \in BlockType
      BY <2>1, <2>4
    <3>2. PICK D \in SUBSET Correct : blocks[b + 2].reserved \in [D -> Nat]
      BY <3>1 DEF BlockType
    <3> QED BY <2>1, <2>4, <3>2 DEF Linear
  <2>6. ASSUME NEW q \in signers PROVE q \in holders
    <3>1. q \in Correct /\ b + 2 <= Top(q)
      <4>1. CASE q = Leader
        BY <2>2, <2>4, <2>5, <4>1
      <4>2. CASE q # Leader
        <5>1. q \in Backup
          BY <2>5, <4>2, ReplicaFacts
        <5>2. ~(b + 2 > Top(q))
          BY <2>1, <2>4, <5>1 DEF VotesOK
        <5> QED BY <2>2, <2>3, <2>5, <5>2
      <4> QED BY <4>1, <4>2
    <3>2. core[q].lock = Back(Top(q), 2) /\ Top(q) \in Nat /\ Top(q) <= L
      BY <2>2, <3>1 DEF Chain, Top
    <3>3. Back(Top(q), 2) \in 0..L /\ b <= Back(Top(q), 2)
      BY <2>1, <2>3, <3>1, <3>2 DEF Back
    <3>4. Branch(blocks, core[q].lock) = 0..core[q].lock
      BY <2>1, <3>2, <3>3, LinearBranch
    <3> QED BY <2>3, <3>1, <3>2, <3>3, <3>4
  <2>7. /\ holders \subseteq Correct /\ IsFiniteSet(holders)
        /\ Cardinality(signers) <= Cardinality(holders)
        /\ Cardinality(signers) \in Nat /\ Cardinality(holders) \in Nat
    <3>1. holders \subseteq Correct /\ IsFiniteSet(holders)
      BY ReplicaFacts, FS_Subset
    <3> HIDE DEF holders, signers
    <3>2. signers \subseteq holders
      BY <2>6
    <3>3. Cardinality(signers) <= Cardinality(holders) /\ IsFiniteSet(signers)
      BY <3>1, <3>2, FS_Subset
    <3> QED BY <3>1, <3>3, FS_CardinalityType
  <2> HIDE DEF signers
  <2> QED BY <2>5, <2>7, ReplicaFacts
<1> QED BY <1>1, HotStuffInvariant, PTL

(* The leader never has a block that waits, as it proposes them all.               *)
LeaderWaits == waiting[Leader] = {}

LEMMA LeaderWaitsInv ==
  ASSUME HotStuffInv, LeaderWaits, [Next]_vars PROVE LeaderWaits'
<1>1. waiting \in [Correct -> SUBSET Nat] /\ Leader \in Correct /\ Leader \notin Backup
  BY ReplicaFacts DEF HotStuffInv, TypeInv
<1>2. ASSUME NEW r \in Backup, NEW b, ReceiveGeneric(r, b) PROVE LeaderWaits'
  <2>1. waiting'[Leader] = waiting[Leader]
    BY <1>1, <1>2 DEF ReceiveGeneric
  <2> QED BY <2>1 DEF LeaderWaits
<1>3. (\A r \in Backup : \A b \in DOMAIN blocks : ~ReceiveGeneric(r, b)) => UNCHANGED waiting
  BY DEF Next, vars, ReceiveSupply, ReceiveVote, RequestLeader, RequestBackup
<1> QED BY <1>2, <1>3 DEF LeaderWaits

(* No block stays in the reorder buffer when its parent has been handled.           *)
THEOREM HotStuffNothingLeftBehind == Spec => []NothingLeftBehind
<1>1. Init => LeaderWaits
  BY ReplicaFacts DEF Init, LeaderWaits
<1>2. HotStuffInv /\ LeaderWaits /\ [Next]_vars => LeaderWaits'
  BY LeaderWaitsInv
<1>3. ASSUME HotStuffInv, LeaderWaits PROVE NothingLeftBehind
  <2> SUFFICES ASSUME NEW r \in Correct, NEW b \in waiting[r]
               PROVE  Parent(blocks, b) \notin core[r].nodes
    BY DEF NothingLeftBehind
  <2>1. r \in Backup
    BY <1>3, ReplicaFacts DEF LeaderWaits
  <2>2. /\ b \in Nat /\ b >= Top(r) + 2 /\ b <= Len(blocks) /\ core[r].nodes = 0..Top(r)
        /\ Top(r) \in Nat /\ Len(blocks) \in Nat /\ blocks \in Seq(BlockType) /\ Linear(blocks)
    <3>1. b \in Nat
      <4>1. waiting[r] \in SUBSET Nat
        BY <1>3, <2>1, ReplicaFacts DEF HotStuffInv, TypeInv
      <4> QED BY <4>1
    <3>2. Len(blocks) \in Nat /\ blocks \in Seq(BlockType) /\ Linear(blocks) /\ BackupsOK
      BY <1>3 DEF HotStuffInv, TypeInv
    <3>3. Chain(core[r]) /\ b >= Top(r) + 2 /\ b <= Len(blocks)
      BY <2>1, <3>2 DEF BackupsOK, BackupCore
    <3>4. core[r].nodes = 0..Top(r) /\ Top(r) \in Nat
      BY <3>3 DEF Chain, Core, Top
    <3> QED BY <3>1, <3>2, <3>3, <3>4
  <2>3. Parent(blocks, b) = b - 1
    <3>1. b \in 0..Len(blocks) /\ Back(b, 1) = b - 1
      BY <2>2 DEF Back
    <3> QED BY <2>2, <3>1, ChainLinks
  <2> QED BY <2>2, <2>3
<1> QED BY <1>1, <1>2, <1>3, HotStuffInvariant, PTL DEF Spec

-----------------------------------------------------------------------------
(* The replicas hand out the blocks of one log.                                *)
LogsOK ==
  /\ Len(blocks) \in Nat /\ Top(Leader) = Len(blocks)
  /\ \A r \in Correct :
       /\ Top(r) \in Nat /\ Top(r) <= Len(blocks)
       /\ core[r].finalized = [i \in 1..Back(Top(r), 3) |-> i]
       /\ Len(core[r].finalized) = Back(Top(r), 3)

LEMMA LogFacts ==
  ASSUME HotStuffInv PROVE LogsOK
<1>1. /\ Len(blocks) \in Nat /\ BackupsOK /\ LeaderOK(core[Leader], scratches)
      /\ Top(Leader) = Len(blocks)
  BY DEF HotStuffInv, TypeInv, LeaderOK, Top
<1>2. ASSUME NEW r \in Correct
      PROVE  /\ Top(r) \in Nat /\ Top(r) <= Len(blocks)
             /\ core[r].finalized = [i \in 1..Back(Top(r), 3) |-> i]
             /\ Len(core[r].finalized) = Back(Top(r), 3)
  <2>1. Chain(core[r]) /\ Top(r) <= Len(blocks)
    <3>1. CASE r = Leader
      BY <1>1, <3>1 DEF LeaderOK
    <3>2. CASE r # Leader
      BY <1>1, <3>2, ReplicaFacts DEF BackupsOK, BackupCore
    <3> QED BY <3>1, <3>2
  <2>2. Top(r) \in Nat /\ core[r].finalized = [i \in 1..Back(Top(r), 3) |-> i]
    BY <2>1 DEF Chain, Core, Top
  <2>3. Back(Top(r), 3) \in Nat
    BY <2>2 DEF Back
  <2> QED BY <2>1, <2>2, <2>3
<1> QED BY <1>1, <1>2 DEF LogsOK

(* When the leader beats, it makes one block or none.                            *)
LEMMA LeaderBeatMakes ==
  ASSUME TypeInv, NEW s, NEW in, NEW scr, NEW par, LeaderBeat(s, in, scr, par)
  PROVE  /\ \A q \in Backup : core'[q] = core[q]
         /\ blocks' = blocks \/ \E block : blocks' = Append(blocks, block)
<1>1. \E x : core' = [core EXCEPT ![Leader] = x]
  BY DEF LeaderBeat, Propose
<1>2. blocks' = blocks \/ \E block : blocks' = Append(blocks, block)
  BY DEF LeaderBeat, Propose
<1> QED BY <1>1, <1>2, ReplicaFacts DEF TypeInv

(* One replica takes a step, and it goes up the chain; the leader by one block.     *)
LEMMA OneClimbs ==
  ASSUME HotStuffInv, HotStuffInv', Next
  PROVE  \E r \in Correct :
           /\ \A q \in Correct : q # r => core'[q] = core[q]
           /\ Top(r) <= Top(r)'
           /\ IF r = Leader THEN Top(r)' <= Top(r) + 1 ELSE core'[Leader] = core[Leader]
<1> DEFINE Climbs(r) ==
             /\ \A q \in Correct : q # r => core'[q] = core[q]
             /\ Top(r) <= Top(r)'
             /\ IF r = Leader THEN Top(r)' <= Top(r) + 1 ELSE core'[Leader] = core[Leader]
<1>1. TypeInv /\ \A r \in Correct : Top(r) \in Nat
  BY LogFacts DEF HotStuffInv, LogsOK
<1>2. ASSUME UNCHANGED core PROVE Climbs(Leader)
  <2>1. Top(Leader)' = Top(Leader) /\ Top(Leader) \in Nat
    BY <1>1, <1>2, ReplicaFacts DEF Top
  <2> QED BY <1>2, <2>1
<1>3. ASSUME NEW r \in Backup, \A q \in Correct : q # r => core'[q] = core[q], Top(r) <= Top(r)'
      PROVE  Climbs(r)
  BY <1>3, ReplicaFacts
<1>4. ASSUME NEW s, NEW in, NEW scr, NEW par, LeaderBeat(s, in, scr, par) PROVE Climbs(Leader)
  <2>1. /\ \A q \in Correct : q # Leader => core'[q] = core[q]
        /\ blocks' = blocks \/ \E block : blocks' = Append(blocks, block)
    BY <1>1, <1>4, LeaderBeatMakes, ReplicaFacts
  <2>2. Top(Leader) = Len(blocks) /\ Top(Leader)' = Len(blocks') /\ Len(blocks) \in Nat
    BY DEF HotStuffInv, LeaderOK, Top, TypeInv
  <2>3. Len(blocks') = Len(blocks) \/ Len(blocks') = Len(blocks) + 1
    <3>1. \A block : Len(Append(blocks, block)) = Len(blocks) + 1
      BY <1>1 DEF TypeInv
    <3> QED BY <2>1, <3>1
  <2> QED BY <2>1, <2>2, <2>3
<1>5. ASSUME NEW r \in Backup, ReceiveSupply(r) PROVE UNCHANGED core
  BY <1>5 DEF ReceiveSupply
<1>6. ASSUME NEW r \in Backup, NEW b \in DOMAIN blocks, ReceiveGeneric(r, b)
      PROVE  \E q \in Correct : Climbs(q)
  <2>1. CASE Parent(blocks, b) \notin core[r].nodes
    <3>1. UNCHANGED core
      BY <1>6, <2>1 DEF ReceiveGeneric
    <3> HIDE DEF Climbs
    <3> QED BY <1>2, <3>1, ReplicaFacts
  <2>2. CASE Parent(blocks, b) \in core[r].nodes
    <3>1. \E x : core' = [core EXCEPT ![r] = x]
      BY <1>6, <2>2 DEF ReceiveGeneric, Vote
    <3>2. \A q \in Correct : q # r => core'[q] = core[q]
      BY <1>1, <3>1 DEF TypeInv
    <3>3. Top(r) <= Top(r)'
      BY <1>6, <2>2, GenericHandledInv
    <3> HIDE DEF Climbs
    <3> QED BY <1>3, <3>2, <3>3, ReplicaFacts
  <2> QED BY <2>1, <2>2
<1>7. ASSUME NEW r \in Backup, NEW b \in DOMAIN blocks, ReceiveVote(b, r)
      PROVE  \E q \in Correct : Climbs(q)
  <2>1. UNCHANGED core \/ \E s, in, scr, par : LeaderBeat(s, in, scr, par)
    BY <1>7 DEF ReceiveVote
  <2> HIDE DEF Climbs
  <2> QED BY <1>2, <1>4, <2>1, ReplicaFacts
<1>8. ASSUME NEW command \in Command, RequestLeader(command) PROVE \E q \in Correct : Climbs(q)
  <2>1. \E s, in, scr, par : LeaderBeat(s, in, scr, par)
    BY <1>8 DEF RequestLeader
  <2> HIDE DEF Climbs
  <2> QED BY <1>4, <2>1, ReplicaFacts
<1>9. ASSUME NEW r \in Backup, NEW command \in Command, RequestBackup(r, command)
      PROVE  \E q \in Correct : Climbs(q)
  <2>1. \A q \in Correct : q # r => core'[q] = core[q]
    BY <1>1, <1>9 DEF RequestBackup, TypeInv
  <2>2. Top(r)' = Top(r) /\ Top(r) \in Nat
    BY <1>1, <1>9, RequestBackupInv, ReplicaFacts
  <2>3. Top(r) <= Top(r)'
    BY <2>2
  <2> HIDE DEF Climbs
  <2> QED BY <1>3, <2>1, <2>3, ReplicaFacts
<1> HIDE DEF Climbs
<1>10. \E q \in Correct : Climbs(q)
  BY <1>2, <1>5, <1>6, <1>7, <1>8, <1>9, ReplicaFacts DEF Next
<1> QED BY <1>10 DEF Climbs

LEMMA BroadcastStep ==
  ASSUME HotStuffInv, HotStuffInv', LogsOK, LogsOK', [Next]_vars
  PROVE  [Broadcast!Next]_Broadcast!vars
<1> DEFINE log == core[Leader].finalized
           delivered == [r \in Correct |-> Len(core[r].finalized)]
<1>1. CASE UNCHANGED vars
  BY <1>1 DEF vars, Broadcast!vars
<1>2. CASE Next
  <2>1. PICK r \in Correct :
          /\ \A q \in Correct : q # r => core'[q] = core[q]
          /\ Top(r) <= Top(r)'
          /\ IF r = Leader THEN Top(r)' <= Top(r) + 1 ELSE core'[Leader] = core[Leader]
    BY <1>2, OneClimbs
  <2> DEFINE old == Back(Top(r), 3)
             new == Back(Top(r)', 3)
             final == Back(Top(Leader), 3)
  <2>2. /\ Top(r) \in Nat /\ Top(r)' \in Nat /\ Top(Leader) \in Nat
        /\ Top(r) <= Top(Leader) /\ Top(r)' <= Top(Leader)'
        /\ log = [i \in 1..final |-> i]
        /\ log' = [i \in 1..Back(Top(Leader)', 3) |-> i]
        /\ Len(core[r].finalized) = old /\ Len(core'[r].finalized) = new
    <3>1. /\ Top(Leader)' \in Nat /\ Top(r)' \in Nat /\ Top(r)' <= Top(Leader)'
          /\ core'[Leader].finalized = [i \in 1..Back(Top(Leader)', 3) |-> i]
          /\ Len(core'[r].finalized) = new
      <4>1. /\ Len(blocks') \in Nat /\ Top(Leader)' = Len(blocks')
            /\ \A q \in Correct :
                 /\ Top(q)' \in Nat /\ Top(q)' <= Len(blocks')
                 /\ core'[q].finalized = [i \in 1..Back(Top(q)', 3) |-> i]
                 /\ Len(core'[q].finalized) = Back(Top(q)', 3)
        BY DEF LogsOK, Top
      <4> QED BY <4>1, ReplicaFacts
    <3> QED BY <3>1, ReplicaFacts DEF LogsOK
  <2>3. /\ old \in Nat /\ new \in Nat /\ final \in Nat /\ old <= new
        /\ delivered' = [delivered EXCEPT ![r] = new] /\ delivered[r] = old
    <3>1. old \in Nat /\ new \in Nat /\ final \in Nat /\ old <= new
      BY <2>1, <2>2 DEF Back
    <3>2. \A q \in Correct : q # r => delivered'[q] = delivered[q]
      BY <2>1
    <3> QED BY <2>2, <3>1, <3>2
  <2>4. CASE old = new /\ r # Leader
    <3>1. log' = log
      BY <2>1, <2>4
    <3>2. delivered' = delivered
      BY <2>3, <2>4
    <3> QED BY <3>1, <3>2 DEF Broadcast!vars
  <2>5. CASE old # new /\ r # Leader
    <3>1. log' = log /\ Top(Leader)' = Top(Leader)
      BY <2>1, <2>5 DEF Top
    <3>2. new <= final
      BY <2>2, <3>1 DEF Back
    <3>3. Len(log) = final
      BY <2>2, <2>3
    <3> HIDE DEF log, old, new, final
    <3>4. new \in delivered[r] + 1 .. Len(log)
      BY <2>3, <2>5, <3>2, <3>3
    <3> HIDE DEF delivered
    <3>5. Broadcast!CatchUp(r)
      BY <2>3, <3>1, <3>4 DEF Broadcast!CatchUp, delivered, log
    <3> QED BY <3>5 DEF Broadcast!Next
  <2>6. CASE r = Leader
    <3>1. new = old \/ new = old + 1
      BY <2>1, <2>2, <2>6 DEF Back
    <3>2. log = [i \in 1..old |-> i] /\ log' = [i \in 1..new |-> i]
      BY <2>2, <2>6
    <3>3. CASE new = old
      <4>1. delivered' = delivered
        BY <2>3, <3>3
      <4>2. log' = log
        BY <3>2, <3>3
      <4> QED BY <4>1, <4>2 DEF Broadcast!vars
    <3>4. CASE new = old + 1
      <4> HIDE DEF old, new, log
      <4>1. Len(log) = old /\ Len(log') = old + 1
        BY <2>3, <3>2, <3>4
      <4>2. SubSeq(log', 1, Len(log)) = log
        <5>1. log' \in Seq(Nat) /\ Len(log) = old /\ old <= Len(log')
          BY <2>3, <3>2, <3>4, <4>1
        <5>2. /\ SubSeq(log', 1, old) \in Seq(Nat) /\ Len(SubSeq(log', 1, old)) = old
              /\ \A i \in 1..old : SubSeq(log', 1, old)[i] = log'[i]
          BY <2>3, <5>1
        <5>3. log \in Seq(Nat) /\ \A i \in 1..old : log[i] = log'[i]
          BY <2>3, <3>2, <3>4
        <5> QED BY <4>1, <5>2, <5>3, SeqEqual
      <4>3. \A i \in DOMAIN log' : log'[i] # 0
        BY <3>2
      <4>4. delivered' = [delivered EXCEPT ![r] = Len(log')]
        BY <2>3, <3>4, <4>1
      <4>5. \E size \in 1..1 : Len(log') = Len(log) + size
        BY <4>1
      <4> HIDE DEF delivered
      <4>6. Broadcast!Extend(r)
        BY <4>2, <4>3, <4>4, <4>5 DEF Broadcast!Extend, log, delivered
      <4> QED BY <4>6 DEF Broadcast!Next
    <3> QED BY <3>1, <3>3, <3>4
  <2> QED BY <2>4, <2>5, <2>6
<1> QED BY <1>1, <1>2

(* The replicas implement atomic broadcast: all of them hand out the blocks of one  *)
(* log, in its order and without a gap, and the log grows by one block at a time.    *)
THEOREM HotStuffBroadcast == Spec => BroadcastSpec
<1>1. Init => Broadcast!Init
  <2> SUFFICES ASSUME Init
               PROVE  /\ core[Leader].finalized = <<>>
                      /\ [r \in Correct |-> Len(core[r].finalized)] = [r \in Correct |-> 0]
    BY DEF Broadcast!Init
  <2>1. \A r \in Correct : core[r].finalized = <<>>
    BY DEF Init, InitCore
  <2> QED BY <2>1, ReplicaFacts
<1>2. HotStuffInv => LogsOK
  BY LogFacts
<1>3. HotStuffInv /\ HotStuffInv' /\ LogsOK /\ LogsOK' /\ [Next]_vars => [Broadcast!Next]_Broadcast!vars
  BY BroadcastStep
<1> QED BY <1>1, <1>2, <1>3, HotStuffInvariant, PTL DEF Spec, BroadcastSpec, Broadcast!Spec

-----------------------------------------------------------------------------
(* The order of the commands of a client. A pool holds what is newer than all it has *)
(* submitted, and the blocks of the leader hold what its pool has submitted.         *)
Ordered(bs, s) ==
  /\ \A c \in Client : s.pending[c] = 0 \/ s.pending[c] > s.submitted[c]
  /\ \A i \in 1..Len(bs) : \A x \in bs[i].commands : x.seq <= s.submitted[x.client]

Rising(bs) ==
  \A i, j \in 1..Len(bs) : \A x \in bs[i].commands : \A y \in bs[j].commands :
    x.client = y.client => (i < j => x.seq < y.seq) /\ (i = j => x = y)

OrderInv == Ordered(blocks, core[Leader]) /\ Rising(blocks)

SamePool(s, t) == t.pending = s.pending /\ t.submitted = s.submitted

(* To commit what is in the blocks changes nothing in the pool of the leader.       *)
LEMMA CommittedOrdered ==
  ASSUME NEW s \in Core, NEW commands \in SUBSET Command,
         \A c \in Client : s.pending[c] = 0 \/ s.pending[c] > s.submitted[c],
         \A x \in commands : x.seq <= s.submitted[x.client]
  PROVE  SamePool(s, Committed(s, commands))
<1> DEFINE seqs(c) == {0} \cup {x.seq : x \in {y \in commands : y.client = c}}
           done(c) == Max(seqs(c))
           pend == [c \in Client |-> IF s.pending[c] <= done(c) THEN 0 ELSE s.pending[c]]
           subm == [c \in Client |-> IF s.submitted[c] < done(c) THEN done(c) ELSE s.submitted[c]]
<1>1. Committed(s, commands) = [s EXCEPT !.pending = pend, !.submitted = subm]
  BY DEF Committed
<1>2. /\ s.pending \in [Client -> 0..MaxSeq] /\ s.submitted \in [Client -> 0..MaxSeq]
      /\ MaxSeq \in Nat
  BY BoundAssumption DEF Core, Pool
<1>3. \A c \in Client : done(c) \in Nat /\ done(c) <= s.submitted[c]
  <2> TAKE c \in Client
  <2>1. seqs(c) \in SUBSET (0..MaxSeq) /\ seqs(c) # {}
    BY <1>2 DEF Command
  <2>2. \A z \in seqs(c) : z <= s.submitted[c]
    BY <1>2
  <2> HIDE DEF seqs
  <2>3. Max(seqs(c)) \in seqs(c)
    BY <1>2, <2>1, MaxExists
  <2> QED BY <1>2, <2>1, <2>2, <2>3
<1> HIDE DEF done
<1>4. pend = s.pending
  <2>1. \A c \in Client : pend[c] = s.pending[c]
    BY <1>2, <1>3
  <2> QED BY <1>2, <2>1
<1>5. subm = s.submitted
  <2>1. \A c \in Client : subm[c] = s.submitted[c]
    BY <1>2, <1>3
  <2> QED BY <1>2, <2>1
<1> HIDE DEF pend, subm
<1> QED BY <1>1, <1>4, <1>5 DEF SamePool, Core

LEMMA ProposedOrdered ==
  ASSUME NEW bs \in Seq(BlockType), Linear(bs), NEW s \in Core, Ordered(bs, s),
         s.executed \in 0..Len(bs), NEW b \in 0..Len(bs)
  PROVE  SamePool(s, Proposed(bs, s, b))
<1> DEFINE e == [s EXCEPT !.nodes = @ \cup {b}, !.voteHeight = Height(bs, b), !.leaf = b]
           b1 == Justify(bs, b)
           b2 == Justify(bs, b1)
           b3 == Justify(bs, b2)
           t == UpdateQuorumCertHigh(bs, e, b1)
           u == IF Height(bs, b2) > Height(bs, t.lock) THEN [t EXCEPT !.lock = b2] ELSE t
           final == ThreeChain(bs, e, b1, b2, b3)
           new == NotExecuted(bs, u, final)
           commands == UNION {CommandsOf(bs, n) : n \in new}
           v == OnCommit(bs, u, final)
<1>1. \A n \in 0..Len(bs) :
        /\ Justify(bs, n) \in 0..Len(bs) /\ Height(bs, n) = n /\ CommandsOf(bs, n) \subseteq Command
  <2>1. \A n \in 0..Len(bs) : Back(n, 1) \in 0..Len(bs)
    BY DEF Back
  <2> QED BY <2>1, ChainLinks
<1>2. b1 \in 0..Len(bs) /\ b2 \in 0..Len(bs) /\ b3 \in 0..Len(bs)
  BY <1>1
<1> HIDE DEF b1, b2, b3
<1>3. Height(bs, b) \in Nat /\ b \in Nat
  BY <1>1
<1>4. e \in Core /\ SamePool(s, e) /\ e.executed = s.executed
  BY <1>3 DEF Core, SamePool
<1> HIDE DEF e
<1>5. t \in Core /\ SamePool(s, t)
  <2>1. b1 \in Nat /\ (t = e \/ t = [e EXCEPT !.qcHigh = b1, !.leaf = b1])
    BY <1>2 DEF UpdateQuorumCertHigh
  <2> HIDE DEF t
  <2> QED BY <1>4, <2>1 DEF Core, SamePool
<1> HIDE DEF t
<1>6. u \in Core /\ SamePool(s, u)
  <2>1. b2 \in Nat /\ (u = t \/ u = [t EXCEPT !.lock = b2])
    BY <1>2
  <2> HIDE DEF u
  <2> QED BY <1>5, <2>1 DEF Core, SamePool
<1> HIDE DEF u
<1>7. final \in 0..Len(bs)
  BY <1>2, <1>4 DEF ThreeChain
<1> HIDE DEF final
<1>8. new \subseteq 0..Len(bs)
  <2>1. Branch(bs, final) = 0..final
    BY <1>7, LinearBranch
  <2>2. 0..final \subseteq 0..Len(bs)
    BY <1>7
  <2> QED BY <2>1, <2>2 DEF NotExecuted
<1> HIDE DEF new
<1>9. commands \subseteq Command /\ \A x \in commands : x.seq <= u.submitted[x.client]
  <2>1. commands \subseteq Command
    BY <1>1, <1>8
  <2>2. ASSUME NEW n \in new, NEW x \in CommandsOf(bs, n) PROVE x.seq <= s.submitted[x.client]
    <3>1. n \in 1..Len(bs) /\ x \in bs[n].commands
      BY <1>8, <2>2 DEF CommandsOf
    <3> QED BY <3>1 DEF Ordered
  <2> QED BY <1>6, <2>1, <2>2 DEF SamePool
<1> HIDE DEF commands
<1>10. SamePool(u, Committed(u, commands)) /\ Committed(u, commands) \in Core
  <2>1. \A c \in Client : u.pending[c] = 0 \/ u.pending[c] > u.submitted[c]
    BY <1>6 DEF SamePool, Ordered
  <2> QED BY <1>6, <1>9, <2>1, CommittedOrdered, CommittedSame DEF SameChain
<1>11. SamePool(s, v)
  <2>1. v = [Committed(u, commands) EXCEPT !.finalized = @ \o Ascending(new)]
    BY DEF OnCommit, v, commands, new
  <2>2. v.pending = Committed(u, commands).pending /\ v.submitted = Committed(u, commands).submitted
    BY <1>10, <2>1 DEF Core
  <2> HIDE DEF v
  <2> QED BY <1>6, <1>10, <2>2 DEF SamePool
<1>12. \E w : v = [w EXCEPT !.finalized = @ \o Ascending(new)] /\ w \in Core
  BY <1>10 DEF OnCommit, v, commands, new
<1>13. Proposed(bs, s, b) = [v EXCEPT !.executed = final]
  BY DEF Proposed, Update, v, final, u, t, b1, b2, b3, e
<1> HIDE DEF v
<1>14. SamePool(v, [v EXCEPT !.executed = final])
  <2>1. PICK w \in Core : v = [w EXCEPT !.finalized = @ \o Ascending(new)]
    BY <1>12
  <2> QED BY <2>1 DEF SamePool, Core
<1> QED BY <1>11, <1>13, <1>14 DEF SamePool

(* When the leader beats with core s, whose pool is in order, all stays in order.    *)
LEMMA BeatOrdered ==
  ASSUME TypeInv, Linear(blocks), Linear(blocks)', TypeInv', Rising(blocks),
         NEW s, Chain(s), s.voteHeight \in 0..Len(blocks), Ordered(blocks, s),
         NEW in, NEW scr, NEW par, LeaderBeat(s, in, scr, par)
  PROVE  OrderInv'
<1>1. /\ s \in Core /\ s.executed \in 0..Len(blocks) /\ Len(blocks) \in Nat
      /\ blocks \in Seq(BlockType) /\ blocks' \in Seq(BlockType)
  <2>1. s \in Core /\ s.executed \in 0..Len(blocks)
    BY DEF Chain, Back
  <2> QED BY <2>1 DEF TypeInv
<1>2. \A x : core' = [core EXCEPT ![Leader] = x] => core'[Leader] = x
  BY ReplicaFacts DEF TypeInv
<1>3. CASE core' = [core EXCEPT ![Leader] = s] /\ blocks' = blocks
  BY <1>2, <1>3 DEF OrderInv
<1>4. ASSUME NEW batch \in Batches(s), Propose(Closed(s, batch), batch, in, scr, par)
      PROVE  OrderInv'
  <2> DEFINE t == Closed(s, batch)
  <2>1. \A x \in batch : /\ x.client \in Client /\ x.seq = s.pending[x.client] /\ x.seq # 0
                         /\ x = [client |-> x.client, seq |-> s.pending[x.client]]
    BY DEF Batches, PoolCommands
  <2>2. /\ s.pending \in [Client -> Nat] /\ s.submitted \in [Client -> Nat]
        /\ \A c \in Client : s.pending[c] = 0 \/ s.pending[c] > s.submitted[c]
        /\ \A i \in 1..Len(blocks) : \A x \in blocks[i].commands :
             x \in Command /\ x.client \in Client /\ x.seq \in Nat
             /\ x.seq <= s.submitted[x.client]
    <3>1. s.pending \in [Client -> Nat] /\ s.submitted \in [Client -> Nat]
      BY <1>1, BoundAssumption DEF Core, Pool
    <3>2. \A i \in 1..Len(blocks) : blocks[i].commands \subseteq Command
      <4>1. \A i \in 1..Len(blocks) : blocks[i] \in BlockType
        BY <1>1
      <4> QED BY <4>1 DEF BlockType
    <3> QED BY <3>1, <3>2 DEF Ordered, Command
  <2>3. \A c \in Client :
          /\ (\E x \in batch : x.client = c) =>
               t.pending[c] = 0 /\ t.submitted[c] = s.pending[c]
          /\ ~(\E x \in batch : x.client = c) =>
               t.pending[c] = s.pending[c] /\ t.submitted[c] = s.submitted[c]
    <3> DEFINE clients == {x.client : x \in batch}
               pend == [c \in Client |-> IF c \in clients THEN 0 ELSE s.pending[c]]
               subm == [c \in Client |-> IF c \in clients THEN s.pending[c] ELSE s.submitted[c]]
    <3>1. t = [s EXCEPT !.pending = pend, !.submitted = subm]
      BY DEF Closed
    <3> HIDE DEF t
    <3>2. t.pending = pend /\ t.submitted = subm
      <4> HIDE DEF pend, subm
      <4> QED BY <1>1, <3>1 DEF Core
    <3>3. \A c \in Client : c \in clients <=> \E x \in batch : x.client = c
      OBVIOUS
    <3> HIDE DEF clients
    <3> QED BY <3>2, <3>3
  <2>4. t \in Core /\ t.executed = s.executed
    BY <1>1, ClosedSame DEF SameChain
  <2> HIDE DEF t
  <2>5. Ordered(blocks, t)
    <3>1. \A c \in Client : t.pending[c] = 0 \/ t.pending[c] > t.submitted[c]
      BY <2>2, <2>3
    <3>2. \A c \in Client : s.submitted[c] <= t.submitted[c] /\ t.submitted[c] \in Nat
      BY <2>1, <2>2, <2>3
    <3>3. \A i \in 1..Len(blocks) : \A x \in blocks[i].commands : x.seq <= t.submitted[x.client]
      BY <2>2, <3>2
    <3> QED BY <3>1, <3>3 DEF Ordered
  <2>6. CASE core' = [core EXCEPT ![Leader] = t] /\ blocks' = blocks
    BY <1>2, <2>5, <2>6 DEF OrderInv
  <2>7. ASSUME NEW block, block.commands = batch, blocks' = Append(blocks, block),
               core' = [core EXCEPT ![Leader] = Proposed(blocks', t, Len(blocks) + 1)]
        PROVE  OrderInv'
    <3> DEFINE b == Len(blocks) + 1
    <3>1. Len(blocks') = b /\ blocks'[b].commands = batch
          /\ \A i \in 1..Len(blocks) : blocks'[i] = blocks[i]
      BY <1>1, <2>7
    <3>2. \A i \in 1..Len(blocks') : i \in 1..Len(blocks) \/ i = b
      BY <1>1, <3>1
    <3>3. \A x \in batch : /\ x.seq = t.submitted[x.client] /\ x.seq \in Nat
                           /\ x.seq > s.submitted[x.client]
      BY <2>1, <2>2, <2>3
    <3>4. Ordered(blocks', t)
      <4>1. \A i \in 1..Len(blocks') : \A x \in blocks'[i].commands : x.seq <= t.submitted[x.client]
        BY <2>5, <3>1, <3>2, <3>3 DEF Ordered
      <4> QED BY <2>5, <4>1 DEF Ordered
    <3>5. SamePool(t, core'[Leader])
      <4>1. b \in 0..Len(blocks') /\ t.executed \in 0..Len(blocks')
        BY <1>1, <2>4, <3>1
      <4>2. Linear(blocks')
        BY DEF Linear
      <4>3. core'[Leader] = Proposed(blocks', t, b)
        BY <1>2, <2>7
      <4> QED BY <1>1, <2>4, <3>4, <4>1, <4>2, <4>3, ProposedOrdered
    <3>6. Rising(blocks')
      <4> SUFFICES ASSUME NEW i \in 1..Len(blocks'), NEW j \in 1..Len(blocks'),
                          NEW x \in blocks'[i].commands, NEW y \in blocks'[j].commands,
                          x.client = y.client
                   PROVE  (i < j => x.seq < y.seq) /\ (i = j => x = y)
        BY DEF Rising
      <4>1. CASE i \in 1..Len(blocks) /\ j \in 1..Len(blocks)
        BY <3>1, <4>1 DEF Rising
      <4>2. CASE i \in 1..Len(blocks) /\ j = b
        <5>1. x \in blocks[i].commands /\ y \in batch
          BY <3>1, <4>2
        <5>2. /\ x.seq <= s.submitted[x.client] /\ x.seq \in Nat /\ x.client \in Client
              /\ y.seq \in Nat /\ y.seq > s.submitted[y.client]
          BY <2>2, <3>3, <4>2, <5>1
        <5>3. i # j /\ s.submitted[x.client] \in Nat
          BY <1>1, <2>2, <4>2, <5>2
        <5> QED BY <5>2, <5>3
      <4>3. CASE i = b /\ j \in 1..Len(blocks)
        BY <1>1, <4>3
      <4>4. CASE i = b /\ j = b
        BY <2>1, <3>1, <4>4
      <4> QED BY <3>2, <4>1, <4>2, <4>3, <4>4
    <3> QED BY <3>4, <3>5, <3>6 DEF OrderInv, Ordered, Rising, SamePool
  <2>8. \/ core' = [core EXCEPT ![Leader] = t] /\ blocks' = blocks
        \/ \E block : /\ block.commands = batch /\ blocks' = Append(blocks, block)
                      /\ core' = [core EXCEPT ![Leader] = Proposed(blocks', t, Len(blocks) + 1)]
    BY <1>4 DEF Propose, t
  <2> QED BY <2>6, <2>7, <2>8
<1> QED BY <1>3, <1>4 DEF LeaderBeat

LEMMA OrderStep ==
  ASSUME HotStuffInv, HotStuffInv', OrderInv, [Next]_vars PROVE OrderInv'
<1>1. /\ TypeInv /\ TypeInv' /\ Linear(blocks) /\ Linear(blocks)'
      /\ Chain(core[Leader]) /\ core[Leader].voteHeight \in 0..Len(blocks)
      /\ core[Leader] \in Core /\ Rising(blocks) /\ Ordered(blocks, core[Leader])
  <2>1. Chain(core[Leader]) /\ core[Leader].voteHeight = Len(blocks) /\ Len(blocks) \in Nat
    BY DEF HotStuffInv, LeaderOK, TypeInv
  <2>2. core[Leader] \in Core
    BY <2>1 DEF Chain
  <2>3. TypeInv /\ TypeInv' /\ Linear(blocks) /\ Linear(blocks)'
    BY DEF HotStuffInv
  <2> QED BY <2>1, <2>2, <2>3 DEF OrderInv
<1>2. CASE core'[Leader] = core[Leader] /\ blocks' = blocks
  BY <1>2 DEF OrderInv, Ordered, Rising
<1>3. ASSUME NEW r \in Backup, NEW b \in DOMAIN blocks, ReceiveVote(b, r) PROVE OrderInv'
  <2>1. CASE UNCHANGED <<core, blocks>>
    BY <1>2, <2>1
  <2> DEFINE s == UpdateQuorumCertHigh(blocks, core[Leader], b)
  <2>2. ASSUME NEW in, NEW scr, NEW par, LeaderBeat(s, in, scr, par) PROVE OrderInv'
    <3>1. Chain(s) /\ s.voteHeight = core[Leader].voteHeight /\ SamePool(core[Leader], s)
      <4>1. b \in Nat
        BY <1>1 DEF TypeInv
      <4>2. \/ s = core[Leader]
            \/ s = [core[Leader] EXCEPT !.qcHigh = b, !.leaf = b]
        BY DEF UpdateQuorumCertHigh
      <4> HIDE DEF s
      <4>3. /\ s \in Core /\ s.nodes = core[Leader].nodes /\ s.lock = core[Leader].lock
            /\ s.executed = core[Leader].executed /\ s.finalized = core[Leader].finalized
            /\ s.voteHeight = core[Leader].voteHeight /\ SamePool(core[Leader], s)
        BY <1>1, <4>1, <4>2 DEF Core, SamePool
      <4> QED BY <1>1, <4>3 DEF Chain
    <3>2. Ordered(blocks, s)
      BY <1>1, <3>1 DEF Ordered, SamePool
    <3> HIDE DEF s
    <3> QED BY <1>1, <2>2, <3>1, <3>2, BeatOrdered
  <2> HIDE DEF s
  <2>3. UNCHANGED <<core, blocks>> \/ \E in, scr, par : LeaderBeat(s, in, scr, par)
    BY <1>3 DEF ReceiveVote, s
  <2> QED BY <2>1, <2>2, <2>3
<1>4. ASSUME NEW command \in Command, RequestLeader(command) PROVE OrderInv'
  <2> DEFINE s == Pushed(core[Leader], command)
  <2>1. SameChain(core[Leader], s)
    BY <1>1, PushedSame
  <2>2. Ordered(blocks, s)
    <3> DEFINE c == command.client
               new == [core[Leader].pending EXCEPT ![c] = command.seq]
    <3>1. c \in Client /\ core[Leader].pending \in [Client -> 0..MaxSeq]
      BY <1>1 DEF Command, Core, Pool
    <3>2. CASE s = core[Leader]
      BY <1>1, <3>2
    <3>3. CASE command.seq > core[Leader].submitted[c] /\ s = [core[Leader] EXCEPT !.pending = new]
      <4> HIDE DEF s
      <4>1. s.submitted = core[Leader].submitted /\ s.pending = new
        BY <1>1, <3>3 DEF Core
      <4>2. \A d \in Client : s.pending[d] = IF d = c THEN command.seq ELSE core[Leader].pending[d]
        BY <3>1, <4>1
      <4> HIDE DEF new, c
      <4> QED BY <1>1, <3>3, <4>1, <4>2 DEF Ordered
    <3> QED BY <3>2, <3>3 DEF Pushed
  <2>3. Chain(s) /\ s.voteHeight = core[Leader].voteHeight
    <3> HIDE DEF s
    <3> QED BY <1>1, <2>1 DEF SameChain, Chain
  <2>4. LeaderBeat(s, network, scratches, partials)
    BY <1>4 DEF RequestLeader
  <2> HIDE DEF s
  <2> QED BY <1>1, <2>2, <2>3, <2>4, BeatOrdered
<1>5. ASSUME NEW r \in Backup, \/ ReceiveSupply(r)
                               \/ \E b \in DOMAIN blocks : ReceiveGeneric(r, b)
                               \/ \E command \in Command : RequestBackup(r, command)
      PROVE  OrderInv'
  <2>1. blocks' = blocks
    BY <1>5 DEF ReceiveSupply, ReceiveGeneric, RequestBackup
  <2>2. UNCHANGED core \/ \E x : core' = [core EXCEPT ![r] = x]
    BY <1>5 DEF ReceiveSupply, ReceiveGeneric, RequestBackup, Vote
  <2>3. core'[Leader] = core[Leader]
    BY <1>1, <2>2, ReplicaFacts DEF TypeInv
  <2> QED BY <1>2, <2>1, <2>3
<1>6. CASE UNCHANGED vars
  BY <1>2, <1>6 DEF vars
<1> QED BY <1>3, <1>4, <1>5, <1>6 DEF Next

(* Each command of a client is finalized at most once, after those before it, however *)
(* often requests arrive and at which replica.                                     *)
THEOREM HotStuffClientOrder == Spec => []ClientOrder
<1>1. Init => OrderInv
  <2> SUFFICES ASSUME Init PROVE OrderInv
    OBVIOUS
  <2>1. Len(blocks) = 0 /\ core[Leader] = InitCore
    BY ReplicaFacts DEF Init
  <2> QED BY <2>1 DEF OrderInv, Ordered, Rising, InitCore
<1>2. HotStuffInv /\ HotStuffInv' /\ OrderInv /\ [Next]_vars => OrderInv'
  BY OrderStep
<1>3. ASSUME HotStuffInv, OrderInv PROVE ClientOrder
  <2> SUFFICES ASSUME NEW r \in Correct,
                      NEW j \in DOMAIN core[r].finalized, NEW k \in DOMAIN core[r].finalized,
                      NEW x \in CommandsOf(blocks, core[r].finalized[j]),
                      NEW y \in CommandsOf(blocks, core[r].finalized[k]),
                      x.client = y.client, j <= k, <<j, x>> # <<k, y>>
               PROVE  j < k /\ x.seq < y.seq
    BY DEF ClientOrder
  <2> DEFINE m == Back(Top(r), 3)
  <2>1. /\ m \in 0..Len(blocks) /\ core[r].finalized = [i \in 1..m |-> i] /\ Len(blocks) \in Nat
    <3>1. /\ Len(blocks) \in Nat /\ Top(r) \in Nat /\ Top(r) <= Len(blocks)
          /\ core[r].finalized = [i \in 1..m |-> i]
      BY <1>3, LogFacts DEF LogsOK
    <3> QED BY <3>1 DEF Back
  <2> HIDE DEF m
  <2>2. j \in 1..Len(blocks) /\ k \in 1..Len(blocks)
        /\ core[r].finalized[j] = j /\ core[r].finalized[k] = k
    BY <2>1
  <2>3. x \in blocks[j].commands /\ y \in blocks[k].commands
    BY <2>2 DEF CommandsOf
  <2>4. (j < k => x.seq < y.seq) /\ (j = k => x = y)
    BY <1>3, <2>2, <2>3 DEF OrderInv, Rising
  <2> QED BY <2>2, <2>4
<1> QED BY <1>1, <1>2, <1>3, HotStuffInvariant, PTL DEF Spec

-----------------------------------------------------------------------------
(* How long the leader keeps proposing. num_extra_round tells how far behind the last *)
(* block with commands is, as long as that block is not final; and when the leader    *)
(* has its certificate and does not beat, there is nothing left to make final.       *)
RoundsLeft ==
  /\ extra \in 0..3
  /\ \A i \in 1..Len(blocks) : blocks[i].commands # {} => i <= Len(blocks) - 3 + extra
  /\ extra # 0 => /\ Len(blocks) - 3 + extra \in 1..Len(blocks)
                  /\ blocks[Len(blocks) - 3 + extra].commands # {}

Rests ==
  core[Leader].qcHigh = core[Leader].leaf =>
    extra = 0 /\ PoolCommands(core[Leader].pending) = {}

RoundsInv == NoWastedRounds /\ (fallback \/ (RoundsLeft /\ Rests))

LEMMA BatchOfReady ==
  ASSUME NEW s, NEW batch \in Batches(s), batch = {} PROVE PoolCommands(s.pending) = {}
<1>1. Cardinality(batch) = 0
  BY FS_EmptySet
<1> QED BY <1>1, BoundAssumption DEF Batches

(* A block with commands starts three rounds, and an empty one takes one of them.     *)
LEMMA AppendRounds ==
  ASSUME blocks \in Seq(BlockType), NoWastedRounds, RoundsLeft,
         NEW block, NEW batch, block.commands = batch, blocks' = Append(blocks, block),
         extra' = ExtraAfter(batch), batch = {} => extra > 0
  PROVE  NoWastedRounds' /\ RoundsLeft'
<1> DEFINE L == Len(blocks)
<1>1. /\ L \in Nat /\ DOMAIN blocks = 1..L /\ Len(blocks') = L + 1 /\ DOMAIN blocks' = 1..(L + 1)
      /\ blocks'[L + 1].commands = batch
      /\ \A i \in 1..L : blocks'[i] = blocks[i]
  OBVIOUS
<1> HIDE DEF L
<1>2. /\ extra \in 0..3
      /\ \A i \in 1..L : blocks[i].commands # {} => i <= L - 3 + extra
      /\ extra # 0 => L - 3 + extra \in 1..L /\ blocks[L - 3 + extra].commands # {}
  BY DEF RoundsLeft, L
<1>3. \A i \in 1..(L + 1) : i \in 1..L \/ i = L + 1
  BY <1>1
<1>4. CASE batch # {}
  <2>1. extra' = 3 /\ (L + 1) - 3 + 3 = L + 1
    BY <1>1, <1>4 DEF ExtraAfter
  <2>2. RoundsLeft'
    <3>1. \A i \in 1..(L + 1) : i <= (L + 1) - 3 + 3
      BY <1>1
    <3> QED BY <1>1, <1>4, <2>1, <3>1 DEF RoundsLeft
  <2>3. NoWastedRounds'
    <3> SUFFICES ASSUME NEW i \in 1..(L + 1), blocks'[i].commands = {}
                 PROVE  \E j \in (i - 3)..(i - 1) : j > 0 /\ blocks'[j].commands # {}
      BY <1>1 DEF NoWastedRounds
    <3>1. i \in 1..L
      BY <1>1, <1>3, <1>4
    <3>2. PICK j \in (i - 3)..(i - 1) : j > 0 /\ blocks[j].commands # {}
      BY <1>1, <3>1 DEF NoWastedRounds
    <3>3. j \in 1..L
      BY <1>1, <3>1, <3>2
    <3> QED BY <1>1, <3>2, <3>3
  <2> QED BY <2>2, <2>3
<1>5. CASE batch = {}
  <2> DEFINE k == L - 3 + extra
  <2>1. /\ extra > 0 /\ extra' = extra - 1 /\ k \in 1..L /\ blocks[k].commands # {}
        /\ (L + 1) - 3 + extra' = k /\ extra' \in 0..3
        /\ k \in ((L + 1) - 3)..((L + 1) - 1)
    BY <1>1, <1>2, <1>5 DEF ExtraAfter
  <2>2. RoundsLeft'
    <3>1. \A i \in 1..(L + 1) : blocks'[i].commands # {} => i <= k
      BY <1>1, <1>2, <1>3, <1>5
    <3>2. k \in 1..(L + 1) /\ blocks'[k].commands # {}
      BY <1>1, <2>1
    <3> HIDE DEF k
    <3> QED BY <1>1, <2>1, <3>1, <3>2 DEF RoundsLeft
  <2>3. NoWastedRounds'
    <3> SUFFICES ASSUME NEW i \in 1..(L + 1), blocks'[i].commands = {}
                 PROVE  \E j \in (i - 3)..(i - 1) : j > 0 /\ blocks'[j].commands # {}
      BY <1>1 DEF NoWastedRounds
    <3>1. CASE i = L + 1
      <4>1. k > 0 /\ blocks'[k].commands # {}
        BY <1>1, <2>1
      <4> HIDE DEF k
      <4> QED BY <2>1, <3>1, <4>1
    <3>2. CASE i \in 1..L
      <4>1. PICK j \in (i - 3)..(i - 1) : j > 0 /\ blocks[j].commands # {}
        BY <1>1, <3>2 DEF NoWastedRounds
      <4>2. j \in 1..L
        BY <1>1, <3>2, <4>1
      <4> QED BY <1>1, <4>1, <4>2
    <3> QED BY <1>3, <3>1, <3>2
  <2> QED BY <2>2, <2>3
<1> QED BY <1>4, <1>5

LEMMA BeatRounds ==
  ASSUME HotStuffInv', TypeInv, NoWastedRounds, RoundsLeft,
         NEW s, NEW in, NEW scr, NEW par, LeaderBeat(s, in, scr, par)
  PROVE  RoundsInv'
<1>1. /\ blocks \in Seq(BlockType) /\ extra \in 0..3
      /\ \A x : core' = [core EXCEPT ![Leader] = x] => core'[Leader] = x
  BY ReplicaFacts DEF TypeInv, RoundsLeft
<1>2. CASE ~(s.qcHigh = s.leaf /\ (PoolCommands(s.pending) # {} \/ extra > 0))
  <2>1. core'[Leader] = s /\ blocks' = blocks /\ extra' = extra
    BY <1>1, <1>2 DEF LeaderBeat
  <2>2. Rests'
    BY <1>1, <1>2, <2>1 DEF Rests
  <2> QED BY <2>1, <2>2 DEF RoundsInv, NoWastedRounds, RoundsLeft
<1>3. CASE s.qcHigh = s.leaf /\ (PoolCommands(s.pending) # {} \/ extra > 0)
  <2>1. PICK batch \in Batches(s) : Propose(Closed(s, batch), batch, in, scr, par)
    BY <1>3 DEF LeaderBeat
  <2>2. batch = {} => extra > 0
    BY <1>3, <2>1, BatchOfReady
  <2>3. extra' = ExtraAfter(batch)
    BY <2>1 DEF Propose
  <2>4. CASE fallback' /\ blocks' = blocks
    BY <2>4 DEF RoundsInv, NoWastedRounds
  <2>5. ASSUME NEW block, block.commands = batch, blocks' = Append(blocks, block),
               scratches' = scr \cup {Len(blocks) + 1}
        PROVE  RoundsInv'
    <3>1. NoWastedRounds' /\ RoundsLeft'
      BY <1>1, <2>2, <2>3, <2>5, AppendRounds
    <3>2. core'[Leader].qcHigh # core'[Leader].leaf
      <4>1. LeaderOK(core[Leader], scratches)'
        BY DEF HotStuffInv
      <4>2. scratches' # {}
        BY <2>5
      <4> QED BY <4>1, <4>2 DEF LeaderOK
    <3> QED BY <3>1, <3>2 DEF RoundsInv, Rests
  <2>6. \/ fallback' /\ blocks' = blocks
        \/ \E block : /\ block.commands = batch /\ blocks' = Append(blocks, block)
                      /\ scratches' = scr \cup {Len(blocks) + 1}
    BY <2>1 DEF Propose
  <2> QED BY <2>4, <2>5, <2>6
<1> QED BY <1>2, <1>3

LEMMA RoundsStep ==
  ASSUME HotStuffInv, HotStuffInv', RoundsInv, [Next]_vars PROVE RoundsInv'
<1>1. TypeInv /\ core \in [Correct -> Core]
  BY DEF HotStuffInv, TypeInv
<1>2. CASE core'[Leader] = core[Leader] /\ UNCHANGED <<blocks, extra>> /\ (fallback => fallback')
  BY <1>2 DEF RoundsInv, NoWastedRounds, RoundsLeft, Rests
<1>3. ASSUME NEW s, NEW in, NEW scr, NEW par, LeaderBeat(s, in, scr, par), ~fallback
      PROVE  RoundsInv'
  BY <1>1, <1>3, BeatRounds DEF RoundsInv
<1>4. ASSUME NEW r \in Backup, NEW b \in DOMAIN blocks, ReceiveVote(b, r) PROVE RoundsInv'
  <2>1. /\ ~fallback
        /\ \/ UNCHANGED <<blocks, core, extra>>
           \/ \E s, in, scr, par : LeaderBeat(s, in, scr, par)
    BY <1>4 DEF ReceiveVote
  <2> QED BY <1>2, <1>3, <2>1
<1>5. ASSUME NEW command \in Command, RequestLeader(command) PROVE RoundsInv'
  <2>1. ~fallback /\ \E s, in, scr, par : LeaderBeat(s, in, scr, par)
    BY <1>5 DEF RequestLeader
  <2> QED BY <1>3, <2>1
<1>6. ASSUME NEW r \in Backup, \/ ReceiveSupply(r)
                               \/ \E b \in DOMAIN blocks : ReceiveGeneric(r, b)
                               \/ \E command \in Command : RequestBackup(r, command)
      PROVE  RoundsInv'
  <2>1. UNCHANGED <<blocks, extra, fallback>>
    BY <1>6 DEF ReceiveSupply, ReceiveGeneric, RequestBackup
  <2>2. UNCHANGED core \/ \E x : core' = [core EXCEPT ![r] = x]
    BY <1>6 DEF ReceiveSupply, ReceiveGeneric, RequestBackup, Vote
  <2>3. core'[Leader] = core[Leader]
    BY <1>1, <2>2, ReplicaFacts
  <2> QED BY <1>2, <2>1, <2>3
<1>7. CASE UNCHANGED vars
  BY <1>2, <1>7 DEF vars
<1> QED BY <1>4, <1>5, <1>6, <1>7 DEF Next

(* The leader proposes empty blocks until all that clients have asked for is final, and  *)
(* no longer: beat of ReplicaCore and its num_extra_round.                             *)
THEOREM HotStuffRounds == Spec => []RoundsAsNeeded
<1>1. Init => RoundsInv
  <2> SUFFICES ASSUME Init PROVE RoundsInv
    OBVIOUS
  <2>1. blocks = <<>> /\ extra = 0 /\ core[Leader] = InitCore /\ Len(blocks) = 0
    BY ReplicaFacts DEF Init
  <2>2. PoolCommands(InitCore.pending) = {}
    BY DEF InitCore, PoolCommands
  <2>3. NoWastedRounds
    BY <2>1 DEF NoWastedRounds
  <2>4. RoundsLeft /\ Rests
    BY <2>1, <2>2 DEF RoundsLeft, Rests
  <2> QED BY <2>3, <2>4 DEF RoundsInv
<1>2. HotStuffInv /\ HotStuffInv' /\ RoundsInv /\ [Next]_vars => RoundsInv'
  BY RoundsStep
<1>3. ASSUME HotStuffInv, RoundsInv PROVE RoundsAsNeeded
  <2> SUFFICES ASSUME core[Leader].qcHigh = core[Leader].leaf, ~fallback
               PROVE  /\ PoolCommands(core[Leader].pending) = {}
                      /\ \A i \in DOMAIN blocks : blocks[i].commands \subseteq FinalizedCommands(Leader)
    BY <1>3 DEF RoundsAsNeeded, RestsWhenDone, RoundsInv
  <2> DEFINE L == Len(blocks)
             log == core[Leader].finalized
  <2>1. /\ L \in Nat /\ DOMAIN blocks = 1..L
        /\ log = [i \in 1..Back(L, 3) |-> i]
    <3>1. blocks \in Seq(BlockType)
      BY <1>3 DEF HotStuffInv, TypeInv
    <3>2. LogsOK
      BY <1>3, LogFacts
    <3> QED BY <3>1, <3>2, ReplicaFacts DEF LogsOK
  <2>2. extra = 0 /\ PoolCommands(core[Leader].pending) = {} /\ RoundsLeft
    BY <1>3 DEF RoundsInv, Rests
  <2>3. ASSUME NEW i \in 1..L PROVE blocks[i].commands \subseteq FinalizedCommands(Leader)
    <3>1. CASE blocks[i].commands = {}
      BY <3>1
    <3>2. CASE blocks[i].commands # {}
      <4>1. i <= L - 3
        BY <2>1, <2>2, <3>2 DEF RoundsLeft
      <4>2. i \in 1..Back(L, 3) /\ i # 0
        BY <2>1, <4>1 DEF Back
      <4>3. i \in ToSet(log)
        BY <2>1, <4>2 DEF ToSet
      <4>4. CommandsOf(blocks, i) = blocks[i].commands
        BY <4>2 DEF CommandsOf
      <4> QED BY <4>3, <4>4 DEF FinalizedCommands
    <3> QED BY <3>1, <3>2
  <2> QED BY <2>1, <2>2, <2>3
<1> QED BY <1>1, <1>2, <1>3, HotStuffInvariant, PTL DEF Spec

-----------------------------------------------------------------------------
(* Where the nonces of a replica are. Those of a backup are in stock, on their way to   *)
(* the leader, or reserved for a block it has not signed; and it has some. Those of the *)
(* leader that a refill has dropped from its stock are fewer than the threshold, so that *)
(* the next refill comes before the stock is empty.                                 *)
InSupply(r, x) == \E m \in network : m.type = "Supply" /\ m.from = r /\ x \in m.nonces
Unsigned(r, x) ==
  \E b \in 1..Len(blocks) : Reserves(b, r) /\ b > Top(r) /\ blocks[b].reserved[r] = x

Supplied(r) ==
  /\ nonces[r] # {}
  /\ \A x \in nonces[r] : x \in stock[r] \/ InSupply(r, x) \/ Unsigned(r, x)

LeaderSupplied ==
  /\ stock[Leader] # {}
  /\ Cardinality(nonces[Leader] \ stock[Leader]) < RefillThreshold

QuorumReserved == \A b \in 1..Len(blocks) : Cardinality(DOMAIN blocks[b].reserved) <= QuorumSize

SupplyInv ==
  /\ QuorumReserved
  /\ (\A r \in Backup : Supplied(r)) /\ LeaderSupplied
  /\ fallback => \E m \in network : m.type = "Supply"

(* The first q members of a set, or all of it.                                  *)
LEMMA FirstMembers ==
  ASSUME NEW n \in Nat, NEW S \in SUBSET (0..n), NEW q \in Nat,
         NEW F, F = {r \in S : Cardinality({p \in S : p < r}) < q}
  PROVE  Cardinality(F) <= q /\ (Cardinality(F) < q => F = S)
<1> DEFINE below(r) == {p \in S : p < r}
<1>1. IsFiniteSet(S) /\ IsFiniteSet(F) /\ F \in SUBSET (0..n)
  <2>1. IsFiniteSet(0..n)
    BY FS_Interval
  <2> QED BY <2>1, FS_Subset
<1>2. \A r : IsFiniteSet(below(r)) /\ Cardinality(below(r)) \in Nat
  BY <1>1, FS_Subset, FS_CardinalityType
<1>3. Cardinality(F) <= q
  <2>1. CASE F = {}
    <3>1. Cardinality(F) = 0
      BY <1>1, <2>1, FS_EmptySet
    <3> QED BY <3>1
  <2>2. CASE F # {}
    <3>1. PICK m \in F : \A y \in F : y <= m
      BY <1>1, <2>2, MaxExists
    <3>2. m \in S /\ Cardinality(below(m)) < q
      BY <3>1
    <3>3. F \subseteq below(m) \cup {m}
      <4> SUFFICES ASSUME NEW y \in F, y # m PROVE y \in S /\ y < m
        OBVIOUS
      <4>1. y \in 0..n /\ m \in 0..n /\ y <= m
        BY <1>1, <3>1
      <4> QED BY <4>1
    <3> HIDE DEF below
    <3>4. IsFiniteSet(below(m) \cup {m}) /\ Cardinality(below(m) \cup {m}) <= Cardinality(below(m)) + 1
      <4>1. \A B : IsFiniteSet(B) => /\ IsFiniteSet(B \cup {m})
                                      /\ Cardinality(B \cup {m}) = IF m \in B THEN Cardinality(B)
                                                                   ELSE Cardinality(B) + 1
        BY FS_AddElement
      <4>2. IsFiniteSet(below(m)) /\ Cardinality(below(m)) \in Nat
        BY <1>2
      <4> QED BY <4>1, <4>2
    <3>5. Cardinality(F) <= Cardinality(below(m) \cup {m}) /\ Cardinality(F) \in Nat
      BY <1>1, <3>3, <3>4, FS_Subset, FS_CardinalityType
    <3>6. Cardinality(below(m) \cup {m}) \in Nat /\ Cardinality(below(m)) \in Nat
      BY <1>2, <3>4, FS_CardinalityType
    <3> QED BY <3>2, <3>4, <3>5, <3>6
  <2> QED BY <2>1, <2>2
<1>4. ASSUME Cardinality(F) < q PROVE F = S
  <2> SUFFICES ASSUME S \ F # {} PROVE FALSE
    OBVIOUS
  <2>1. PICK m \in S \ F : \A y \in S \ F : m <= y
    <3>1. S \ F \in SUBSET (0..n)
      OBVIOUS
    <3> QED BY <3>1, LeastExists
  <2>2. below(m) \subseteq F
    <3> SUFFICES ASSUME NEW y \in S, y < m, y \notin F PROVE FALSE
      OBVIOUS
    <3>1. m <= y /\ y \in 0..n /\ m \in 0..n
      BY <2>1
    <3> QED BY <3>1
  <2>3. ~(Cardinality(below(m)) < q)
    BY <2>1
  <2>4. Cardinality(below(m)) <= Cardinality(F)
    BY <1>1, <2>2, FS_Subset
  <2> HIDE DEF below
  <2>5. Cardinality(below(m)) \in Nat /\ Cardinality(F) \in Nat
    BY <1>1, <1>2, FS_CardinalityType
  <2> QED BY <1>4, <2>3, <2>4, <2>5
<1> QED BY <1>3, <1>4

LEMMA NominatedCount ==
  LET ready == {r \in Replica : stock[r] # {}} IN
  /\ Cardinality(Nominated) <= QuorumSize
  /\ Cardinality(Nominated) < QuorumSize => Nominated = ready
<1> DEFINE ready == {r \in Replica : stock[r] # {}}
<1>1. ready \in SUBSET (0..(NumReplica - 1)) /\ NumReplica - 1 \in Nat
  BY ReplicaAssumption DEF Replica
<1>2. QuorumSize \in Nat
  BY ReplicaFacts
<1>3. Nominated = {r \in ready : Cardinality({p \in ready : p < r}) < QuorumSize}
  BY DEF Nominated
<1> HIDE DEF ready
<1>4. /\ Cardinality(Nominated) <= QuorumSize
      /\ Cardinality(Nominated) < QuorumSize => Nominated = ready
  BY <1>1, <1>2, <1>3, FirstMembers
<1> QED BY <1>4 DEF ready

LEMMA EnoughCorrect ==
  ASSUME Cardinality(Silent) <= NumFaulty PROVE Cardinality(Correct) >= QuorumSize
<1>1. Cardinality(Replica) = NumReplica /\ IsFiniteSet(Replica)
  BY ReplicaAssumption, FS_Interval DEF Replica
<1>2. Replica \cap Silent = Silent
  BY SilentAssumption
<1>3. IsFiniteSet(Silent)
  BY <1>1, <1>2, FS_Subset
<1>4. Cardinality(Correct) = Cardinality(Replica) - Cardinality(Silent)
  BY <1>1, <1>2, FS_Difference DEF Correct
<1>5. Cardinality(Silent) \in Nat
  BY <1>3, FS_CardinalityType
<1> QED BY <1>1, <1>4, <1>5, ReplicaAssumption DEF QuorumSize

(* A backup stays supplied while its nonces, its stock and its supplies do not change.  *)
LEMMA SuppliedSame ==
  ASSUME NEW r, Supplied(r), nonces'[r] = nonces[r], stock'[r] = stock[r],
         \A m \in network : m.type = "Supply" => m \in network',
         \A x : Unsigned(r, x) => Unsigned(r, x)'
  PROVE  Supplied(r)'
<1>1. \A x : InSupply(r, x) => InSupply(r, x)'
  BY DEF InSupply
<1> QED BY <1>1 DEF Supplied

LEMMA UnsignedSame ==
  ASSUME NEW r, blocks' = blocks, Top(r)' = Top(r) PROVE \A x : Unsigned(r, x) => Unsigned(r, x)'
BY DEF Unsigned, Reserves

(* A step that moves no nonces.                                                 *)
LEMMA NoncesSame ==
  ASSUME SupplyInv, UNCHANGED <<blocks, nonces, stock>>, \A r \in Backup : Top(r)' = Top(r),
         \A m \in network : m.type = "Supply" => m \in network',
         fallback' => \E m \in network' : m.type = "Supply"
  PROVE  SupplyInv'
<1>1. QuorumReserved' /\ LeaderSupplied'
  BY DEF SupplyInv, QuorumReserved, LeaderSupplied
<1>2. ASSUME NEW r \in Backup PROVE Supplied(r)'
  BY SuppliedSame, UnsignedSame DEF SupplyInv
<1> QED BY <1>1, <1>2 DEF SupplyInv

(* A beat of a leader that has its certificate: all votes for its last block are in.  *)
LEMMA ProposeSupplied ==
  ASSUME Cardinality(Silent) <= NumFaulty, SupplyInv, ~fallback, RefillThreshold > 0,
         NEW s, NEW in, NEW scr, NEW par, LeaderReady(s, in, scr, par), s.qcHigh = s.leaf,
         \A m \in network : m.type = "Supply" => m \in in,
         NEW batch, Propose(s, batch, in, scr, par)
  PROVE  SupplyInv'
<1> DEFINE ready == {r \in Replica : stock[r] # {}}
           reserved == [r \in Nominated |-> Max(stock[r])]
           block == [parent |-> s.leaf, justify |-> s.qcHigh,
                     height |-> Height(blocks, s.leaf) + 1, commands |-> batch,
                     reserved |-> reserved]
           b == Len(blocks) + 1
           used == {reserved[r] : r \in Nominated \cap {Leader}}
<1>1. /\ TypeInv /\ BackupsOK /\ NoncesOK(network) /\ LeaderOK(s, scr) /\ VotesOK(in, scr, par)
      /\ blocks \in Seq(BlockType) /\ Len(blocks) \in Nat /\ scr = {}
  BY DEF LeaderReady, TypeInv, LeaderOK
<1>2. CASE Cardinality(Nominated) < QuorumSize
  <2>1. /\ core' = [core EXCEPT ![Leader] = s] /\ network' = in
        /\ UNCHANGED <<blocks, nonces, made, stock, failed>>
    BY <1>2 DEF Propose
  <2>2. Nominated = ready /\ Nominated \subseteq Correct
    BY <1>1, <1>2, NominatedCount, NominatedFacts
  <2>3. PICK r \in Correct : stock[r] = {}
    <3>1. Nominated # Correct
      <4>1. Cardinality(Correct) \in Nat
        BY ReplicaFacts, FS_CardinalityType
      <4>2. Cardinality(Correct) >= QuorumSize /\ QuorumSize \in Int
        BY EnoughCorrect, ReplicaFacts
      <4>3. ~(Cardinality(Correct) < QuorumSize)
        BY <4>1, <4>2
      <4> QED BY <1>2, <4>3, Zenon
    <3> QED BY <2>2, <3>1, ReplicaFacts
  <2>4. r \in Backup
    BY <2>3, ReplicaFacts DEF SupplyInv, LeaderSupplied
  <2>5. PICK x \in nonces[r] : InSupply(r, x) \/ Unsigned(r, x)
    BY <2>3, <2>4 DEF SupplyInv, Supplied
  <2>6. ~Unsigned(r, x)
    BY <1>1, <2>4 DEF Unsigned, Reserves, VotesOK
  <2>7. \E m \in in : m.type = "Supply"
    BY <2>5, <2>6 DEF InSupply
  <2>8. \A q \in Backup : Top(q)' = Top(q)
    BY <1>1, <2>1, ReplicaFacts DEF TypeInv, Top
  <2> QED BY <2>1, <2>7, <2>8, NoncesSame
<1>3. CASE ~(Cardinality(Nominated) < QuorumSize)
  <2>1. /\ blocks' = Append(blocks, block)
        /\ \E x : core' = [core EXCEPT ![Leader] = x]
        /\ network' = in \cup {Generic(b, r) : r \in Backup}
        /\ nonces' = [nonces EXCEPT ![Leader] = NoncesAfter(Leader, used)]
        /\ stock' = IF Refills(Leader, used)
                    THEN [StockAfter(reserved) EXCEPT ![Leader] = NewSupply(Leader)]
                    ELSE StockAfter(reserved)
        /\ UNCHANGED fallback
    BY <1>3 DEF Propose
  <2>2. /\ Nominated \subseteq Correct /\ DOMAIN reserved = Nominated
        /\ Len(blocks') = b /\ blocks'[b].reserved = reserved
        /\ \A i \in 1..Len(blocks) : blocks'[i] = blocks[i]
    <3>1. block.reserved = reserved
      OBVIOUS
    <3> HIDE DEF block, reserved
    <3>2. Len(blocks') = b /\ blocks'[b] = block /\ \A i \in 1..Len(blocks) : blocks'[i] = blocks[i]
      BY <1>1, <2>1
    <3>3. DOMAIN reserved = Nominated
      BY DEF reserved
    <3> QED BY <1>1, <3>1, <3>2, <3>3, NominatedFacts
  <2>3. b = Len(blocks) + 1 /\ b \in Nat /\ \A i : i \in 1..b <=> i \in 1..Len(blocks) \/ i = b
    BY <1>1
  <2> HIDE DEF block, reserved, b
  <2>4. QuorumReserved'
    <3> SUFFICES ASSUME NEW i \in 1..b PROVE Cardinality(DOMAIN blocks'[i].reserved) <= QuorumSize
      BY <2>2 DEF QuorumReserved
    <3>1. CASE i = b
      BY <2>2, <3>1, NominatedCount
    <3>2. CASE i # b
      BY <2>2, <2>3, <3>2 DEF SupplyInv, QuorumReserved
    <3> QED BY <3>1, <3>2
  <2>5. \A r \in Replica : StockAfter(reserved)[r] =
          IF r \in Nominated THEN stock[r] \ {reserved[r]} ELSE stock[r]
    BY <2>2 DEF StockAfter
  <2>6. StockAfter(reserved) = [q \in Replica |-> StockAfter(reserved)[q]]
    BY DEF StockAfter
  <2> HIDE DEF used
  <2>7. ASSUME NEW r \in Backup PROVE Supplied(r)'
    <3>1. r \in Correct /\ r \in Replica /\ r # Leader /\ Top(r)' = Top(r)
      BY <1>1, <2>1, ReplicaFacts DEF TypeInv, Top
    <3>2. nonces'[r] = nonces[r] /\ stock'[r] = StockAfter(reserved)[r]
      BY <1>1, <2>1, <2>6, <3>1 DEF TypeInv
    <3>3. ASSUME NEW x, Unsigned(r, x) PROVE Unsigned(r, x)'
      <4>1. PICK i \in 1..Len(blocks) : Reserves(i, r) /\ i > Top(r) /\ blocks[i].reserved[r] = x
        BY <3>3 DEF Unsigned
      <4>2. i \in 1..Len(blocks') /\ blocks'[i] = blocks[i]
        BY <2>2, <2>3
      <4> QED BY <3>1, <4>1, <4>2 DEF Unsigned, Reserves
    <3>4. ASSUME NEW x, r \in Nominated, x = reserved[r] PROVE Unsigned(r, x)'
      <4>1. Top(r) \in Nat /\ Top(r) <= Len(blocks)
        BY <1>1 DEF BackupsOK, BackupCore, Chain, Core, Top
      <4>2. b \in 1..Len(blocks') /\ b > Top(r)
        BY <1>1, <2>2, <2>3, <4>1
      <4> QED BY <2>2, <3>1, <3>4, <4>2 DEF Unsigned, Reserves
    <3>5. \A x : InSupply(r, x) => InSupply(r, x)'
      BY <2>1 DEF InSupply
    <3>6. Supplied(r)
      BY DEF SupplyInv
    <3>7. \A x \in nonces[r] : x \in stock'[r] \/ InSupply(r, x)' \/ Unsigned(r, x)'
      BY <2>5, <3>1, <3>2, <3>3, <3>4, <3>5, <3>6 DEF Supplied
    <3> QED BY <3>2, <3>6, <3>7 DEF Supplied
  <2>8. LeaderSupplied'
    <3>1. /\ stock[Leader] # {} /\ stock[Leader] \subseteq nonces[Leader]
          /\ Cardinality(nonces[Leader] \ stock[Leader]) < RefillThreshold
          /\ nonces[Leader] \subseteq 1..made[Leader] /\ made[Leader] \in Nat
      BY <1>1, ReplicaFacts DEF SupplyInv, LeaderSupplied, NoncesOK, TypeInv
    <3>2. /\ nonces'[Leader] = NoncesAfter(Leader, used)
          /\ stock'[Leader] = IF Refills(Leader, used) THEN NewSupply(Leader)
                              ELSE StockAfter(reserved)[Leader]
      BY <1>1, <2>1, <2>6, ReplicaFacts DEF TypeInv
    <3>3. used = IF Leader \in Nominated THEN {reserved[Leader]} ELSE {}
      BY DEF used
    <3>4. StockAfter(reserved)[Leader] = stock[Leader] \ used
      BY <2>5, <3>3, ReplicaFacts
    <3>5. IsFiniteSet(nonces[Leader] \ used) /\ IsFiniteSet(nonces[Leader] \ stock[Leader])
          /\ Cardinality(nonces[Leader] \ used) \in Nat
      <4>1. IsFiniteSet(1..made[Leader])
        BY <3>1, FS_Interval
      <4> QED BY <3>1, <4>1, FS_Subset, FS_CardinalityType
    <3>6. CASE Refills(Leader, used)
      <4>1. NewSupply(Leader) # {}
        <5>1. made[Leader] + 1 \in NewSupply(Leader)
          BY <3>1, SupplyAssumption DEF NewSupply
        <5> QED BY <5>1
      <4>2. nonces'[Leader] \ stock'[Leader] \subseteq nonces[Leader] \ used
        BY <3>2, <3>6 DEF NoncesAfter
      <4>3. Cardinality(nonces'[Leader] \ stock'[Leader]) <= Cardinality(nonces[Leader] \ used)
            /\ Cardinality(nonces'[Leader] \ stock'[Leader]) \in Nat
        BY <3>5, <4>2, FS_Subset, FS_CardinalityType
      <4>4. Cardinality(nonces[Leader] \ used) < RefillThreshold
        BY <3>6 DEF Refills
      <4> QED BY <3>2, <3>5, <3>6, <4>1, <4>3, <4>4, SupplyAssumption DEF LeaderSupplied
    <3>7. CASE ~Refills(Leader, used)
      <4>1. nonces'[Leader] = nonces[Leader] \ used /\ stock'[Leader] = stock[Leader] \ used
        BY <3>2, <3>4, <3>7 DEF NoncesAfter
      <4>2. (nonces[Leader] \ used) \ (stock[Leader] \ used) \subseteq nonces[Leader] \ stock[Leader]
        OBVIOUS
      <4>3. Cardinality((nonces[Leader] \ used) \ (stock[Leader] \ used)) <=
              Cardinality(nonces[Leader] \ stock[Leader])
            /\ Cardinality((nonces[Leader] \ used) \ (stock[Leader] \ used)) \in Nat
            /\ Cardinality(nonces[Leader] \ stock[Leader]) \in Nat
        BY <3>5, <4>2, FS_Subset, FS_CardinalityType
      <4>4. Cardinality((nonces[Leader] \ used) \ (stock[Leader] \ used)) < RefillThreshold
        BY <3>1, <4>3, SupplyAssumption
      <4>5. stock[Leader] \ used # {}
        <5>1. CASE used = {}
          BY <3>1, <5>1
        <5>2. CASE used # {}
          <6>1. ~(Cardinality(nonces[Leader] \ used) < RefillThreshold)
            BY <3>7, <5>2 DEF Refills
          <6>2. stock[Leader] \ used = {} =>
                  (nonces[Leader] \ used) \ (stock[Leader] \ used) = nonces[Leader] \ used
            OBVIOUS
          <6> QED BY <4>4, <6>1, <6>2
        <5> QED BY <5>1, <5>2
      <4> QED BY <4>1, <4>4, <4>5 DEF LeaderSupplied
    <3> QED BY <3>6, <3>7
  <2> QED BY <2>1, <2>4, <2>7, <2>8 DEF SupplyInv
<1> QED BY <1>2, <1>3

LEMMA BeatSupplied ==
  ASSUME Cardinality(Silent) <= NumFaulty, SupplyInv, ~fallback, RefillThreshold > 0,
         NEW s, NEW in, NEW scr, NEW par, LeaderReady(s, in, scr, par),
         \A m \in network : m.type = "Supply" => m \in in,
         LeaderBeat(s, in, scr, par)
  PROVE  SupplyInv'
<1>1. CASE ~(s.qcHigh = s.leaf /\ (PoolCommands(s.pending) # {} \/ extra > 0))
  <2>1. /\ core' = [core EXCEPT ![Leader] = s] /\ network' = in
        /\ UNCHANGED <<blocks, nonces, stock, fallback>>
    BY <1>1 DEF LeaderBeat
  <2>2. \A q \in Backup : Top(q)' = Top(q)
    BY <2>1, ReplicaFacts DEF LeaderReady, TypeInv, Top
  <2> QED BY <2>1, <2>2, NoncesSame
<1>2. CASE s.qcHigh = s.leaf /\ (PoolCommands(s.pending) # {} \/ extra > 0)
  <2>1. PICK batch \in Batches(s) : Propose(Closed(s, batch), batch, in, scr, par)
    BY <1>2 DEF LeaderBeat
  <2>2. s \in Core
    BY DEF LeaderReady, LeaderOK, Chain
  <2> DEFINE t == Closed(s, batch)
  <2>3. SameChain(s, t)
    BY <2>2, ClosedSame
  <2> HIDE DEF t
  <2>4. LeaderReady(t, in, scr, par) /\ t.qcHigh = t.leaf
    BY <1>2, <2>3, SameLeader DEF LeaderReady, SameChain
  <2>5. Propose(t, batch, in, scr, par)
    BY <2>1 DEF t
  <2> QED BY <2>4, <2>5, ProposeSupplied
<1> QED BY <1>1, <1>2

LEMMA RequestLeaderSupplied ==
  ASSUME Cardinality(Silent) <= NumFaulty, HotStuffInv, SupplyInv, RefillThreshold > 0,
         NEW command \in Command, RequestLeader(command)
  PROVE  SupplyInv'
<1> DEFINE t == Pushed(core[Leader], command)
<1>1. core[Leader] \in Core
  BY DEF HotStuffInv, LeaderOK, Chain
<1>2. SameChain(core[Leader], t)
  BY <1>1, PushedSame
<1> HIDE DEF t
<1>3. LeaderReady(t, network, scratches, partials)
  BY <1>2, SameLeader DEF LeaderReady, HotStuffInv, TypeInv
<1>4. LeaderBeat(t, network, scratches, partials) /\ ~fallback
  BY DEF RequestLeader, t
<1> QED BY <1>3, <1>4, BeatSupplied

(* As no more signers are nominated than a certificate takes, the signatures that are    *)
(* aggregated are those of the nominated signers.                                  *)
LEMMA ReceiveVoteSupplied ==
  ASSUME Cardinality(Silent) <= NumFaulty, HotStuffInv, SupplyInv, RefillThreshold > 0,
         NEW r \in Backup, NEW b \in DOMAIN blocks, ReceiveVote(b, r)
  PROVE  SupplyInv'
<1> DEFINE in == network \ {VoteGeneric(b, r)}
<1>1. \A m \in network : m.type = "Supply" => m \in in
  BY Messages
<1>2. ~fallback
  BY DEF ReceiveVote
<1>3. CASE \E s : LeaderReady(s, in, {}, {}) /\ LeaderBeat(s, in, {}, {})
  BY <1>1, <1>2, <1>3, BeatSupplied
<1>4. CASE /\ UNCHANGED <<blocks, core, nonces, stock>>
           /\ network' = in
           /\ \E signers \in SUBSET DOMAIN blocks[b].reserved :
                fallback' => AddPartial(b, signers) = "Err"
  <2>1. PICK signers \in SUBSET DOMAIN blocks[b].reserved :
               fallback' => AddPartial(b, signers) = "Err"
    BY <1>4
  <2>2. AddPartial(b, signers) # "Err"
    <3> SUFFICES ASSUME ~(Cardinality(signers) < QuorumSize),
                        ~(DOMAIN blocks[b].reserved \subseteq signers)
                 PROVE  FALSE
      BY DEF AddPartial
    <3>1. b \in 1..Len(blocks) /\ blocks[b] \in BlockType
      BY DEF HotStuffInv, TypeInv
    <3>2. IsFiniteSet(DOMAIN blocks[b].reserved)
      <4>1. PICK D \in SUBSET Correct : blocks[b].reserved \in [D -> Nat]
        BY <3>1 DEF BlockType
      <4> QED BY <4>1, ReplicaFacts, FS_Subset
    <3>3. /\ Cardinality(signers) <= Cardinality(DOMAIN blocks[b].reserved)
          /\ Cardinality(signers) = Cardinality(DOMAIN blocks[b].reserved) =>
               signers = DOMAIN blocks[b].reserved
          /\ Cardinality(signers) \in Nat /\ Cardinality(DOMAIN blocks[b].reserved) \in Nat
      BY <3>2, FS_Subset, FS_CardinalityType
    <3>4. Cardinality(DOMAIN blocks[b].reserved) <= QuorumSize
      BY <3>1 DEF SupplyInv, QuorumReserved
    <3> QED BY <3>3, <3>4, ReplicaFacts
  <2>3. \A q \in Backup : Top(q)' = Top(q)
    BY <1>4 DEF Top
  <2> QED BY <1>1, <1>4, <2>1, <2>2, <2>3, NoncesSame
<1> QED BY <1>3, <1>4, VoteOutcome

LEMMA ReceiveSupplySupplied ==
  ASSUME HotStuffInv, SupplyInv, NEW r \in Backup, ReceiveSupply(r)
  PROVE  SupplyInv'
<1>1. PICK m \in network :
        /\ m.type = "Supply" /\ m.from = r
        /\ stock' = [stock EXCEPT ![r] = @ \cup m.nonces]
        /\ network' = network \ {m}
  BY DEF ReceiveSupply
<1>2. UNCHANGED <<blocks, core, nonces, fallback>> /\ ~fallback
  BY DEF ReceiveSupply
<1>3. /\ r \in Replica /\ r # Leader /\ stock'[r] = stock[r] \cup m.nonces
      /\ \A q \in Replica : q # r => stock'[q] = stock[q]
  BY <1>1, ReplicaFacts DEF HotStuffInv, TypeInv
<1>4. QuorumReserved' /\ LeaderSupplied'
  BY <1>2, <1>3, ReplicaFacts DEF SupplyInv, QuorumReserved, LeaderSupplied
<1>5. ASSUME NEW q \in Backup PROVE Supplied(q)'
  <2>1. Supplied(q) /\ q \in Replica
    BY ReplicaFacts DEF SupplyInv
  <2>2. \A x : Unsigned(q, x) => Unsigned(q, x)'
    BY <1>2, UnsignedSame DEF Top
  <2>3. \A x : InSupply(q, x) => InSupply(q, x)' \/ (q = r /\ x \in m.nonces)
    BY <1>1 DEF InSupply
  <2>4. \A x \in nonces[q] : x \in stock'[q] \/ InSupply(q, x)' \/ Unsigned(q, x)'
    BY <1>3, <2>1, <2>2, <2>3 DEF Supplied
  <2> QED BY <1>2, <2>1, <2>4 DEF Supplied
<1> QED BY <1>2, <1>4, <1>5 DEF SupplyInv

LEMMA ReceiveGenericSupplied ==
  ASSUME HotStuffInv, SupplyInv, RefillThreshold > 0,
         NEW r \in Backup, NEW b \in DOMAIN blocks, ReceiveGeneric(r, b)
  PROVE  SupplyInv'
<1>1. UNCHANGED <<blocks, stock, fallback>>
  BY DEF ReceiveGeneric
<1>2. \A m \in network : m.type = "Supply" => m \in network'
  <2>1. network \ {Generic(b, r)} \subseteq network'
    BY DEF ReceiveGeneric, Vote
  <2> QED BY <2>1, Messages
<1>3. fallback' => \E m \in network' : m.type = "Supply"
  BY <1>1, <1>2 DEF SupplyInv
<1>4. r \in Correct /\ r # Leader /\ Backup \subseteq Correct /\ Leader \in Correct
      /\ core \in [Correct -> Core] /\ nonces \in [Correct -> SUBSET Nat]
  BY ReplicaFacts DEF HotStuffInv, TypeInv
<1>5. CASE Parent(blocks, b) \notin core[r].nodes
  <2>1. UNCHANGED <<core, nonces>>
    BY <1>5 DEF ReceiveGeneric
  <2> QED BY <1>1, <1>2, <1>3, <2>1, NoncesSame DEF Top
<1>6. CASE Parent(blocks, b) \in core[r].nodes
  <2>1. PICK used : Signs(r, used)
    BY <1>6, GenericHandledInv
  <2>2. /\ nonces' = [nonces EXCEPT ![r] = NoncesAfter(r, used)]
        /\ \E x : core' = [core EXCEPT ![r] = x]
    BY <1>6, <2>1 DEF Signs, ReceiveGeneric, Vote
  <2>3. /\ nonces'[r] = NoncesAfter(r, used)
        /\ \A q \in Correct : q # r => nonces'[q] = nonces[q] /\ core'[q] = core[q]
    BY <1>4, <2>2
  <2>4. QuorumReserved' /\ LeaderSupplied'
    BY <1>1, <1>4, <2>3 DEF SupplyInv, QuorumReserved, LeaderSupplied
  <2>5. ASSUME NEW q \in Backup, q # r PROVE Supplied(q)'
    <3>1. nonces'[q] = nonces[q] /\ stock'[q] = stock[q] /\ Top(q)' = Top(q) /\ Supplied(q)
      BY <1>1, <1>4, <2>3, <2>5 DEF Top, SupplyInv
    <3> QED BY <1>1, <1>2, <3>1, SuppliedSame, UnsignedSame
  <2>6. Supplied(r)'
    <3>1. Supplied(r) /\ nonces[r] # {} /\ nonces[r] \subseteq 1..made[r] /\ made[r] \in Nat
      BY <1>4 DEF SupplyInv, Supplied, HotStuffInv, NoncesOK, TypeInv
    <3>2. NoncesAfter(r, used) # {}
      <4>1. CASE Refills(r, used)
        <5>1. made[r] + 1 \in NewSupply(r)
          BY <3>1, SupplyAssumption DEF NewSupply
        <5> QED BY <4>1, <5>1 DEF NoncesAfter
      <4>2. CASE ~Refills(r, used)
        <5>1. CASE used = {}
          BY <3>1, <5>1 DEF NoncesAfter
        <5>2. CASE used # {}
          <6>1. ~(Cardinality(nonces[r] \ used) < RefillThreshold)
            BY <4>2, <5>2 DEF Refills
          <6>2. nonces[r] \ used # {}
            BY <6>1, FS_EmptySet
          <6> QED BY <6>2 DEF NoncesAfter
        <5> QED BY <5>1, <5>2
      <4> QED BY <4>1, <4>2
    <3>3. ASSUME NEW x \in nonces'[r] PROVE x \in stock'[r] \/ InSupply(r, x)' \/ Unsigned(r, x)'
      <4>1. CASE x \in NewSupply(r) /\ Refills(r, used)
        <5>1. Supply(r, NewSupply(r)) \in network'
          BY <2>1, <4>1 DEF Signs
        <5>2. \E m \in network' : m.type = "Supply" /\ m.from = r /\ x \in m.nonces
          BY <4>1, <5>1 DEF Supply
        <5> QED BY <5>2 DEF InSupply
      <4>2. CASE x \in nonces[r] \ used
        <5>1. x \in stock[r] \/ InSupply(r, x) \/ Unsigned(r, x)
          BY <3>1, <4>2 DEF Supplied
        <5>2. InSupply(r, x) => InSupply(r, x)'
          BY <1>2 DEF InSupply
        <5>3. ASSUME Unsigned(r, x) PROVE Unsigned(r, x)'
          <6>1. PICK i \in 1..Len(blocks) : Reserves(i, r) /\ i > Top(r) /\ blocks[i].reserved[r] = x
            BY <5>3 DEF Unsigned
          <6>2. ~(i <= Top(r)')
            BY <2>1, <4>2, <6>1 DEF Signs
          <6>3. Top(r)' \in Nat /\ i \in Nat
            <7>1. HotStuffInv'
              BY <1>6, GenericHandledInv
            <7>2. core'[r] \in Core
              BY <1>4, <7>1 DEF HotStuffInv, TypeInv
            <7>3. i \in Nat
              BY DEF HotStuffInv, TypeInv
            <7> QED BY <7>2, <7>3 DEF Core, Top
          <6> QED BY <1>1, <6>1, <6>2, <6>3 DEF Unsigned, Reserves
        <5> QED BY <1>1, <5>1, <5>2, <5>3
      <4> QED BY <2>3, <4>1, <4>2 DEF NoncesAfter
    <3> QED BY <2>3, <3>2, <3>3 DEF Supplied
  <2> QED BY <1>3, <2>4, <2>5, <2>6 DEF SupplyInv
<1> QED BY <1>5, <1>6

LEMMA SupplyStep ==
  ASSUME Cardinality(Silent) <= NumFaulty, RefillThreshold > 0, HotStuffInv, SupplyInv, [Next]_vars
  PROVE  SupplyInv'
<1>1. CASE UNCHANGED vars
  BY <1>1, NoncesSame DEF vars, Top, SupplyInv
<1>2. ASSUME NEW r \in Backup, ReceiveSupply(r) PROVE SupplyInv'
  BY <1>2, ReceiveSupplySupplied
<1>3. ASSUME NEW r \in Backup, NEW b \in DOMAIN blocks, ReceiveGeneric(r, b) PROVE SupplyInv'
  BY <1>3, ReceiveGenericSupplied
<1>4. ASSUME NEW r \in Backup, NEW b \in DOMAIN blocks, ReceiveVote(b, r) PROVE SupplyInv'
  BY <1>4, ReceiveVoteSupplied
<1>5. ASSUME NEW command \in Command, RequestLeader(command) PROVE SupplyInv'
  BY <1>5, RequestLeaderSupplied
<1>6. ASSUME NEW r \in Backup, NEW command \in Command, RequestBackup(r, command)
      PROVE  SupplyInv'
  <2>1. /\ UNCHANGED <<blocks, nonces, stock, network, fallback>>
        /\ \E x : core' = [core EXCEPT ![r] = x]
    BY <1>6 DEF RequestBackup
  <2>2. Top(r)' = Top(r)
    BY <1>6, RequestBackupInv
  <2>3. \A q \in Backup : Top(q)' = Top(q)
    BY <2>1, <2>2, ReplicaFacts DEF HotStuffInv, TypeInv, Top
  <2> QED BY <2>1, <2>3, NoncesSame DEF SupplyInv
<1> QED BY <1>1, <1>2, <1>3, <1>4, <1>5, <1>6 DEF Next

(* As long as no more replicas are silent than num_faulty, the leader is short of signers *)
(* only while a supply is on its way to it: refill_nonces of src/hotstuff/mod.rs makes    *)
(* the next supply in time.                                                        *)
THEOREM HotStuffRunsDry ==
  ASSUME Cardinality(Silent) <= NumFaulty PROVE Spec => []RunsDryOnlyInFlight
<1>1. CASE ~(RefillThreshold > 0)
  <2>1. RunsDryOnlyInFlight
    BY <1>1 DEF RunsDryOnlyInFlight
  <2> QED BY <2>1, PTL
<1>2. CASE RefillThreshold > 0
  <2>1. Init => SupplyInv
    <3> SUFFICES ASSUME Init PROVE SupplyInv
      OBVIOUS
    <3>1. /\ blocks = <<>> /\ nonces = [r \in Correct |-> 1..SupplySize] /\ fallback = FALSE
          /\ stock = [r \in Replica |-> IF r = Leader THEN 1..SupplySize ELSE {}]
          /\ network = {Supply(r, 1..SupplySize) : r \in Backup}
      BY DEF Init
    <3>2. 1 \in 1..SupplySize /\ Leader \in Replica /\ Len(blocks) = 0
      BY <3>1, SupplyAssumption, ReplicaFacts
    <3>3. QuorumReserved
      BY <3>2 DEF QuorumReserved
    <3>4. LeaderSupplied
      <4>1. nonces[Leader] \ stock[Leader] = {} /\ stock[Leader] # {}
        BY <3>1, <3>2, ReplicaFacts
      <4>2. Cardinality(nonces[Leader] \ stock[Leader]) = 0
        BY <4>1, FS_EmptySet
      <4> QED BY <1>2, <4>1, <4>2 DEF LeaderSupplied
    <3>5. ASSUME NEW r \in Backup PROVE Supplied(r)
      <4>1. nonces[r] = 1..SupplySize
        BY <3>1, ReplicaFacts
      <4>2. Supply(r, 1..SupplySize) \in network
        BY <3>1
      <4>3. \A x \in 1..SupplySize : InSupply(r, x)
        BY <4>2 DEF InSupply, Supply
      <4> QED BY <3>2, <4>1, <4>3 DEF Supplied
    <3> QED BY <3>1, <3>3, <3>4, <3>5 DEF SupplyInv
  <2>2. HotStuffInv /\ SupplyInv /\ [Next]_vars => SupplyInv'
    BY <1>2, SupplyStep
  <2>3. SupplyInv => RunsDryOnlyInFlight
    BY DEF SupplyInv, RunsDryOnlyInFlight
  <2> QED BY <2>1, <2>2, <2>3, HotStuffInvariant, PTL DEF Spec
<1> QED BY <1>1, <1>2
=============================================================================
