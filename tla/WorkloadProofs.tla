--------------------------- MODULE WorkloadProofs ---------------------------
(* Proofs about Workload, for any clients, capacities and replicas.           *)
EXTENDS Workload, SequenceTheorems, FiniteSetTheorems, TLAPS

Result == {"none", "right", "wrong"}

TypeInv ==
  /\ loop \in {"CloseLoop", "OpenLoop"} /\ replicated \in BOOLEAN
  /\ phase \in {"starting", "running", "sending", "joining", "done", "failed"}
  /\ turn \in Client /\ receiver \in Client
  /\ invokes \in [Client -> Nat]
  /\ commits \in Seq(Client)
  /\ state \in [Client -> {"selecting", "committing", "exited", "failed"}]
  /\ scratch \in [Client -> Seq([Id -> Result])]
  /\ posed \subseteq Client /\ cut \subseteq Client

(* Wrong results are under the ids of faulty replicas, where no replica poses as    *)
(* another one.                                                                *)
HonestResults ==
  \A c \in Client : \A i \in 1..Len(scratch[c]) : \A q \in Id :
    scratch[c][i][q] = "wrong" => q \in Faulty \/ c \in posed

(* Where the one request of a close loop client can be.                         *)
InCommits(c) == \E k \in 1..Len(commits) : commits[k] = c
Places(c) ==
  BoolToInt(phase = "starting" /\ turn <= c) + BoolToInt(phase = "sending" /\ receiver = c)
    + invokes[c] + Len(scratch[c]) + BoolToInt(state[c] = "committing")
    + BoolToInt(InCommits(c))

(* It is in one place, and once in the commit channel.                          *)
CommitsOnce == \A j, k \in 1..Len(commits) : commits[j] = commits[k] => j = k
Gone(c) == state[c] \in {"exited", "failed"} \/ phase = "failed"
OnePlace == \A c \in Client : Places(c) <= 1 /\ (Places(c) = 0 => Gone(c))

Inflight == \A c \in Client : Len(scratch[c]) <= MaxInflight

(* The inductive invariant. Why clients fail needs both that a close loop client   *)
(* has no second request, and whose wrong results are.                           *)
WorkloadInv ==
  /\ TypeInv
  /\ HonestResults
  /\ loop = "CloseLoop" => CommitsOnce /\ OnePlace
  /\ loop = "OpenLoop" => Inflight
  /\ ClientsFailForReason

-----------------------------------------------------------------------------
(* Sequences of which one element is removed.                                   *)
LEMMA RemovedAt ==
  ASSUME NEW S, NEW s \in Seq(S), NEW i \in 1..Len(s)
  PROVE  /\ RemoveAt(s, i) \in Seq(S)
         /\ Len(RemoveAt(s, i)) = Len(s) - 1
         /\ \A j \in 1..(Len(s) - 1) : RemoveAt(s, i)[j] = IF j < i THEN s[j] ELSE s[j + 1]
<1> DEFINE a == SubSeq(s, 1, i - 1)
           b == SubSeq(s, i + 1, Len(s))
           n == Len(s)
<1>0. n \in Nat /\ i \in 1..n /\ \A j \in 1..n : s[j] \in S
  OBVIOUS
<1>1. a \in Seq(S) /\ Len(a) = i - 1 /\ \A j \in 1..(i - 1) : a[j] = s[j]
  BY <1>0
<1>2. b \in Seq(S) /\ Len(b) = n - i /\ \A j \in 1..(n - i) : b[j] = s[i + j]
  BY <1>0
<1>3. RemoveAt(s, i) = a \o b
  BY DEF RemoveAt
<1> HIDE DEF a, b, n
<1>4. a \o b \in Seq(S) /\ Len(a \o b) = Len(a) + Len(b)
  BY <1>1, <1>2, ConcatProperties
<1>5. Len(a \o b) = n - 1
  BY <1>0, <1>1, <1>2, <1>4
<1>6. ASSUME NEW j \in 1..(n - 1), j < i PROVE (a \o b)[j] = s[j]
  <2>1. j \in 1..(i - 1) /\ j \in 1..(Len(a) + Len(b)) /\ j <= Len(a)
    BY <1>0, <1>1, <1>2, <1>6
  <2>2. (a \o b)[j] = a[j]
    BY <1>1, <1>2, <2>1, ConcatProperties
  <2> QED BY <1>1, <2>1, <2>2
<1>7. ASSUME NEW j \in 1..(n - 1), ~(j < i) PROVE (a \o b)[j] = s[j + 1]
  <2>1. /\ j \in 1..(Len(a) + Len(b)) /\ ~(j <= Len(a))
        /\ j - Len(a) \in 1..(n - i) /\ i + (j - Len(a)) = j + 1
    BY <1>0, <1>1, <1>2, <1>7
  <2>2. (a \o b)[j] = b[j - Len(a)]
    BY <1>1, <1>2, <2>1, ConcatProperties
  <2> QED BY <1>2, <2>1, <2>2
<1> QED BY <1>3, <1>4, <1>5, <1>6, <1>7 DEF n

LEMMA ThresholdFacts ==
  /\ SingleServer \in Replica \ Faulty /\ Replica \subseteq Id
  /\ Threshold \in Nat \ {0}
  /\ replicated => Threshold = NumFaulty + 1
<1>1. \E r \in Replica : r \notin Faulty
  BY FaultyAssumption
<1>2. SingleServer \in Replica \ Faulty
  BY <1>1 DEF SingleServer
<1> QED BY <1>2, FaultyAssumption DEF Threshold

(* As many wrong results as commit a request are not there.                      *)
LEMMA WrongNeverMatches ==
  ASSUME TypeInv, NEW results \in [Id -> Result],
         \A q \in Id : results[q] = "wrong" => q \in Faulty,
         replicated
  PROVE  Matching(results, "wrong") # Threshold
<1> DEFINE W == {q \in Id : results[q] = "wrong"}
<1>1. W \subseteq Faulty
  OBVIOUS
<1>2. IsFiniteSet(Faulty) /\ Cardinality(Faulty) <= NumFaulty /\ NumFaulty \in Nat
  BY FaultyAssumption
<1>3. Cardinality(W) <= Cardinality(Faulty) /\ Cardinality(W) \in Nat /\ Cardinality(Faulty) \in Nat
  BY <1>1, <1>2, FS_Subset, FS_CardinalityType
<1>4. Matching(results, "wrong") = Cardinality(W)
  BY DEF Matching
<1> HIDE DEF W
<1> QED BY <1>2, <1>3, <1>4, ThresholdFacts

-----------------------------------------------------------------------------
LEMMA InitInv == Init => WorkloadInv
<1> SUFFICES ASSUME Init PROVE WorkloadInv
  OBVIOUS
<1> USE DEF Init
<1>1. 1 \in Client /\ NumClient \in Nat
  BY NumClientAssumption DEF Client
<1>2. TypeInv
  <2>1. loop \in {"CloseLoop", "OpenLoop"}
    BY WorkloadsAssumption
  <2>2. scratch \in [Client -> Seq([Id -> Result])] /\ commits \in Seq(Client)
    OBVIOUS
  <2>3. invokes \in [Client -> Nat]
    OBVIOUS
  <2>4. state \in [Client -> {"selecting", "committing", "exited", "failed"}]
    OBVIOUS
  <2> QED BY <1>1, <2>1, <2>2, <2>3, <2>4 DEF TypeInv
<1>3. \A c \in Client : scratch[c] = <<>> /\ invokes[c] = 0 /\ state[c] = "selecting"
  OBVIOUS
<1>4. HonestResults /\ Inflight /\ ClientsFailForReason
  BY <1>3, MaxInflightAssumption DEF HonestResults, Inflight, ClientsFailForReason
<1>5. CommitsOnce
  BY DEF CommitsOnce
<1>6. ASSUME loop = "CloseLoop" PROVE OnePlace
  <2> SUFFICES ASSUME NEW c \in Client PROVE Places(c) = 1
    BY DEF OnePlace
  <2>1. phase = "starting" /\ turn <= c
    BY <1>1, <1>6 DEF Client
  <2>2. ~InCommits(c)
    BY DEF InCommits
  <2> QED BY <1>3, <2>1, <2>2 DEF Places, BoolToInt
<1> QED BY <1>2, <1>4, <1>5, <1>6 DEF WorkloadInv

-----------------------------------------------------------------------------
(* The steps of the driver.                                                     *)
LEMMA PlacesAreNumbers ==
  ASSUME TypeInv, NEW c \in Client
  PROVE  /\ c \in Nat \ {0} /\ c <= NumClient /\ NumClient \in Nat \ {0}
         /\ turn \in Nat \ {0} /\ turn <= NumClient
         /\ invokes[c] \in Nat /\ Len(scratch[c]) \in Nat /\ Len(commits) \in Nat
<1>1. scratch[c] \in Seq([Id -> Result])
  BY DEF TypeInv
<1>2. Len(scratch[c]) \in Nat
  BY <1>1
<1> QED BY <1>2, NumClientAssumption DEF TypeInv, Client

LEMMA StartInv == WorkloadInv /\ Start => WorkloadInv'
<1> SUFFICES ASSUME WorkloadInv, Start PROVE WorkloadInv'
  OBVIOUS
<1> USE DEF Start, config
<1>1. TypeInv' 
  BY NumClientAssumption DEF WorkloadInv, TypeInv, After, Client
<1>2. UNCHANGED <<loop, receiver, commits, state, scratch, posed, cut>>
  OBVIOUS
<1>3. ASSUME loop = "CloseLoop" PROVE OnePlace'
  <2> SUFFICES ASSUME NEW c \in Client
               PROVE  Places(c)' <= 1 /\ (Places(c)' = 0 => Gone(c)')
    BY DEF OnePlace
  <2>1. Places(c)' = Places(c)
    <3>1. InCommits(c)' <=> InCommits(c)
      BY DEF InCommits
    <3>2. turn \in Client /\ phase = "starting" /\ phase' # "sending"
      BY DEF WorkloadInv, TypeInv
    <3>3. CASE c = turn
      <4>1. invokes'[c] = invokes[c] + 1
        BY <3>3 DEF WorkloadInv, TypeInv
      <4>2. ~(phase' = "starting" /\ turn' <= c)
        BY <3>2, <3>3, PlacesAreNumbers DEF WorkloadInv, After
      <4> QED BY <1>2, <3>1, <3>2, <3>3, <4>1, <4>2, PlacesAreNumbers DEF WorkloadInv, Places, BoolToInt
    <3>4. CASE c # turn
      <4>1. invokes'[c] = invokes[c]
        BY <3>4 DEF WorkloadInv, TypeInv
      <4>2. phase' = "starting" /\ turn' <= c <=> turn <= c
        BY <3>2, <3>4, PlacesAreNumbers DEF WorkloadInv, After
      <4> QED BY <1>2, <3>1, <3>2, <4>1, <4>2, PlacesAreNumbers DEF WorkloadInv, Places, BoolToInt
    <3> QED BY <3>3, <3>4
  <2>2. Gone(c) => Gone(c)'
    BY <1>2 DEF Gone
  <2> QED BY <1>2, <1>3, <2>1, <2>2 DEF WorkloadInv, OnePlace
<1> QED BY <1>1, <1>2, <1>3 DEF WorkloadInv, HonestResults, CommitsOnce, Inflight, ClientsFailForReason

LEMMA TakeCommitInv == WorkloadInv /\ TakeCommit => WorkloadInv'
<1> SUFFICES ASSUME WorkloadInv, TakeCommit PROVE WorkloadInv'
  OBVIOUS
<1> USE DEF TakeCommit, config
<1>1. UNCHANGED <<loop, turn, invokes, state, scratch, posed, cut>> /\ phase = "running"
  OBVIOUS
<1>2. /\ commits \in Seq(Client) /\ commits # <<>> /\ commits' = Tail(commits)
      /\ Head(commits) \in Client
  BY DEF WorkloadInv, TypeInv
<1>3. /\ commits' \in Seq(Client) /\ Len(commits) \in Nat \ {0} /\ Len(commits') = Len(commits) - 1
      /\ \A k \in 1..Len(commits') : commits'[k] = commits[k + 1]
      /\ Head(commits) = commits[1]
  BY <1>2
<1>4. TypeInv'
  BY <1>2, <1>3 DEF WorkloadInv, TypeInv, InvokedNext
<1>5. ASSUME loop = "CloseLoop" PROVE CommitsOnce' /\ OnePlace'
  <2>1. CommitsOnce /\ OnePlace
    BY <1>5 DEF WorkloadInv
  <2>2. CommitsOnce'
    <3> SUFFICES ASSUME NEW j \in 1..Len(commits'), NEW k \in 1..Len(commits'),
                        commits'[j] = commits'[k]
                 PROVE  j = k
      BY DEF CommitsOnce
    <3>1. j + 1 \in 1..Len(commits) /\ k + 1 \in 1..Len(commits)
      BY <1>3
    <3>2. j + 1 = k + 1
      BY <1>3, <2>1, <3>1 DEF CommitsOnce
    <3> QED BY <3>2
  <2>3. ASSUME NEW c \in Client
        PROVE  InCommits(c)' <=> InCommits(c) /\ c # Head(commits)
    <3>1. ASSUME NEW k \in 1..Len(commits), commits[k] = c, c # Head(commits)
          PROVE  InCommits(c)'
      <4>1. k - 1 \in 1..Len(commits') /\ (k - 1) + 1 = k
        BY <1>3, <3>1
      <4>2. commits'[k - 1] = c
        BY <1>3, <3>1, <4>1
      <4> QED BY <4>1, <4>2 DEF InCommits
    <3>2. ASSUME NEW k \in 1..Len(commits'), commits'[k] = c
          PROVE  InCommits(c) /\ c # Head(commits)
      <4>1. k + 1 \in 1..Len(commits) /\ 1 \in 1..Len(commits) /\ k + 1 # 1
        BY <1>3
      <4>2. commits[k + 1] = c
        BY <1>3, <3>2
      <4> QED BY <1>3, <2>1, <4>1, <4>2 DEF InCommits, CommitsOnce
    <3> QED BY <3>1, <3>2 DEF InCommits
  <2>4. InCommits(Head(commits))
    <3>1. 1 \in 1..Len(commits)
      BY <1>3
    <3> QED BY <1>3, <3>1 DEF InCommits
  <2>5. phase' = "sending" /\ receiver' = Head(commits)
    BY <1>5 DEF InvokedNext
  <2> SUFFICES ASSUME NEW c \in Client PROVE Places(c)' = Places(c)
    BY <1>1, <2>1, <2>2 DEF OnePlace, Gone
  <2>6. CASE c = Head(commits)
    <3>1. InCommits(c) /\ ~InCommits(c)' /\ receiver' = c
      BY <2>3, <2>4, <2>5, <2>6
    <3>2. invokes[c] \in Nat /\ Len(scratch[c]) \in Nat
      BY PlacesAreNumbers DEF WorkloadInv
    <3> QED BY ONLY <1>1, <2>5, <3>1, <3>2, SMTT(30) DEF Places, BoolToInt
  <2>7. CASE c # Head(commits)
    <3>1. (InCommits(c)' <=> InCommits(c)) /\ receiver' # c
      BY <2>3, <2>5, <2>7
    <3> QED BY <1>1, <2>5, <3>1, PlacesAreNumbers DEF WorkloadInv, Places, BoolToInt
  <2> QED BY <2>6, <2>7
<1> QED BY <1>1, <1>4, <1>5 DEF WorkloadInv, HonestResults, Inflight, ClientsFailForReason

LEMMA SendInvokeInv == WorkloadInv /\ SendInvoke => WorkloadInv'
<1> SUFFICES ASSUME WorkloadInv, SendInvoke PROVE WorkloadInv'
  OBVIOUS
<1> USE DEF SendInvoke, config
<1>1. TypeInv'
  <2>1. receiver \in Client /\ invokes[receiver] \in Nat /\ 1 \in Client
    BY NumClientAssumption DEF WorkloadInv, TypeInv, Client
  <2> QED BY <2>1 DEF WorkloadInv, TypeInv
<1>2. UNCHANGED <<loop, turn, commits, state, scratch, posed, cut>>
  OBVIOUS
<1>3. ASSUME loop = "CloseLoop" PROVE OnePlace'
  <2> SUFFICES ASSUME NEW c \in Client PROVE Places(c)' = Places(c)
    BY <1>2, <1>3 DEF WorkloadInv, OnePlace, Gone
  <2>1. InCommits(c)' <=> InCommits(c)
    BY DEF InCommits
  <2>2. invokes'[c] = IF c = receiver THEN invokes[c] + 1 ELSE invokes[c]
    BY DEF WorkloadInv, TypeInv
  <2> QED BY <1>2, <2>1, <2>2, PlacesAreNumbers DEF WorkloadInv, Places, BoolToInt
<1> QED BY <1>1, <1>2, <1>3 DEF WorkloadInv, HonestResults, CommitsOnce, Inflight, ClientsFailForReason

(* The other steps of the driver move no request.                               *)
LEMMA DriverMovesNone ==
  ASSUME WorkloadInv, Sleep \/ Deadline \/ Join
  PROVE  WorkloadInv'
<1> USE DEF Sleep, Deadline, Join, config
<1>1. UNCHANGED <<loop, invokes, commits, state, scratch, posed, cut>>
  OBVIOUS
<1>2. TypeInv'
  <2>1. TypeInv /\ 1 \in Client
    BY NumClientAssumption DEF WorkloadInv, Client
  <2>2. /\ turn' \in Client /\ receiver' \in Client /\ UNCHANGED <<replicated, posed, cut>>
        /\ phase' \in {"starting", "running", "sending", "joining", "done", "failed"}
    <3>1. CASE Sleep
      <4>1. After(turn) \in Client
        BY <2>1, NumClientAssumption DEF TypeInv, After, Client
      <4> QED BY <2>1, <3>1, <4>1 DEF TypeInv
    <3>2. CASE Deadline
      BY <2>1, <3>2 DEF TypeInv
    <3>3. CASE Join
      BY <2>1, <3>3 DEF TypeInv
    <3> QED BY <3>1, <3>2, <3>3
  <2> QED BY <1>1, <2>1, <2>2 DEF TypeInv
<1>3. ASSUME loop = "CloseLoop" PROVE OnePlace'
  <2> SUFFICES ASSUME NEW c \in Client PROVE Places(c)' = Places(c)
    BY <1>1, <1>3 DEF WorkloadInv, OnePlace, Gone
  <2>1. InCommits(c)' <=> InCommits(c)
    BY DEF InCommits
  <2>2. phase \notin {"starting", "sending"} /\ phase' \notin {"starting", "sending"}
    BY <1>3
  <2> QED BY <1>1, <2>1, <2>2, PlacesAreNumbers DEF WorkloadInv, Places, BoolToInt
<1> QED BY <1>1, <1>2, <1>3 DEF WorkloadInv, HonestResults, CommitsOnce, Inflight, ClientsFailForReason

(* Nothing is asked of the requests of a run that has failed.                     *)
LEMMA RunFailsInv == WorkloadInv /\ RunFails => WorkloadInv'
<1> SUFFICES ASSUME WorkloadInv, RunFails PROVE WorkloadInv'
  OBVIOUS
<1> USE DEF RunFails, config
<1>1. /\ UNCHANGED <<loop, invokes, commits, state, scratch, posed, cut>>
      /\ phase \in {"starting", "running", "sending", "joining"} /\ phase' = "failed"
  OBVIOUS
<1>2. TypeInv'
  BY DEF WorkloadInv, TypeInv
<1>3. ASSUME loop = "CloseLoop" PROVE OnePlace'
  <2> SUFFICES ASSUME NEW c \in Client PROVE Places(c)' <= 1 /\ Gone(c)'
    BY DEF OnePlace
  <2>1. /\ phase' \notin {"starting", "sending"} /\ TypeInv /\ Places(c) <= 1
        /\ UNCHANGED <<invokes, commits, state, scratch>>
    BY <1>1, <1>3 DEF WorkloadInv, OnePlace
  <2>2. InCommits(c)' <=> InCommits(c)
    BY <1>1 DEF InCommits
  <2>3. invokes[c] \in Nat /\ Len(scratch[c]) \in Nat
    BY <2>1, PlacesAreNumbers
  <2>4. Places(c)' <= 1
    BY ONLY <2>1, <2>2, <2>3, SMTT(30) DEF Places, BoolToInt
  <2> QED BY <1>1, <2>4 DEF Gone
<1> QED BY <1>1, <1>2, <1>3 DEF WorkloadInv, HonestResults, CommitsOnce, Inflight, ClientsFailForReason

-----------------------------------------------------------------------------
(* The steps of a client.                                                       *)

(* A new request comes last, and only a full open loop client forgets its oldest.  *)
LEMMA NewRequest ==
  ASSUME TypeInv, NEW entries \in Seq([Id -> Result])
  PROVE  /\ WithNewRequest(entries) \in Seq([Id -> Result])
         /\ loop = "CloseLoop" => Len(WithNewRequest(entries)) = Len(entries) + 1
         /\ loop = "OpenLoop" /\ Len(entries) <= MaxInflight
              => Len(WithNewRequest(entries)) <= MaxInflight
         /\ \A i \in 1..Len(WithNewRequest(entries)) :
              \/ WithNewRequest(entries)[i] = NoResult
              \/ \E j \in 1..Len(entries) : WithNewRequest(entries)[i] = entries[j]
<1> DEFINE old == IF loop = "OpenLoop" /\ Len(entries) = MaxInflight THEN Tail(entries) ELSE entries
           new == Append(old, NoResult)
<1>1. NoResult \in [Id -> Result] /\ Len(entries) \in Nat /\ MaxInflight \in Nat \ {0}
  BY MaxInflightAssumption DEF NoResult, Result
<1>2. /\ old \in Seq([Id -> Result]) /\ Len(old) \in Nat
      /\ loop = "CloseLoop" => Len(old) = Len(entries)
      /\ loop = "OpenLoop" /\ Len(entries) <= MaxInflight => Len(old) + 1 <= MaxInflight
      /\ \A i \in 1..Len(old) : \E j \in 1..Len(entries) : old[i] = entries[j]
  <2>1. CASE loop = "OpenLoop" /\ Len(entries) = MaxInflight
    <3>1. entries # <<>> /\ old = Tail(entries)
      BY <1>1, <2>1
    <3>2. /\ old \in Seq([Id -> Result]) /\ Len(old) = Len(entries) - 1
          /\ \A i \in 1..Len(old) : i + 1 \in 1..Len(entries) /\ old[i] = entries[i + 1]
      BY <3>1
    <3> HIDE DEF old
    <3> QED BY <1>1, <2>1, <3>2
  <2>2. CASE ~(loop = "OpenLoop" /\ Len(entries) = MaxInflight)
    BY <1>1, <2>2
  <2> QED BY <2>1, <2>2
<1> HIDE DEF old
<1>3. /\ new \in Seq([Id -> Result]) /\ Len(new) = Len(old) + 1
      /\ \A i \in 1..Len(new) : new[i] = IF i <= Len(old) THEN old[i] ELSE NoResult
  BY <1>1, <1>2
<1>4. WithNewRequest(entries) = new
  BY DEF WithNewRequest, old
<1> HIDE DEF new
<1>5. ASSUME NEW i \in 1..Len(new)
      PROVE  new[i] = NoResult \/ \E j \in 1..Len(entries) : new[i] = entries[j]
  <2>1. i <= Len(old) => i \in 1..Len(old)
    BY <1>2, <1>3
  <2> QED BY <1>2, <1>3, <2>1
<1> QED BY <1>1, <1>2, <1>3, <1>4, <1>5

LEMMA TakeInvokeInv ==
  ASSUME WorkloadInv, NEW c \in Client, TakeInvoke(c)
  PROVE  WorkloadInv'
<1> USE DEF config
<1>1. /\ UNCHANGED <<loop, replicated, phase, turn, receiver, commits, posed, cut>>
      /\ state[c] = "selecting"
      /\ invokes[c] > 0 /\ invokes' = [invokes EXCEPT ![c] = @ - 1]
  BY DEF TakeInvoke, At
<1>2. TypeInv
  BY DEF WorkloadInv
<1>3. loop = "CloseLoop" => scratch[c] = <<>>
  <2> SUFFICES ASSUME loop = "CloseLoop" PROVE Len(scratch[c]) = 0
    BY <1>2 DEF TypeInv
  <2>1. Places(c) <= 1
    BY DEF WorkloadInv, OnePlace
  <2> QED BY <1>1, <1>2, <2>1, PlacesAreNumbers DEF Places, BoolToInt
<1>4. scratch' = [scratch EXCEPT ![c] = WithNewRequest(@)] /\ UNCHANGED state
  BY <1>3 DEF TakeInvoke
<1> DEFINE new == WithNewRequest(scratch[c])
<1>5. scratch[c] \in Seq([Id -> Result]) /\ Len(scratch[c]) \in Nat
  BY <1>2 DEF TypeInv
<1>6. \A d \in Client : scratch'[d] = IF d = c THEN new ELSE scratch[d]
  BY <1>2, <1>4 DEF TypeInv
<1>7. \A d \in Client : invokes'[d] = IF d = c THEN invokes[c] - 1 ELSE invokes[d]
  BY <1>1, <1>2 DEF TypeInv
<1>8. /\ new \in Seq([Id -> Result])
      /\ loop = "CloseLoop" => Len(new) = Len(scratch[c]) + 1
      /\ loop = "OpenLoop" /\ Len(scratch[c]) <= MaxInflight => Len(new) <= MaxInflight
      /\ \A i \in 1..Len(new) :
           new[i] = NoResult \/ \E j \in 1..Len(scratch[c]) : new[i] = scratch[c][j]
  BY <1>2, <1>5, NewRequest
<1>9. TypeInv'
  <2>1. scratch' \in [Client -> Seq([Id -> Result])]
    BY <1>2, <1>4, <1>8 DEF TypeInv
  <2>2. invokes' \in [Client -> Nat]
    <3>1. invokes[c] - 1 \in Nat
      BY <1>1, <1>2 DEF TypeInv
    <3> QED BY <1>1, <1>2, <3>1 DEF TypeInv
  <2> QED BY <1>1, <1>2, <1>4, <2>1, <2>2 DEF TypeInv
<1> HIDE DEF new
<1>10. HonestResults'
  <2> SUFFICES ASSUME NEW d \in Client, NEW i \in 1..Len(scratch'[d]), NEW q \in Id,
                      scratch'[d][i][q] = "wrong"
               PROVE  q \in Faulty \/ d \in posed
    BY <1>1 DEF HonestResults
  <2>1. CASE d = c
    <3>1. scratch'[d] = new /\ NoResult[q] # "wrong"
      BY <1>6, <2>1 DEF NoResult
    <3>2. PICK j \in 1..Len(scratch[c]) : new[i] = scratch[c][j]
      BY <1>8, <3>1
    <3> QED BY <1>1, <2>1, <3>1, <3>2 DEF WorkloadInv, HonestResults
  <2>2. CASE d # c
    BY <1>6, <2>2 DEF WorkloadInv, HonestResults
  <2> QED BY <2>1, <2>2
<1>11. ASSUME loop = "CloseLoop" PROVE CommitsOnce' /\ OnePlace'
  <2>1. CommitsOnce'
    BY <1>1, <1>11 DEF WorkloadInv, CommitsOnce
  <2> SUFFICES ASSUME NEW d \in Client PROVE Places(d)' = Places(d)
    BY <1>1, <1>4, <1>11, <2>1 DEF WorkloadInv, OnePlace, Gone
  <2>2. InCommits(d)' <=> InCommits(d)
    BY <1>1 DEF InCommits
  <2>3. CASE d = c
    <3>1. invokes'[d] = invokes[d] - 1 /\ Len(scratch'[d]) = Len(scratch[d]) + 1
      BY <1>6, <1>7, <1>8, <1>11, <2>3
    <3> QED BY <1>1, <1>2, <1>4, <2>2, <3>1, PlacesAreNumbers DEF Places, BoolToInt
  <2>4. CASE d # c
    <3>1. invokes'[d] = invokes[d] /\ Len(scratch'[d]) = Len(scratch[d])
      BY <1>6, <1>7, <2>4
    <3> QED BY <1>1, <1>2, <1>4, <2>2, <3>1, PlacesAreNumbers DEF Places, BoolToInt
  <2> QED BY <2>3, <2>4
<1>12. loop = "OpenLoop" => Inflight'
  BY <1>6, <1>8 DEF WorkloadInv, Inflight
<1> QED BY <1>1, <1>4, <1>9, <1>10, <1>11, <1>12 DEF WorkloadInv, ClientsFailForReason

(* A reply that is noted leaves the requests where they are; one that completes a  *)
(* request takes that out of scratch, and its result is right.                    *)
LEMMA TakeReplyInv ==
  ASSUME WorkloadInv, NEW c \in Client, NEW i, NEW q \in Id, NEW v \in {"right", "wrong"},
         TakeReply(c, i, q, v)
  PROVE  WorkloadInv'
<1> DEFINE results == [scratch[c][i] EXCEPT ![q] = v]
<1> USE DEF config
<1>1. TypeInv /\ UNCHANGED <<loop, replicated, phase, turn, receiver, commits, invokes, cut>>
  BY DEF WorkloadInv, TakeReply
<1>0. /\ posed' \subseteq Client /\ posed \subseteq posed'
      /\ v = "wrong" => q \in Faulty \/ c \in posed'
  BY <1>1 DEF TakeReply, TypeInv
<1>2. /\ state[c] = "selecting" /\ scratch[c] \in Seq([Id -> Result])
      /\ i \in 1..Len(scratch[c]) /\ Len(scratch[c]) \in Nat
      /\ CanReply(q, v)
  BY <1>1 DEF TakeReply, TypeInv, At
<1>3. /\ results \in [Id -> Result]
      /\ \A p \in Id : results[p] = "wrong" => p \in Faulty \/ c \in posed'
  <2>1. v \in Result
    BY DEF Result
  <2>2. scratch[c][i] \in [Id -> Result]
    BY <1>2
  <2>3. \A p \in Id : scratch[c][i][p] = "wrong" => p \in Faulty \/ c \in posed
    BY <1>2 DEF WorkloadInv, HonestResults
  <2> QED BY <1>0, <2>1, <2>2, <2>3
<1>4. /\ \/ scratch' = [scratch EXCEPT ![c][i] = results] /\ state' = state
         \/ /\ Matching(results, v) = Threshold
            /\ scratch' = [scratch EXCEPT ![c] = RemoveAt(@, i)]
            /\ state' = [state EXCEPT ![c] = IF v = "right" THEN "committing" ELSE "failed"]
  BY DEF TakeReply
<1> HIDE DEF results
<1>5. CASE scratch' = [scratch EXCEPT ![c][i] = results] /\ state' = state
  <2>1. /\ scratch' \in [Client -> Seq([Id -> Result])]
        /\ \A d \in Client : Len(scratch'[d]) = Len(scratch[d])
        /\ \A d \in Client : \A j \in 1..Len(scratch[d]) :
             scratch'[d][j] = IF d = c /\ j = i THEN results ELSE scratch[d][j]
    <3> DEFINE noted == [scratch[c] EXCEPT ![i] = results]
    <3>1. scratch' = [scratch EXCEPT ![c] = noted]
      BY <1>5
    <3>2. /\ noted \in Seq([Id -> Result]) /\ Len(noted) = Len(scratch[c])
          /\ \A j \in 1..Len(scratch[c]) : noted[j] = IF j = i THEN results ELSE scratch[c][j]
      BY <1>2, <1>3
    <3> HIDE DEF noted
    <3>3. \A d \in Client : scratch'[d] = IF d = c THEN noted ELSE scratch[d]
      BY <1>1, <3>1 DEF TypeInv
    <3>4. scratch' \in [Client -> Seq([Id -> Result])]
      BY <1>1, <3>1, <3>2 DEF TypeInv
    <3> QED BY <3>2, <3>3, <3>4
  <2>2. TypeInv'
    BY <1>0, <1>1, <1>5, <2>1 DEF TypeInv
  <2>3. HonestResults'
    BY <1>0, <1>3, <2>1 DEF WorkloadInv, HonestResults
  <2>4. ASSUME loop = "CloseLoop" PROVE CommitsOnce' /\ OnePlace'
    <3>1. \A d \in Client : InCommits(d)' <=> InCommits(d)
      BY <1>1 DEF InCommits
    <3>2. ASSUME NEW d \in Client PROVE Places(d)' = Places(d)
      <4>1. Len(scratch'[d]) = Len(scratch[d])
        BY <2>1
      <4> QED BY <1>1, <1>5, <3>1, <4>1 DEF Places, BoolToInt
    <3> QED BY <1>1, <1>5, <2>4, <3>2 DEF WorkloadInv, CommitsOnce, OnePlace, Gone
  <2>5. loop = "OpenLoop" => Inflight'
    BY <2>1 DEF WorkloadInv, Inflight
  <2> QED BY <1>0, <1>1, <1>5, <2>2, <2>3, <2>4, <2>5 DEF WorkloadInv, ClientsFailForReason
<1>6. CASE /\ Matching(results, v) = Threshold
           /\ scratch' = [scratch EXCEPT ![c] = RemoveAt(@, i)]
           /\ state' = [state EXCEPT ![c] = IF v = "right" THEN "committing" ELSE "failed"]
  <2> DEFINE next == IF v = "right" THEN "committing" ELSE "failed"
  <2>1. v = "right" \/ c \in posed'
    <3>1. CASE replicated
      <4>1. c \notin posed' => Matching(results, "wrong") # Threshold
        BY <1>1, <1>3, <3>1, WrongNeverMatches
      <4> QED BY <1>6, <4>1
    <3>2. CASE ~replicated
      BY <1>2, <3>2, ThresholdFacts DEF Server, CanReply
    <3> QED BY <3>1, <3>2
  <2> DEFINE rest == RemoveAt(scratch[c], i)
  <2>2. /\ rest \in Seq([Id -> Result]) /\ Len(rest) = Len(scratch[c]) - 1
        /\ \A j \in 1..(Len(scratch[c]) - 1) :
             rest[j] = IF j < i THEN scratch[c][j] ELSE scratch[c][j + 1]
    BY <1>2, RemovedAt
  <2> HIDE DEF rest
  <2>3. /\ scratch' = [scratch EXCEPT ![c] = rest] /\ state' = [state EXCEPT ![c] = next]
        /\ next \in {"committing", "failed"} /\ (next = "failed" => c \in posed')
    BY <1>6, <2>1 DEF rest
  <2> HIDE DEF next
  <2>4. \A d \in Client : /\ scratch'[d] = IF d = c THEN rest ELSE scratch[d]
                          /\ state'[d] = IF d = c THEN next ELSE state[d]
    BY <1>1, <2>3 DEF TypeInv
  <2>5. TypeInv'
    BY <1>0, <1>1, <2>2, <2>3 DEF TypeInv
  <2>6. HonestResults'
    <3> SUFFICES ASSUME NEW d \in Client, NEW j \in 1..Len(scratch'[d]), NEW p \in Id,
                        scratch'[d][j][p] = "wrong"
                 PROVE  p \in Faulty \/ d \in posed'
      BY DEF HonestResults
    <3>1. CASE d = c
      <4>1. scratch'[d] = rest /\ j \in 1..(Len(scratch[c]) - 1)
        BY <2>2, <2>4, <3>1
      <4>2. j \in 1..Len(scratch[c]) /\ j + 1 \in 1..Len(scratch[c])
        BY <1>2, <4>1
      <4> QED BY <1>0, <2>2, <3>1, <4>1, <4>2 DEF WorkloadInv, HonestResults
    <3>2. CASE d # c
      BY <1>0, <2>4, <3>2 DEF WorkloadInv, HonestResults
    <3> QED BY <3>1, <3>2
  <2>7. ASSUME loop = "CloseLoop" PROVE CommitsOnce' /\ OnePlace'
    <3>1. CommitsOnce'
      BY <1>1, <2>7 DEF WorkloadInv, CommitsOnce
    <3> SUFFICES ASSUME NEW d \in Client
                 PROVE  Places(d)' <= 1 /\ (Places(d)' = 0 => Gone(d)')
      BY <3>1 DEF OnePlace
    <3>2. InCommits(d)' <=> InCommits(d)
      BY <1>1 DEF InCommits
    <3>3. Places(d) <= 1 /\ (Places(d) = 0 => Gone(d))
      BY <2>7 DEF WorkloadInv, OnePlace
    <3>4. CASE d = c
      <4>1. /\ Len(scratch'[d]) = Len(scratch[d]) - 1
            /\ state[d] = "selecting" /\ state'[d] = next
        BY <1>2, <2>2, <2>4, <3>4
      <4>2. invokes[d] \in Nat /\ Len(scratch[d]) \in Nat
        BY <1>1, PlacesAreNumbers
      <4>3. Places(d)' = IF next = "committing" THEN Places(d) ELSE Places(d) - 1
        BY ONLY <1>1, <2>3, <3>2, <4>1, <4>2, SMTT(30) DEF Places, BoolToInt
      <4>4. Places(d) \in Nat /\ Places(d) # 0
        BY <1>2, <3>3, <3>4, <4>2 DEF Places, BoolToInt, Gone, TakeReply, At
      <4> QED BY <2>3, <3>3, <4>1, <4>3, <4>4 DEF Gone
    <3>5. CASE d # c
      <4>1. scratch'[d] = scratch[d] /\ state'[d] = state[d]
        BY <2>4, <3>5
      <4>2. Places(d)' = Places(d)
        BY ONLY <1>1, <3>2, <4>1 DEF Places, BoolToInt
      <4>3. Gone(d) => Gone(d)'
        BY <1>1, <4>1 DEF Gone
      <4> QED BY <3>3, <4>2, <4>3
    <3> QED BY <3>4, <3>5
  <2>8. loop = "OpenLoop" => Inflight'
    BY <1>2, <2>2, <2>4, MaxInflightAssumption DEF WorkloadInv, Inflight
  <2> QED BY <1>0, <1>1, <2>3, <2>4, <2>5, <2>6, <2>7, <2>8 DEF WorkloadInv, ClientsFailForReason
<1> QED BY <1>4, <1>5, <1>6

LEMMA CutInv ==
  ASSUME WorkloadInv, NEW c \in Client, Cut(c)
  PROVE  WorkloadInv'
<1> USE DEF config
<1>1. /\ TypeInv /\ state[c] = "selecting" /\ state' = [state EXCEPT ![c] = "failed"]
      /\ cut' = cut \cup {c}
      /\ UNCHANGED <<loop, replicated, phase, turn, receiver, invokes, commits, scratch, posed>>
  BY DEF WorkloadInv, Cut, At
<1>2. \A d \in Client : state'[d] = IF d = c THEN "failed" ELSE state[d]
  BY <1>1 DEF TypeInv
<1>3. TypeInv'
  BY <1>1 DEF TypeInv
<1>4. ASSUME loop = "CloseLoop" PROVE OnePlace'
  <2> SUFFICES ASSUME NEW d \in Client
               PROVE  Places(d)' = Places(d) /\ (Gone(d) => Gone(d)')
    BY <1>4 DEF WorkloadInv, OnePlace
  <2>1. InCommits(d)' <=> InCommits(d)
    BY <1>1 DEF InCommits
  <2>2. state'[d] = "committing" <=> state[d] = "committing"
    BY <1>1, <1>2
  <2>3. Places(d)' = Places(d)
    BY <1>1, <2>1, <2>2 DEF Places, BoolToInt
  <2> QED BY <1>1, <1>2, <2>3 DEF Gone
<1> QED BY <1>1, <1>2, <1>3, <1>4
        DEF WorkloadInv, HonestResults, CommitsOnce, Inflight, ClientsFailForReason

LEMMA CommitInv ==
  ASSUME WorkloadInv, NEW c \in Client, Commit(c)
  PROVE  WorkloadInv'
<1> USE DEF config
<1>1. TypeInv /\ UNCHANGED <<loop, replicated, phase, turn, receiver, invokes, scratch, posed, cut>>
  BY DEF WorkloadInv, Commit
<1>2. /\ state[c] = "committing" /\ state' = [state EXCEPT ![c] = "selecting"]
      /\ commits' = Append(commits, c) /\ commits \in Seq(Client) /\ Len(commits) \in Nat
  BY <1>1 DEF Commit, TypeInv, At
<1>3. /\ commits' \in Seq(Client) /\ Len(commits') = Len(commits) + 1
      /\ \A k \in 1..Len(commits') : commits'[k] = IF k <= Len(commits) THEN commits[k] ELSE c
  BY <1>2
<1>4. \A d \in Client : state'[d] = IF d = c THEN "selecting" ELSE state[d]
  BY <1>1, <1>2 DEF TypeInv
<1>5. TypeInv'
  BY <1>1, <1>2, <1>3 DEF TypeInv
<1>6. ASSUME loop = "CloseLoop" PROVE CommitsOnce' /\ OnePlace'
  <2>1. CommitsOnce /\ OnePlace
    BY <1>6 DEF WorkloadInv
  <2>2. ~InCommits(c)
    <3>1. Places(c) <= 1
      BY <2>1 DEF OnePlace
    <3>2. invokes[c] \in Nat /\ Len(scratch[c]) \in Nat
      BY <1>1, PlacesAreNumbers
    <3> QED BY <1>2, <3>1, <3>2, SMTT(30) DEF Places, BoolToInt
  <2>3. \A d \in Client : InCommits(d)' <=> InCommits(d) \/ d = c
    <3> TAKE d \in Client
    <3>1. ASSUME InCommits(d) PROVE InCommits(d)'
      <4>1. PICK k \in 1..Len(commits) : commits[k] = d
        BY <3>1 DEF InCommits
      <4>2. k \in 1..Len(commits') /\ commits'[k] = d
        BY <1>2, <1>3, <4>1
      <4> QED BY <4>2 DEF InCommits
    <3>2. InCommits(c)'
      <4>1. Len(commits') \in 1..Len(commits') /\ commits'[Len(commits')] = c
        BY <1>2, <1>3
      <4> QED BY <4>1 DEF InCommits
    <3>3. ASSUME InCommits(d)', d # c PROVE InCommits(d)
      <4>1. PICK k \in 1..Len(commits') : commits'[k] = d
        BY <3>3 DEF InCommits
      <4>2. k \in 1..Len(commits) /\ commits[k] = d
        BY <1>2, <1>3, <3>3, <4>1
      <4> QED BY <4>2 DEF InCommits
    <3> QED BY <3>1, <3>2, <3>3
  <2>4. CommitsOnce'
    <3> SUFFICES ASSUME NEW j \in 1..Len(commits'), NEW k \in 1..Len(commits'),
                        commits'[j] = commits'[k]
                 PROVE  j = k
      BY DEF CommitsOnce
    <3>1. \A n \in 1..Len(commits) : commits[n] # c
      BY <2>2 DEF InCommits
    <3>2. CASE j <= Len(commits) /\ k <= Len(commits)
      <4>1. j \in 1..Len(commits) /\ k \in 1..Len(commits) /\ commits[j] = commits[k]
        BY <1>2, <1>3, <3>2
      <4> QED BY <2>1, <4>1 DEF CommitsOnce
    <3>3. CASE ~(j <= Len(commits)) \/ ~(k <= Len(commits))
      BY <1>2, <1>3, <3>1, <3>3
    <3> QED BY <3>2, <3>3
  <2> SUFFICES ASSUME NEW d \in Client
               PROVE  Places(d)' <= 1 /\ (Places(d)' = 0 => Gone(d)')
    BY <2>4 DEF OnePlace
  <2>5. Places(d) <= 1 /\ (Places(d) = 0 => Gone(d))
    BY <2>1 DEF OnePlace
  <2>6. CASE d = c
    <3>1. InCommits(d)' /\ ~InCommits(d) /\ state'[d] = "selecting"
      BY <1>4, <2>2, <2>3, <2>6
    <3>2. invokes[d] \in Nat /\ Len(scratch[d]) \in Nat
      BY <1>1, PlacesAreNumbers
    <3>3. state[d] = "committing" /\ Places(d)' = Places(d)
      BY ONLY <1>1, <1>2, <2>6, <3>1, <3>2, SMTT(30) DEF Places, BoolToInt
    <3>4. Places(d)' # 0
      BY <2>5, <3>2, <3>3 DEF Places, BoolToInt, Gone, Commit, At
    <3> QED BY <2>5, <3>3, <3>4
  <2>7. CASE d # c
    <3>1. (InCommits(d)' <=> InCommits(d)) /\ state'[d] = state[d]
      BY <1>4, <2>3, <2>7
    <3>2. Places(d)' = Places(d)
      BY ONLY <1>1, <3>1 DEF Places, BoolToInt
    <3>3. Gone(d) => Gone(d)'
      BY <1>1, <3>1 DEF Gone
    <3> QED BY <2>5, <3>2, <3>3
  <2> QED BY <2>6, <2>7
<1> QED BY <1>1, <1>4, <1>5, <1>6 DEF WorkloadInv, HonestResults, Inflight, ClientsFailForReason

LEMMA ExitInv ==
  ASSUME WorkloadInv, NEW c \in Client, Exit(c)
  PROVE  WorkloadInv'
<1> USE DEF config
<1>1. /\ TypeInv /\ state[c] = "selecting" /\ state' = [state EXCEPT ![c] = "exited"]
      /\ UNCHANGED <<loop, replicated, phase, turn, receiver, invokes, commits, scratch, posed, cut>>
  BY DEF WorkloadInv, Exit, At
<1>2. \A d \in Client : state'[d] = IF d = c THEN "exited" ELSE state[d]
  BY <1>1 DEF TypeInv
<1>3. TypeInv'
  BY <1>1 DEF TypeInv
<1>4. ASSUME loop = "CloseLoop" PROVE OnePlace'
  <2> SUFFICES ASSUME NEW d \in Client
               PROVE  Places(d)' = Places(d) /\ (Gone(d) => Gone(d)')
    BY <1>4 DEF WorkloadInv, OnePlace
  <2>1. InCommits(d)' <=> InCommits(d)
    BY <1>1 DEF InCommits
  <2>2. state'[d] = "committing" <=> state[d] = "committing"
    BY <1>1, <1>2
  <2>3. Places(d)' = Places(d)
    BY <1>1, <2>1, <2>2 DEF Places, BoolToInt
  <2> QED BY <1>1, <1>2, <2>3 DEF Gone
<1> QED BY <1>1, <1>2, <1>3, <1>4
        DEF WorkloadInv, HonestResults, CommitsOnce, Inflight, ClientsFailForReason

-----------------------------------------------------------------------------
LEMMA StutterInv == WorkloadInv /\ UNCHANGED vars => WorkloadInv'
<1> SUFFICES ASSUME WorkloadInv, UNCHANGED vars PROVE WorkloadInv'
  OBVIOUS
<1>1. \A c \in Client : Places(c)' = Places(c)
  BY DEF vars, config, Places, InCommits
<1> QED BY <1>1 DEF WorkloadInv, TypeInv, HonestResults, CommitsOnce, OnePlace, Gone, Inflight,
                    ClientsFailForReason, vars, config

LEMMA NextInv == WorkloadInv /\ [Next]_vars => WorkloadInv'
<1> SUFFICES ASSUME WorkloadInv, [Next]_vars PROVE WorkloadInv'
  OBVIOUS
<1>1. CASE Start \/ TakeCommit \/ Sleep \/ SendInvoke \/ Deadline \/ Join \/ RunFails
  BY <1>1, StartInv, TakeCommitInv, SendInvokeInv, DriverMovesNone, RunFailsInv
<1>2. ASSUME NEW c \in Client, ClientStep(c) PROVE WorkloadInv'
  BY <1>2, TakeInvokeInv, CommitInv, CutInv, ExitInv, TakeReplyInv DEF ClientStep
<1>3. CASE UNCHANGED vars
  BY <1>3, StutterInv
<1> QED BY <1>1, <1>2, <1>3 DEF Next

(* Every reachable state of the workload satisfies the invariant, for any number   *)
(* of clients, capacities, replicas and faulty replicas (workload.rs, the client    *)
(* tasks of the three transports).                                                *)
THEOREM WorkloadInvariant == Spec => []WorkloadInv
BY InitInv, NextInv, PTL DEF Spec

(* How often a client is in the commit channel.                                  *)
LEMMA CommitsCounted ==
  ASSUME TypeInv, CommitsOnce, NEW c \in Client
  PROVE  Requests(c) = Places(c)
<1> DEFINE K == {k \in DOMAIN commits : commits[k] = c}
<1>1. DOMAIN commits = 1..Len(commits)
  BY DEF TypeInv
<1>2. CASE InCommits(c)
  <2>1. PICK k \in 1..Len(commits) : commits[k] = c
    BY <1>2 DEF InCommits
  <2>2. K = {k}
    BY <1>1, <2>1 DEF CommitsOnce
  <2>3. Cardinality(K) = 1
    BY <2>2, FS_Singleton
  <2> QED BY <1>2, <2>3 DEF Requests, Places, BoolToInt
<1>3. CASE ~InCommits(c)
  <2>1. K = {}
    BY <1>1, <1>3 DEF InCommits
  <2>2. Cardinality(K) = 0
    BY <2>1, FS_EmptySet
  <2> QED BY <1>3, <2>2 DEF Requests, Places, BoolToInt
<1> QED BY <1>2, <1>3

(* A close loop client has exactly one request in the system until its task ends or *)
(* the run fails, so that no invoke channel is ever full; an open loop client has no *)
(* more than num_max_inflight outstanding (workload.rs:72, transport.rs of the       *)
(* protocols).                                                                    *)
THEOREM WorkloadRequestsBounded == Spec => []RequestsBounded
<1>1. WorkloadInv => RequestsBounded
  BY CommitsCounted DEF WorkloadInv, TypeInv, OnePlace, Gone, Inflight, RequestsBounded
<1> QED BY <1>1, WorkloadInvariant, PTL

(* The task of a client fails, while no more than num_faulty replicas are faulty,    *)
(* only because a connection of the client ended, or because it was sent a wrong      *)
(* result under the id of a replica that is not faulty, or of none                   *)
(* (pbft/transport.rs:91, 110-113, 124-149).                                        *)
THEOREM WorkloadClientsFailForReason == Spec => []ClientsFailForReason
<1>1. WorkloadInv => ClientsFailForReason
  BY DEF WorkloadInv
<1> QED BY <1>1, WorkloadInvariant, PTL
=============================================================================
