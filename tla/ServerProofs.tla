---------------------------- MODULE ServerProofs ----------------------------
(* Proofs about Server, for any clients, bounds and capacities.               *)
EXTENDS Server, SequenceTheorems, FiniteSetTheorems, TLAPS

Commands == Seq(Command)
Blocks == Seq(Commands \ {<<>>})

TypeInv ==
  /\ client \in [Client -> {"new", "dialing", "connected", "left"}]
  /\ named \subseteq Client /\ guest \subseteq Client
  /\ sent \in [Client -> 0..MaxSeq]
  /\ wire \subseteq Command
  /\ writer \in [Client -> {"none", "open", "closed"}]
  /\ service \in {"selecting", "handshaking", "identifying", "requesting", "resending",
                 "replying", "ended"}
  /\ incoming \in Commands /\ hand \in Commands /\ block \in Commands
  /\ replies \in [Client -> 0..MaxSeq]
  /\ replica \in {"booting", "selecting", "finalizing", "ended"}
  /\ requests \in Commands /\ actions \in Blocks /\ finalized \in Blocks
  /\ handled \subseteq Command /\ given \in Blocks
  /\ answered \in [Client -> Seq(1..MaxSeq)]

(* What the tasks hold is what they are busy with; a server that has failed has     *)
(* no tasks, and only cancellation ends the service task otherwise.                   *)
TasksOK ==
  /\ service = "replying" <=> block # <<>>
  /\ service \notin {"requesting", "resending"} => hand = <<>>
  /\ service \in {"requesting", "resending"} => \E x \in Command : hand = <<x>>
  /\ service = "resending" => replies[hand[1].client] = hand[1].seq
  /\ service \notin {"handshaking", "identifying", "ended"} => guest = {}
  /\ \A c, d \in guest : c = d
  /\ replica = "finalizing" <=> actions # <<>>
  /\ failed => service = "ended" /\ replica = "ended"
  /\ service = "ended" => failed \/ cancelled

(* Clients say who they are before they send, over QUIC to a server that accepts     *)
(* them meanwhile or has.                                                           *)
ClientsOK ==
  \A c \in Client :
    /\ client[c] = "new" => c \notin named
    /\ c \notin named => sent[c] = 0
    /\ writer[c] = "closed" => client[c] = "left"
    /\ MadeByAccept /\ (client[c] = "connected" \/ c \in named)
         => writer[c] # "none" \/ c \in guest
    /\ c \in guest => writer[c] = "none"
    /\ replies[c] <= sent[c]

(* Everything that is in the server has been sent by a client.                        *)
Backed ==
  \A x \in Command : /\ x \in wire => IsSent(x)
                     /\ x \in InFlight \cup handled => IsSent(x) /\ writer[x.client] # "none"
                     /\ x \in Given => IsSent(x)
                     /\ x \in InBlocks => x \in Given

(* A request is in one place.                                                        *)
OnePlace ==
  /\ IsInjective(incoming) /\ IsInjective(requests)
  /\ wire \cap (InFlight \cup handled) = {} /\ handled \cap InFlight = {}
  /\ ToSet(incoming) \cap (ToSet(hand) \cup ToSet(requests)) = {}
  /\ ToSet(hand) \cap ToSet(requests) = {}

(* The cached reply of a client is the newest of those that it was sent.              *)
NewestCached == \A c \in Client : \A i \in DOMAIN answered[c] : answered[c][i] <= replies[c]

ServerInv ==
  /\ TypeInv /\ TasksOK /\ ClientsOK /\ Backed /\ OnePlace /\ NewestCached
  /\ RepliesInOrder /\ NothingLost /\ FailsForReason

-----------------------------------------------------------------------------
(* The elements of a sequence that grows at its end and shrinks at its front.  *)
LEMMA SetOfAppend ==
  ASSUME NEW S, NEW s \in Seq(S), NEW e \in S
  PROVE  ToSet(Append(s, e)) = ToSet(s) \cup {e}
<1>1. DOMAIN Append(s, e) = 1..(Len(s) + 1) /\ DOMAIN s = 1..Len(s) /\ Len(s) \in Nat
  OBVIOUS
<1>2. \A i \in 1..Len(s) : Append(s, e)[i] = s[i]
  OBVIOUS
<1>3. Append(s, e)[Len(s) + 1] = e
  OBVIOUS
<1> QED BY <1>1, <1>2, <1>3 DEF ToSet

LEMMA SetOfTail ==
  ASSUME NEW S, NEW s \in Seq(S), s # <<>>
  PROVE  /\ Head(s) \in S /\ Tail(s) \in Seq(S)
         /\ ToSet(s) = {Head(s)} \cup ToSet(Tail(s))
<1>1. /\ Head(s) = s[1] /\ Tail(s) \in Seq(S) /\ Len(Tail(s)) = Len(s) - 1
      /\ Len(s) \in Nat \ {0} /\ DOMAIN s = 1..Len(s) /\ DOMAIN Tail(s) = 1..(Len(s) - 1)
      /\ \A i \in 1..(Len(s) - 1) : Tail(s)[i] = s[i + 1]
  BY HeadTailProperties, LenProperties, EmptySeq
<1>2. \A i \in 1..Len(s) : i = 1 \/ (i - 1 \in 1..(Len(s) - 1) /\ s[i] = Tail(s)[i - 1])
  BY <1>1
<1>3. ASSUME NEW i \in 1..Len(s) PROVE s[i] \in {Head(s)} \cup ToSet(Tail(s))
  <2>1. CASE i = 1
    BY <1>1, <2>1
  <2>2. CASE i - 1 \in 1..(Len(s) - 1) /\ s[i] = Tail(s)[i - 1]
    BY <1>1, <2>2 DEF ToSet
  <2> QED BY <1>2, <2>1, <2>2
<1>4. {Head(s)} \cup ToSet(Tail(s)) \subseteq ToSet(s)
  BY <1>1 DEF ToSet
<1>5. ToSet(s) \subseteq {Head(s)} \cup ToSet(Tail(s))
  BY <1>1, <1>3 DEF ToSet
<1> QED BY <1>1, <1>4, <1>5

LEMMA SetOfConcat ==
  ASSUME NEW S, NEW s \in Seq(S), NEW t \in Seq(S)
  PROVE  ToSet(s \o t) = ToSet(s) \cup ToSet(t)
<1>1. /\ Len(s) \in Nat /\ DOMAIN s = 1..Len(s) /\ Len(t) \in Nat /\ DOMAIN t = 1..Len(t)
      /\ DOMAIN (s \o t) = 1..(Len(s) + Len(t))
      /\ \A i \in 1..(Len(s) + Len(t)) :
           (s \o t)[i] = IF i <= Len(s) THEN s[i] ELSE t[i - Len(s)]
  BY ConcatProperties, LenProperties
<1>2. ASSUME NEW i \in 1..(Len(s) + Len(t)) PROVE (s \o t)[i] \in ToSet(s) \cup ToSet(t)
  <2>1. CASE i <= Len(s)
    BY <1>1, <2>1 DEF ToSet
  <2>2. CASE ~(i <= Len(s))
    <3>1. i - Len(s) \in 1..Len(t)
      BY <1>1, <2>2
    <3> QED BY <1>1, <2>2, <3>1 DEF ToSet
  <2> QED BY <2>1, <2>2
<1>3. ASSUME NEW i \in 1..Len(s) PROVE s[i] \in ToSet(s \o t)
  <2>1. i \in 1..(Len(s) + Len(t)) /\ i <= Len(s)
    BY <1>1
  <2> QED BY <1>1, <2>1 DEF ToSet
<1>4. ASSUME NEW i \in 1..Len(t) PROVE t[i] \in ToSet(s \o t)
  <2>1. i + Len(s) \in 1..(Len(s) + Len(t)) /\ ~(i + Len(s) <= Len(s)) /\ i + Len(s) - Len(s) = i
    BY <1>1
  <2> QED BY <1>1, <2>1 DEF ToSet
<1>5. ToSet(s \o t) \subseteq ToSet(s) \cup ToSet(t)
  BY <1>1, <1>2 DEF ToSet
<1>6. ToSet(s) \subseteq ToSet(s \o t) /\ ToSet(t) \subseteq ToSet(s \o t)
  BY <1>1, <1>3, <1>4 DEF ToSet
<1> QED BY <1>5, <1>6

LEMMA SetOfOne ==
  ASSUME NEW S, NEW s \in Seq(S), NEW e \in S
  PROVE  /\ ToSet(<<e>>) = {e} /\ ToSet(<<>>) = {}
         /\ s \o <<e>> = Append(s, e)
<1>1. DOMAIN <<e>> = {1} /\ <<e>>[1] = e /\ DOMAIN <<>> = {}
  OBVIOUS
<1> QED BY <1>1, AppendIsConcat DEF ToSet

LEMMA InjectiveTail ==
  ASSUME NEW S, NEW s \in Seq(S), s # <<>>, IsInjective(s)
  PROVE  IsInjective(Tail(s)) /\ Head(s) \notin ToSet(Tail(s))
<1>1. /\ Head(s) = s[1] /\ Tail(s) \in Seq(S) /\ Len(Tail(s)) = Len(s) - 1
      /\ Len(s) \in Nat \ {0} /\ DOMAIN s = 1..Len(s) /\ DOMAIN Tail(s) = 1..(Len(s) - 1)
      /\ \A i \in 1..(Len(s) - 1) : Tail(s)[i] = s[i + 1] /\ i + 1 \in 1..Len(s)
  BY HeadTailProperties, LenProperties, EmptySeq
<1>2. \A i, j \in 1..Len(s) : s[i] = s[j] => i = j
  BY <1>1 DEF IsInjective
<1>3. ASSUME NEW i \in 1..(Len(s) - 1), NEW j \in 1..(Len(s) - 1), Tail(s)[i] = Tail(s)[j]
      PROVE  i = j
  <2>1. i + 1 = j + 1
    BY <1>1, <1>2, <1>3
  <2> QED BY <2>1
<1>4. \A i \in 1..(Len(s) - 1) : Tail(s)[i] # s[1]
  BY <1>1, <1>2
<1> QED BY <1>1, <1>3, <1>4 DEF IsInjective, ToSet

LEMMA InjectiveAppend ==
  ASSUME NEW S, NEW s \in Seq(S), NEW e \in S, IsInjective(s), e \notin ToSet(s)
  PROVE  IsInjective(Append(s, e))
<1>1. DOMAIN Append(s, e) = 1..(Len(s) + 1) /\ DOMAIN s = 1..Len(s) /\ Len(s) \in Nat
  OBVIOUS
<1>2. \A i \in 1..Len(s) : Append(s, e)[i] = s[i]
  OBVIOUS
<1>3. Append(s, e)[Len(s) + 1] = e
  OBVIOUS
<1> QED BY <1>1, <1>2, <1>3 DEF ToSet, IsInjective

LEMMA RepliesFinite ==
  ASSUME TypeInv, NEW x \in Command
  PROVE  Replies(x) \in Nat
<1>1. answered[x.client] \in Seq(1..MaxSeq)
  BY DEF TypeInv, Command
<1>2. IsFiniteSet(DOMAIN answered[x.client])
  <2>1. /\ DOMAIN answered[x.client] = 1..Len(answered[x.client])
        /\ Len(answered[x.client]) \in Nat
    BY <1>1, LenProperties
  <2>2. IsFiniteSet(1..Len(answered[x.client]))
    BY <2>1, FS_Interval
  <2> QED BY <2>1, <2>2
<1>3. IsFiniteSet({i \in DOMAIN answered[x.client] : answered[x.client][i] = x.seq})
  BY <1>2, FS_Subset
<1> QED BY <1>3, FS_CardinalityType DEF Replies

(* How many replies to x a client has when one to seq is added.                *)
LEMMA ReplyAdded ==
  ASSUME TypeInv, NEW c \in Client, NEW seq \in 1..MaxSeq, NEW x \in Command,
         answered' = [answered EXCEPT ![c] = Append(@, seq)]
  PROVE  /\ Replies(x) \in Nat
         /\ Replies(x)' = IF x.client = c /\ x.seq = seq THEN Replies(x) + 1 ELSE Replies(x)
<1> DEFINE a == answered[x.client]
           K == {i \in DOMAIN a : a[i] = x.seq}
<1>1. a \in Seq(1..MaxSeq) /\ DOMAIN a = 1..Len(a) /\ Len(a) \in Nat /\ x.client \in Client
  BY DEF TypeInv, Command
<1>2. IsFiniteSet(K) /\ Cardinality(K) \in Nat /\ Len(a) + 1 \notin K
  <2>1. IsFiniteSet(1..Len(a)) /\ K \subseteq 1..Len(a)
    BY <1>1, FS_Interval
  <2> QED BY <1>1, <2>1, FS_Subset, FS_CardinalityType
<1>3. Replies(x) = Cardinality(K)
  BY DEF Replies
<1>4. CASE x.client # c
  BY <1>1, <1>2, <1>3, <1>4 DEF Replies, TypeInv
<1>5. CASE x.client = c
  <2>1. answered'[x.client] = Append(a, seq)
    BY <1>1, <1>5 DEF TypeInv
  <2>2. /\ DOMAIN Append(a, seq) = 1..(Len(a) + 1)
        /\ \A i \in 1..Len(a) : Append(a, seq)[i] = a[i]
        /\ Append(a, seq)[Len(a) + 1] = seq
    BY <1>1
  <2>3. {i \in DOMAIN Append(a, seq) : Append(a, seq)[i] = x.seq}
          = IF x.seq = seq THEN K \cup {Len(a) + 1} ELSE K
    <3> HIDE DEF a
    <3> QED BY <1>1, <2>2
  <2>4. Cardinality(K \cup {Len(a) + 1}) = Cardinality(K) + 1
    BY <1>2, FS_AddElement
  <2> HIDE DEF a, K
  <2> QED BY <1>2, <1>3, <1>5, <2>1, <2>3, <2>4 DEF Replies
<1> QED BY <1>4, <1>5
-----------------------------------------------------------------------------
(* What is kept when a step leaves the state that it speaks of alone.            *)
Places == wire \cup InFlight \cup handled

LEMMA RepliesKept ==
  ASSUME TypeInv, RepliesInOrder, UNCHANGED answered,
         \A x \in Command : x \in Places' => x \in Places \/ Replies(x) = 0
  PROVE  RepliesInOrder'
<1>1. \A x \in Command : Replies(x)' = Replies(x)
  BY DEF Replies
<1>2. ASSUME NEW x \in Command
      PROVE  Replies(x) <= IF x \in Places' THEN 1 ELSE 2
  <2>1. Replies(x) <= IF x \in Places THEN 1 ELSE 2
    BY DEF RepliesInOrder, Places
  <2>2. Replies(x) \in Nat
    BY RepliesFinite
  <2> QED BY <2>1, <2>2
<1> QED BY <1>1, <1>2 DEF RepliesInOrder, Places

LEMMA ReasonKept ==
  ASSUME TasksOK, FailsForReason, UNCHANGED <<server, failed>>,
         peerLeft => peerLeft', cancelled => cancelled',
         service = "ended" => guest \subseteq guest',
         \A c \in Client : /\ client[c] # "new" => client'[c] # "new"
                           /\ writer[c] = "closed" => writer'[c] = "closed"
                           /\ writer[c] = "none" /\ service = "ended" => writer'[c] = "none",
         \A c \in Client \cup guest : client[c] = "left" => client'[c] = "left"
  PROVE  FailsForReason'
BY DEF FailsForReason, TasksOK

LEMMA PlacesUnchanged ==
  ASSUME OnePlace, UNCHANGED <<wire, incoming, hand, requests, handled>>
  PROVE  OnePlace' /\ UNCHANGED <<InFlight, Places>>
BY DEF OnePlace, InFlight, Places

LEMMA BlocksUnchanged ==
  ASSUME UNCHANGED <<given, actions, finalized, block>>
  PROVE  UNCHANGED <<Given, InBlocks>>
BY DEF Given, InBlocks

(* Nothing that was not there before comes into the server.                      *)
LEMMA BackedKept ==
  ASSUME TypeInv, Backed, UNCHANGED <<sent, Given>>,
         wire' \subseteq wire, InBlocks' \subseteq InBlocks,
         InFlight' \cup handled' \subseteq InFlight \cup handled,
         \A c \in Client : writer[c] # "none" => writer'[c] # "none"
  PROVE  Backed'
BY DEF Backed, IsSent, Command

LEMMA LostKept ==
  ASSUME NothingLost, UNCHANGED <<sent, replies, Given>>,
         service' # "ended" => service # "ended",
         \A x \in Command : x \in Places => x \in Places' \/ Answered(x),
         \A x \in Given : x \in InBlocks => x \in InBlocks' \/ Answered(x)
  PROVE  NothingLost'
BY DEF NothingLost, Places, IsSent, Answered

-----------------------------------------------------------------------------
(* The clients and their connections.                                          *)
LEMMA ConnectionInv ==
  ASSUME ServerInv, NEW c \in Client, Connect(c) \/ Name(c) \/ Leave(c) \/ Write(c)
  PROVE  ServerInv'
<1> USE DEF ServerInv, control, serviceVars, replicaVars
<1>1. /\ UNCHANGED <<server, failed, peerLeft, cancelled, sent, wire, service, guest, incoming, hand, block,
                     replies, replica, requests, actions, finalized, handled, given, answered>>
      /\ client' \in [Client -> {"new", "dialing", "connected", "left"}]
      /\ named' \subseteq Client
      /\ writer' \in [Client -> {"none", "open", "closed"}]
      /\ \A d \in Client : /\ client[d] # "new" => client'[d] # "new"
                           /\ client[d] = "left" => client'[d] = "left"
                           /\ writer[d] # "none" => writer'[d] # "none"
                           /\ writer[d] = "closed" => writer'[d] = "closed"
                           /\ writer[d] = "none" => writer'[d] = "none"
                           /\ writer'[d] = "closed" => client'[d] = "left"
                           /\ client'[d] = "new" => d \notin named'
                           /\ d \notin named' => d \notin named
                           /\ MadeByAccept /\ (client'[d] = "connected" \/ d \in named')
                                => client[d] = "connected" \/ d \in named
  <2> USE DEF TypeInv, ClientsOK
  <2>1. CASE Connect(c)
    BY <2>1 DEF Connect
  <2>2. CASE Leave(c)
    BY <2>2 DEF Leave
  <2>3. CASE Write(c)
    BY <2>3 DEF Write
  <2>4. CASE Name(c)
    BY <2>4 DEF Name
  <2> QED BY <2>1, <2>2, <2>3, <2>4
<1>2. TypeInv' /\ TasksOK' /\ NewestCached'
  BY <1>1 DEF TypeInv, TasksOK, NewestCached
<1>3. OnePlace' /\ UNCHANGED <<InFlight, Places, Given, InBlocks>>
  BY <1>1, PlacesUnchanged, BlocksUnchanged
<1>4. RepliesInOrder'
  BY <1>1, <1>3, RepliesKept
<1>5. ClientsOK'
  BY <1>1 DEF ClientsOK, MadeByAccept
<1>6. Backed' /\ NothingLost'
  BY <1>1, <1>3, BackedKept, LostKept
<1>7. FailsForReason'
  BY <1>1, ReasonKept DEF TypeInv
<1> QED BY <1>2, <1>3, <1>4, <1>5, <1>6, <1>7

(* A client that is accepted has a write channel once it is not the guest any more. *)
LEMMA AcceptInv ==
  ASSUME ServerInv, NEW c \in Client, Accept(c) \/ Handshake(c) \/ Identify(c)
  PROVE  ServerInv'
<1> USE DEF ServerInv, control, replicaVars
<1>1. /\ UNCHANGED <<server, failed, peerLeft, cancelled, named, sent, wire, incoming, hand, block,
                     replies, replica, requests, actions, finalized, handled, given, answered>>
      /\ service \in {"selecting", "handshaking", "identifying"}
      /\ service' \in {"selecting", "handshaking", "identifying"}
      /\ client' \in [Client -> {"new", "dialing", "connected", "left"}]
      /\ guest' \subseteq Client /\ (service' = "selecting" => guest' = {})
      /\ \A d, e \in guest' : d = e
      /\ writer' \in [Client -> {"none", "open", "closed"}]
      /\ \A d \in Client : /\ client'[d] = "new" => client[d] = "new"
                           /\ client[d] = "left" => client'[d] = "left"
                           /\ writer[d] # "none" => writer'[d] # "none"
                           /\ writer[d] = "closed" <=> writer'[d] = "closed"
                           /\ client'[d] = "connected" => client[d] = "connected" \/ d \in guest'
                           /\ writer[d] # "none" \/ d \in guest => writer'[d] # "none" \/ d \in guest'
                           /\ d \in guest' => writer'[d] = "none"
  <2> USE DEF TypeInv, TasksOK, ClientsOK
  <2>1. CASE Accept(c)
    <3>1. /\ service = "selecting" /\ guest = {} /\ guest' = {c}
          /\ service' \in {"handshaking", "identifying"}
          /\ UNCHANGED <<server, failed, peerLeft, cancelled, named, sent, wire, incoming, hand,
                         block, replies, replica, requests, actions, finalized, handled, given,
                         answered, writer>>
      BY <2>1 DEF Accept
    <3>2. /\ client' \in [Client -> {"new", "dialing", "connected", "left"}]
          /\ \A d \in Client : /\ client'[d] = "new" => client[d] = "new"
                               /\ client[d] = "left" => client'[d] = "left"
                               /\ client'[d] = "connected" => client[d] = "connected"
      BY <2>1 DEF Accept
    <3>3. writer[c] = "none"
      BY <2>1 DEF Accept
    <3>4. \A d, e \in guest' : d = e /\ writer'[d] = "none"
      BY <3>1, <3>3
    <3>5. \A d \in Client : writer'[d] = writer[d] /\ d \notin guest
      BY <3>1
    <3> QED BY <3>1, <3>2, <3>4, <3>5
  <2>2. CASE Handshake(c)
    BY <2>2 DEF Handshake
  <2>3. CASE Identify(c)
    <3>1. guest = {c}
      BY <2>3 DEF Identify
    <3> QED BY <2>3, <3>1 DEF Identify
  <2> QED BY <2>1, <2>2, <2>3
<1>2. TypeInv' /\ TasksOK' /\ NewestCached'
  BY <1>1 DEF TypeInv, TasksOK, NewestCached
<1>3. OnePlace' /\ UNCHANGED <<InFlight, Places, Given, InBlocks>>
  BY <1>1, PlacesUnchanged, BlocksUnchanged
<1>4. RepliesInOrder'
  BY <1>1, <1>3, RepliesKept
<1>5. ClientsOK'
  BY <1>1 DEF ClientsOK, MadeByAccept
<1>6. Backed' /\ NothingLost'
  BY <1>1, <1>3, BackedKept, LostKept
<1>7. FailsForReason'
  BY <1>1 DEF FailsForReason, TasksOK
<1> QED BY <1>2, <1>3, <1>4, <1>5, <1>6, <1>7

(* A request that a client sends is new: nobody has replied to it.              *)
LEMMA SendInv ==
  ASSUME ServerInv, NEW c \in Client, Send(c)
  PROVE  ServerInv'
<1> USE DEF ServerInv, control, serviceVars, replicaVars
<1> DEFINE new == [client |-> c, seq |-> sent[c] + 1]
<1>0. UNCHANGED <<server, failed, peerLeft, cancelled, client, named, writer, service, guest, incoming, hand, block,
                  replies, replica, requests, actions, finalized, handled, given, answered>>
  BY DEF Send
<1>1. /\ c \in named /\ new \in Command /\ ~IsSent(new)
      /\ sent' = [sent EXCEPT ![c] = sent[c] + 1] /\ wire' = wire \cup {new}
      /\ sent' \in [Client -> 0..MaxSeq]
  BY BoundsAssumption DEF Send, TypeInv, Command, IsSent
<1>2. TypeInv' /\ TasksOK' /\ NewestCached'
  <2> HIDE DEF new
  <2> QED BY <1>0, <1>1 DEF TypeInv, TasksOK, NewestCached
<1>3. UNCHANGED <<InFlight, Given, InBlocks>>
  BY <1>0, BlocksUnchanged DEF InFlight
<1>4. new \notin InFlight \cup handled
  BY <1>1 DEF Backed
<1>5. OnePlace'
  BY <1>0, <1>1, <1>3, <1>4 DEF OnePlace
<1>6. Replies(new) = 0
  <2>1. \A i \in DOMAIN answered[c] : answered[c][i] # new.seq
    BY DEF NewestCached, ClientsOK, TypeInv
  <2>2. {i \in DOMAIN answered[new.client] : answered[new.client][i] = new.seq} = {}
    BY <2>1
  <2> QED BY <2>2, FS_EmptySet DEF Replies
<1>7. RepliesInOrder'
  BY <1>0, <1>1, <1>3, <1>6, RepliesKept DEF Places
<1>8. ASSUME NEW x \in Command PROVE IsSent(x)' <=> IsSent(x) \/ x = new
  BY <1>1 DEF IsSent, TypeInv, Command
<1>9. ClientsOK'
  BY <1>0, <1>1 DEF ClientsOK, MadeByAccept, TypeInv
<1>10. Backed' /\ NothingLost'
  BY <1>0, <1>1, <1>3, <1>8 DEF Backed, NothingLost, Answered
<1>11. FailsForReason'
  BY <1>0, ReasonKept
<1> QED BY <1>2, <1>5, <1>7, <1>9, <1>10, <1>11

(* A request that is read moves into the message channel.                       *)
LEMMA ReadInv ==
  ASSUME ServerInv, NEW x \in Command, Read(x)
  PROVE  ServerInv'
<1> USE DEF ServerInv, control, serviceVars, replicaVars
<1>0. /\ UNCHANGED <<server, failed, peerLeft, cancelled, client, named, sent, writer, service, guest, hand, block,
                     replies, replica, requests, actions, finalized, handled, given, answered>>
      /\ x \in wire /\ wire' = wire \ {x} /\ incoming' = Append(incoming, x)
      /\ writer[x.client] # "none" /\ incoming \in Seq(Command)
  BY DEF Read, TypeInv, Commands
<1>1. ToSet(incoming)' = ToSet(incoming) \cup {x} /\ x \notin ToSet(incoming)
  BY <1>0, SetOfAppend DEF OnePlace, InFlight
<1>2. InFlight' = InFlight \cup {x} /\ UNCHANGED <<Given, InBlocks>>
  BY <1>0, <1>1, BlocksUnchanged DEF InFlight
<1>3. TypeInv' /\ TasksOK' /\ NewestCached' /\ ClientsOK'
  <2>1. incoming' \in Commands
    BY <1>0, AppendProperties DEF Commands
  <2> QED BY <1>0, <2>1 DEF TypeInv, TasksOK, NewestCached, ClientsOK, MadeByAccept
<1>4. OnePlace'
  <2>1. IsInjective(incoming')
    BY <1>0, <1>1, InjectiveAppend DEF OnePlace
  <2> QED BY <1>0, <1>1, <1>2, <2>1 DEF OnePlace, InFlight
<1>5. RepliesInOrder'
  BY <1>0, <1>2, RepliesKept DEF Places
<1>6. Backed'
  BY <1>0, <1>2 DEF Backed, IsSent
<1>7. NothingLost'
  BY <1>0, <1>2, LostKept DEF Places
<1>8. FailsForReason'
  BY <1>0, ReasonKept
<1> QED BY <1>3, <1>4, <1>5, <1>6, <1>7, <1>8

-----------------------------------------------------------------------------
(* The ends of the tasks.                                                      *)

(* Whatever ends the server with an error has to be one of the reasons.         *)
LEMMA BothEndInv ==
  ASSUME ServerInv, BothEnd, failed' \/ cancelled',
         failed' => \/ peerLeft' \/ cancelled'
                    \/ \E c \in Client : client[c] = "left" /\ writer[c] = "closed"
                    \/ \E c \in guest : client[c] = "left"
                    \/ server = "tcp" /\ \E c \in Client : client[c] # "new" /\ writer[c] = "none"
  PROVE  ServerInv'
<1> USE DEF ServerInv
<1>0. /\ UNCHANGED <<server, client, named, sent, wire, writer, guest, replies, handled, given, answered>>
      /\ service' = "ended" /\ replica' = "ended"
      /\ incoming' = <<>> /\ requests' = <<>> /\ finalized' = <<>> /\ actions' = <<>>
      /\ hand' = <<>> /\ block' = <<>>
  BY DEF BothEnd
<1>1. InFlight' = {} /\ InBlocks' = {} /\ UNCHANGED Given
  BY <1>0 DEF InFlight, InBlocks, Given, ToSet
<1>2. TypeInv' /\ TasksOK' /\ NewestCached' /\ ClientsOK'
  <2>1. \A S : <<>> \in Seq(S)
    BY EmptySeq
  <2> QED BY <1>0, <2>1 DEF TypeInv, TasksOK, NewestCached, ClientsOK, MadeByAccept, Commands, Blocks
<1>3. OnePlace'
  <2>1. IsInjective(<<>>) /\ ToSet(<<>>) = {}
    BY DEF IsInjective, ToSet
  <2> QED BY <1>0, <1>1, <2>1 DEF OnePlace
<1>4. RepliesInOrder'
  BY <1>0, <1>1, RepliesKept DEF Places
<1>5. Backed' /\ NothingLost'
  BY <1>0, <1>1, BackedKept DEF NothingLost
<1>6. FailsForReason'
  BY <1>0 DEF FailsForReason
<1> QED BY <1>2, <1>3, <1>4, <1>5, <1>6

LEMMA StopInv ==
  ASSUME ServerInv, Stop,
         \/ peerLeft' \/ cancelled
         \/ \E c \in Client : client[c] = "left" /\ writer[c] = "closed"
         \/ \E c \in guest : client[c] = "left"
         \/ server = "tcp" /\ \E c \in Client : client[c] # "new" /\ writer[c] = "none"
  PROVE  ServerInv'
BY BothEndInv DEF Stop

LEMMA DropInv ==
  ASSUME ServerInv, Drop
  PROVE  ServerInv'
BY BothEndInv DEF Drop

LEMMA CancelInv ==
  ASSUME ServerInv, Cancel \/ Boot \/ ReplicaEnds
  PROVE  ServerInv'
<1> USE DEF ServerInv, control, connections, serviceVars, replicaVars
<1>0. /\ UNCHANGED <<server, failed, peerLeft, client, named, sent, wire, writer, service, guest, incoming, hand,
                     block, replies, requests, actions, finalized, handled, given, answered>>
      /\ cancelled => cancelled'
      /\ \/ UNCHANGED replica
         \/ replica = "booting" /\ replica' = "selecting"
         \/ replica = "selecting" /\ replica' = "ended"
  BY DEF Cancel, Boot, ReplicaEnds
<1>1. TypeInv' /\ TasksOK' /\ NewestCached' /\ ClientsOK'
  BY <1>0 DEF TypeInv, TasksOK, NewestCached, ClientsOK, MadeByAccept
<1>2. OnePlace' /\ UNCHANGED <<InFlight, Places, Given, InBlocks>>
  BY <1>0, PlacesUnchanged, BlocksUnchanged
<1>3. RepliesInOrder' /\ Backed' /\ NothingLost'
  BY <1>0, <1>2, RepliesKept, BackedKept, LostKept
<1>4. FailsForReason'
  BY <1>0, ReasonKept
<1> QED BY <1>1, <1>2, <1>3, <1>4

LEMMA NoticeCancelInv ==
  ASSUME ServerInv, NoticeCancel
  PROVE  ServerInv'
<1> USE DEF ServerInv, control, serviceVars, replicaVars
<1>0. /\ UNCHANGED <<server, failed, peerLeft, cancelled, client, named, sent, wire, writer, guest, hand, block,
                     replies, replica, requests, actions, handled, given, answered>>
      /\ service = "selecting" /\ service' = "ended" /\ cancelled /\ incoming' = <<>> /\ finalized' = <<>>
      /\ hand = <<>>
  BY DEF NoticeCancel, TasksOK
<1>1. ToSet(<<>>) = {} /\ IsInjective(<<>>) /\ \A S : <<>> \in Seq(S)
  BY EmptySeq DEF ToSet, IsInjective
<1>2. InFlight' \subseteq InFlight /\ InBlocks' \subseteq InBlocks /\ UNCHANGED Given
  BY <1>0, <1>1 DEF InFlight, InBlocks, Given
<1>3. TypeInv' /\ TasksOK' /\ NewestCached' /\ ClientsOK'
  BY <1>0, <1>1 DEF TypeInv, TasksOK, NewestCached, ClientsOK, MadeByAccept, Commands, Blocks
<1>4. OnePlace'
  BY <1>0, <1>1, <1>2 DEF OnePlace
<1>5. RepliesInOrder'
  BY <1>0, <1>2, RepliesKept DEF Places
<1>6. Backed' /\ NothingLost'
  BY <1>0, <1>2, BackedKept DEF NothingLost
<1>7. FailsForReason'
  BY <1>0, ReasonKept
<1> QED BY <1>3, <1>4, <1>5, <1>6, <1>7

-----------------------------------------------------------------------------
(* The service task: messages.                                                 *)
LEMMA TakeMessageInv ==
  ASSUME ServerInv, TakeMessage
  PROVE  ServerInv'
<1> USE DEF ServerInv, control, connections, replicaVars
<1> DEFINE x == Head(incoming)
<1>0. /\ UNCHANGED <<server, failed, peerLeft, cancelled, client, named, sent, wire, writer, guest, block,
                     replies, replica, requests, actions, finalized, handled, given, answered>>
      /\ incoming \in Seq(Command) /\ incoming # <<>> /\ incoming' = Tail(incoming)
      /\ service = "selecting" /\ hand = <<>>
  BY DEF TakeMessage, TypeInv, TasksOK, Commands
<1>1. /\ x \in Command /\ Tail(incoming) \in Seq(Command) /\ IsInjective(Tail(incoming))
      /\ ToSet(incoming) = ToSet(Tail(incoming)) \cup {x} /\ x \notin ToSet(Tail(incoming))
  BY <1>0, SetOfTail, InjectiveTail DEF OnePlace
<1>2. ToSet(<<>>) = {} /\ ToSet(<<x>>) = {x} /\ <<x>> \in Commands /\ <<x>>[1] = x
  BY <1>1, SetOfOne DEF Commands
<1>3. \/ /\ Answered(x) /\ hand' = hand /\ service' = service
      \/ /\ service' = "resending" /\ replies[x.client] = x.seq /\ hand' = <<x>>
      \/ /\ service' = "requesting" /\ hand' = <<x>>
  BY <1>1 DEF TakeMessage, IsOld, SameReply, Answered, TypeInv, Command
<1>4. /\ InFlight' = InFlight \/ (Answered(x) /\ InFlight' = InFlight \ {x})
      /\ InFlight' \subseteq InFlight /\ UNCHANGED <<Given, InBlocks>>
  <2>1. UNCHANGED <<Given, InBlocks>>
    BY <1>0, BlocksUnchanged
  <2>2. x \notin ToSet(requests)
    BY <1>1 DEF OnePlace
  <2> HIDE DEF x
  <2> QED BY <1>0, <1>1, <1>2, <1>3, <2>1, <2>2 DEF InFlight
<1> HIDE DEF x
<1>5. TypeInv' /\ NewestCached' /\ ClientsOK'
  BY <1>0, <1>1, <1>2, <1>3 DEF TypeInv, NewestCached, ClientsOK, MadeByAccept, Commands
<1>6. TasksOK'
  BY <1>0, <1>1, <1>2, <1>3 DEF TasksOK
<1>7. OnePlace'
  <2>1. ToSet(hand)' \subseteq {x}
    BY <1>0, <1>2, <1>3
  <2> QED BY <1>0, <1>1, <1>4, <2>1 DEF OnePlace, InFlight
<1>8. RepliesInOrder' /\ Backed'
  BY <1>0, <1>4, RepliesKept, BackedKept DEF Places
<1>9. NothingLost'
  BY <1>0, <1>4, LostKept DEF Places
<1>10. FailsForReason'
  BY <1>0, ReasonKept
<1> QED BY <1>5, <1>6, <1>7, <1>8, <1>9, <1>10

LEMMA SendRequestInv ==
  ASSUME ServerInv, SendRequest
  PROVE  ServerInv'
<1> USE DEF ServerInv, control, connections, serviceVars
<1>0. /\ UNCHANGED <<server, failed, peerLeft, cancelled, client, named, sent, wire, writer, guest, incoming, block,
                     replies, replica, actions, finalized, handled, given, answered>>
      /\ requests \in Seq(Command) /\ requests' = requests \o hand
      /\ service = "requesting" /\ service' = "selecting" /\ hand' = <<>>
  BY DEF SendRequest, TypeInv, Commands
<1>1. PICK x \in Command : hand = <<x>>
  BY <1>0 DEF TasksOK
<1>2. ToSet(<<>>) = {} /\ ToSet(<<x>>) = {x} /\ requests' = Append(requests, x)
  BY <1>0, <1>1, SetOfOne
<1>3. ToSet(requests)' = ToSet(requests) \cup {x} /\ x \notin ToSet(requests)
  <2>1. ToSet(Append(requests, x)) = ToSet(requests) \cup {x}
    BY <1>0, SetOfAppend
  <2>2. ToSet(hand) = {x}
    BY <1>1, <1>2
  <2> QED BY <1>2, <2>1, <2>2 DEF OnePlace
<1>4. UNCHANGED <<InFlight, Places, Given, InBlocks>>
  BY <1>0, <1>1, <1>2, <1>3, BlocksUnchanged DEF InFlight, Places
<1>5. TypeInv' /\ NewestCached' /\ ClientsOK' /\ TasksOK'
  <2>1. requests' \in Commands /\ hand' \in Commands
    BY <1>0, <1>2, AppendProperties, EmptySeq DEF Commands
  <2> QED BY <1>0, <2>1 DEF TypeInv, NewestCached, ClientsOK, TasksOK, MadeByAccept
<1>6. OnePlace'
  <2>1. IsInjective(requests')
    BY <1>0, <1>2, <1>3, InjectiveAppend DEF OnePlace
  <2>2. ToSet(hand) = {x} /\ ToSet(hand') = {}
    BY <1>0, <1>1, <1>2
  <2> QED BY <1>0, <1>3, <1>4, <2>1, <2>2 DEF OnePlace, InFlight
<1>7. RepliesInOrder' /\ Backed' /\ NothingLost'
  BY <1>0, <1>4, RepliesKept, BackedKept, LostKept DEF Places
<1>8. FailsForReason'
  BY <1>0, ReasonKept
<1> QED BY <1>5, <1>6, <1>7, <1>8

(* The reply that a client gets is not older than any before it.                 *)
LEMMA ReplyInOrder ==
  ASSUME TypeInv, RepliesInOrder, NewestCached, NEW c \in Client, NEW seq \in 1..MaxSeq,
         answered' = [answered EXCEPT ![c] = Append(@, seq)],
         replies[c] <= seq, replies'[c] = seq,
         \A d \in Client \ {c} : replies'[d] = replies[d]
  PROVE  /\ NewestCached'
         /\ answered' \in [Client -> Seq(1..MaxSeq)]
         /\ \A d \in Client : \A i \in 1..(Len(answered'[d]) - 1) :
              answered'[d][i] <= answered'[d][i + 1]
<1> DEFINE a == answered[c]
<1>1. /\ a \in Seq(1..MaxSeq) /\ Len(a) \in Nat /\ DOMAIN a = 1..Len(a)
      /\ \A i \in 1..Len(a) : a[i] \in 1..MaxSeq /\ a[i] <= seq
      /\ replies[c] \in 0..MaxSeq /\ MaxSeq \in Nat
  BY BoundsAssumption DEF TypeInv, NewestCached
<1>2. answered'[c] = Append(a, seq) /\ \A d \in Client \ {c} : answered'[d] = answered[d]
  BY DEF TypeInv
<1>3. /\ Append(a, seq) \in Seq(1..MaxSeq) /\ Len(Append(a, seq)) = Len(a) + 1
      /\ DOMAIN Append(a, seq) = 1..(Len(a) + 1)
      /\ \A i \in 1..Len(a) : Append(a, seq)[i] = a[i]
      /\ Append(a, seq)[Len(a) + 1] = seq
  BY <1>1, AppendProperties, LenProperties
<1>4. \A i \in 1..(Len(a) - 1) : a[i] <= a[i + 1]
  BY DEF RepliesInOrder
<1> HIDE DEF a
<1>5. \A i \in 1..Len(a) : Append(a, seq)[i] <= Append(a, seq)[i + 1]
  <2> SUFFICES ASSUME NEW i \in 1..Len(a) PROVE Append(a, seq)[i] <= Append(a, seq)[i + 1]
    OBVIOUS
  <2>0. i = Len(a) \/ i \in 1..(Len(a) - 1)
    BY <1>1
  <2>1. CASE i = Len(a)
    <3>1. Append(a, seq)[i] = a[i] /\ Append(a, seq)[i + 1] = seq /\ a[i] <= seq
      BY <1>1, <1>3, <2>1
    <3> QED BY <3>1
  <2>2. CASE i \in 1..(Len(a) - 1)
    <3>1. i + 1 \in 1..Len(a)
      BY <1>1, <2>2
    <3>2. Append(a, seq)[i] = a[i] /\ Append(a, seq)[i + 1] = a[i + 1] /\ a[i] <= a[i + 1]
      BY <1>3, <1>4, <2>2, <3>1
    <3> QED BY <3>2
  <2> QED BY <2>0, <2>1, <2>2
<1>6. \A i \in 1..(Len(a) + 1) : Append(a, seq)[i] <= seq
  BY <1>1, <1>3
<1>7. NewestCached'
  BY <1>2, <1>3, <1>6 DEF NewestCached
<1>8. answered' \in [Client -> Seq(1..MaxSeq)]
  BY <1>1, <1>3 DEF TypeInv, a
<1>9. \A d \in Client : \A i \in 1..(Len(answered'[d]) - 1) : answered'[d][i] <= answered'[d][i + 1]
  <2>1. \A d \in Client \ {c} : \A i \in 1..(Len(answered[d]) - 1) : answered[d][i] <= answered[d][i + 1]
    BY DEF RepliesInOrder
  <2>2. Len(answered'[c]) - 1 = Len(a) /\ answered'[c] = Append(a, seq)
    BY <1>1, <1>2, <1>3
  <2>3. \A i \in 1..(Len(answered'[c]) - 1) : answered'[c][i] <= answered'[c][i + 1]
    BY <1>5, <2>2
  <2> QED BY <1>2, <2>1, <2>3
<1> QED BY <1>7, <1>8, <1>9

(* What is answered again is answered once more only.                            *)
LEMMA ResendInv ==
  ASSUME ServerInv, Resend
  PROVE  ServerInv'
<1> USE DEF ServerInv, control, replicaVars
<1>0. service = "resending" /\ \E x \in Command : hand = <<x>>
  BY DEF Resend, TasksOK
<1>1. PICK x \in Command : hand = <<x>>
  BY <1>0
<1>2. /\ Head(hand) = x /\ hand[1] = x /\ ToSet(hand) = {x} /\ ToSet(<<>>) = {} /\ x \in InFlight
      /\ x.client \in Client /\ x.seq \in 1..MaxSeq
  <2>1. ToSet(<<x>>) = {x} /\ ToSet(<<>>) = {}
    BY SetOfOne, EmptySeq
  <2>2. Head(<<x>>) = x /\ <<x>>[1] = x
    OBVIOUS
  <2>3. x.client \in Client /\ x.seq \in 1..MaxSeq
    BY DEF Command
  <2> QED BY <1>1, <2>1, <2>2, <2>3 DEF InFlight
<1>3. replies[x.client] = x.seq
  BY <1>0, <1>2 DEF TasksOK
<1>4. CASE CannotReply(x.client) /\ Fail
  <2>1. writer[x.client] = "closed"
    BY <1>2, <1>4 DEF CannotReply, Backed, TypeInv
  <2>2. client[x.client] = "left"
    BY <1>2, <2>1 DEF ClientsOK
  <2> QED BY <1>2, <1>4, <2>1, <2>2, StopInv DEF Fail
<1>5. CASE /\ WriteReply(x.client, x.seq)
           /\ service' = "selecting"
           /\ hand' = <<>>
           /\ UNCHANGED <<control, client, named, sent, wire, writer, guest, incoming, block, replies,
                          replicaVars, handled, given>>
  <2>0. /\ UNCHANGED <<server, failed, peerLeft, cancelled, client, named, sent, wire, writer, guest, incoming, block,
                       replies, replica, requests, actions, finalized, handled, given>>
        /\ service' = "selecting" /\ hand' = <<>>
        /\ answered' = [answered EXCEPT ![x.client] = Append(@, x.seq)]
    BY <1>5 DEF WriteReply
  <2>1. NewestCached' /\ answered' \in [Client -> Seq(1..MaxSeq)]
        /\ \A d \in Client : \A i \in 1..(Len(answered'[d]) - 1) : answered'[d][i] <= answered'[d][i + 1]
    <3>1. \A d \in Client : replies'[d] = replies[d]
      BY <2>0
    <3>2. replies[x.client] <= x.seq /\ replies'[x.client] = x.seq
      BY <1>2, <1>3, <2>0
    <3> QED BY <1>2, <2>0, <3>1, <3>2, ReplyInOrder
  <2>2. TypeInv' /\ TasksOK' /\ ClientsOK'
    <3>1. hand' \in Commands
      BY <2>0, EmptySeq DEF Commands
    <3> QED BY <1>0, <2>0, <2>1, <3>1 DEF TypeInv, TasksOK, ClientsOK, MadeByAccept
  <2>3. InFlight' = InFlight \ {x} /\ Places' = Places \ {x} /\ UNCHANGED <<Given, InBlocks>>
    <3>1. x \notin wire \cup handled \cup ToSet(incoming) \cup ToSet(requests)
      BY <1>2 DEF OnePlace
    <3> QED BY <1>2, <2>0, <3>1, BlocksUnchanged DEF InFlight, Places
  <2>4. OnePlace'
    BY <1>2, <2>0, <2>3 DEF OnePlace
  <2>5. ASSUME NEW y \in Command
        PROVE  Replies(y)' <= IF y \in Places' THEN 1 ELSE 2
    <3>1. Replies(y) \in Nat /\ Replies(y)' = IF y = x THEN Replies(y) + 1 ELSE Replies(y)
      <4>1. y = x <=> y.client = x.client /\ y.seq = x.seq
        BY <1>2 DEF Command
      <4> QED BY <1>2, <2>0, <4>1, ReplyAdded
    <3>2. Replies(y) <= IF y \in Places THEN 1 ELSE 2
      BY DEF RepliesInOrder, Places
    <3>3. x \in Places
      BY <1>2 DEF Places
    <3> QED BY <2>3, <3>1, <3>2, <3>3
  <2>6. RepliesInOrder'
    BY <2>1, <2>5 DEF RepliesInOrder, Places
  <2>7. Backed'
    BY <2>0, <2>3, BackedKept
  <2>8. NothingLost'
    <3>1. Answered(x)
      BY <1>2, <1>3 DEF Answered
    <3> QED BY <1>0, <2>0, <2>3, <3>1, LostKept
  <2>9. FailsForReason'
    BY <2>0, ReasonKept
  <2> QED BY <2>1, <2>2, <2>4, <2>6, <2>7, <2>8, <2>9
<1> QED BY <1>2, <1>4, <1>5 DEF Resend

-----------------------------------------------------------------------------
(* The service task: finalized blocks.                                          *)
LEMMA TakeFinalizedInv ==
  ASSUME ServerInv, TakeFinalized
  PROVE  ServerInv'
<1> USE DEF ServerInv, control, connections
<1>0. /\ UNCHANGED <<server, failed, peerLeft, cancelled, client, named, sent, wire, writer, guest, incoming, hand,
                     replies, replica, requests, actions, handled, given, answered>>
      /\ finalized \in Seq(Commands \ {<<>>}) /\ finalized # <<>>
      /\ service = "selecting" /\ service' = "replying" /\ block = <<>>
      /\ block' = Head(finalized) /\ finalized' = Tail(finalized)
  BY DEF TakeFinalized, TypeInv, TasksOK, Blocks
<1>1. /\ block' \in Commands \ {<<>>} /\ finalized' \in Blocks
      /\ ToSet(finalized) = {block'} \cup ToSet(finalized')
  BY <1>0, SetOfTail DEF Blocks
<1>2. UNCHANGED <<InBlocks, Given>>
  <2>1. ToSet(<<>>) = {}
    BY DEF ToSet
  <2> QED BY <1>0, <1>1, <2>1 DEF InBlocks, Given
<1>3. TypeInv' /\ TasksOK' /\ NewestCached' /\ ClientsOK'
  BY <1>0, <1>1 DEF TypeInv, TasksOK, NewestCached, ClientsOK, MadeByAccept
<1>4. OnePlace' /\ UNCHANGED <<InFlight, Places>>
  BY <1>0, PlacesUnchanged
<1>5. RepliesInOrder' /\ Backed' /\ NothingLost'
  BY <1>0, <1>2, <1>4, RepliesKept, BackedKept, LostKept
<1>6. FailsForReason'
  BY <1>0, ReasonKept
<1> QED BY <1>3, <1>4, <1>5, <1>6

(* The first reply to a command, and to all older ones of its client.            *)
LEMMA ReplyInv ==
  ASSUME ServerInv, Reply
  PROVE  ServerInv'
<1> USE DEF ServerInv, control, connections, replicaVars
<1>0. service = "replying" /\ block \in Seq(Command) /\ block # <<>>
  BY DEF Reply, TypeInv, TasksOK, Commands
<1>1. PICK x \in Command : /\ x = Head(block) /\ Tail(block) \in Seq(Command)
                           /\ ToSet(block) = {x} \cup ToSet(Tail(block))
  BY <1>0, SetOfTail
<1>2. /\ x.client \in Client /\ x.seq \in 1..MaxSeq /\ x \in InBlocks /\ IsSent(x)
      /\ replies[x.client] \in 0..MaxSeq
  BY <1>1 DEF Command, InBlocks, Backed, TypeInv
<1>3. \/ /\ \/ Duplicated(x) /\ After(Tail(block)) /\ UNCHANGED <<replies, answered>>
            \/ /\ ~Duplicated(x) /\ After(Tail(block))
               /\ replies' = [replies EXCEPT ![x.client] = x.seq]
               /\ answered' = [answered EXCEPT ![x.client] = Append(@, x.seq)]
         /\ UNCHANGED <<server, failed, peerLeft, cancelled, client, named, sent, wire, writer, guest, incoming,
                        hand, replica, requests, actions, finalized, handled, given>>
      \/ CannotReply(x.client) /\ Fail
  <2>1. CASE /\ Duplicated(x)
             /\ After(Tail(block))
             /\ UNCHANGED <<control, connections, guest, incoming, hand, replies, replicaVars,
                            handled, given, answered>>
    BY <2>1
  <2>2. CASE /\ ~Duplicated(x)
             /\ WriteReply(x.client, x.seq)
             /\ replies' = [replies EXCEPT ![x.client] = x.seq]
             /\ After(Tail(block))
             /\ UNCHANGED <<control, client, named, sent, wire, writer, guest, incoming, hand, replicaVars,
                            handled, given>>
    BY <2>2 DEF WriteReply
  <2> QED BY <1>1, <2>1, <2>2 DEF Reply
<1>4. CASE CannotReply(x.client) /\ Fail
  <2>1. writer[x.client] \in {"none", "closed"}
    BY <1>2, <1>4 DEF CannotReply, TypeInv
  <2>2. CASE writer[x.client] = "closed"
    BY <1>2, <1>4, <2>2, StopInv DEF Fail, ClientsOK
  <2>3. CASE writer[x.client] = "none"
    <3>1. client[x.client] # "new" /\ x.client \in named
      BY <1>2, BoundsAssumption DEF ClientsOK, IsSent, TypeInv
    <3>2. server = "tcp"
      BY <1>0, <1>2, <2>3, <3>1 DEF ClientsOK, MadeByAccept, TasksOK
    <3> QED BY <1>2, <1>4, <2>3, <3>1, <3>2, StopInv DEF Fail
  <2> QED BY <2>1, <2>2, <2>3
<1>5. CASE /\ UNCHANGED <<server, failed, peerLeft, cancelled, client, named, sent, wire, writer, guest, incoming,
                          hand, replica, requests, actions, finalized, handled, given>>
           /\ block' = Tail(block) /\ service' \in {"selecting", "replying"}
           /\ service' = "replying" <=> block' # <<>>
           /\ replies' \in [Client -> 0..MaxSeq] /\ answered' \in [Client -> Seq(1..MaxSeq)]
           /\ NewestCached' /\ RepliesInOrder' /\ Answered(x)'
           /\ \A c \in Client : replies[c] <= replies'[c] /\ replies'[c] <= sent[c]
  <2>1. TypeInv' /\ TasksOK'
    BY <1>0, <1>1, <1>5 DEF TypeInv, TasksOK, Commands
  <2>2. OnePlace' /\ UNCHANGED <<InFlight, Places, Given>>
    BY <1>5, PlacesUnchanged DEF Given
  <2>3. InBlocks \subseteq InBlocks' \cup {x} /\ InBlocks' \subseteq InBlocks
    <3> DEFINE Rest == UNION {ToSet(b) : b \in ToSet(actions) \cup ToSet(finalized)}
    <3>1. InBlocks = Rest \cup ToSet(block)
      BY DEF InBlocks
    <3>2. InBlocks' = Rest \cup ToSet(block')
      BY <1>5 DEF InBlocks
    <3> HIDE DEF Rest
    <3> QED BY <1>1, <1>5, <3>1, <3>2
  <2>4. ClientsOK'
    BY <1>5 DEF ClientsOK, MadeByAccept
  <2>5. Backed'
    BY <1>5, <2>2, <2>3, BackedKept
  <2>6. ASSUME NEW y \in Command, Answered(y) PROVE Answered(y)'
    <3>1. y.client \in Client /\ y.seq \in 1..MaxSeq
      BY DEF Command
    <3>2. /\ replies[y.client] \in 0..MaxSeq /\ replies'[y.client] \in 0..MaxSeq
          /\ replies[y.client] <= replies'[y.client] /\ MaxSeq \in Nat
      BY <1>5, <3>1, BoundsAssumption DEF TypeInv
    <3> QED BY <2>6, <3>1, <3>2 DEF Answered
  <2>7. NothingLost'
    <3>1. Given \subseteq Command
      <4>1. \A b \in ToSet(given) : b \in Seq(Command)
        BY DEF ToSet, TypeInv, Blocks, Commands
      <4>2. \A b \in ToSet(given) : ToSet(b) \subseteq Command
        BY <4>1 DEF ToSet
      <4> QED BY <4>2 DEF Given
    <3>2. service # "ended"
      BY <1>0
    <3>3. \A y \in Command : IsSent(y)' => y \in Places' \/ Answered(y)'
      BY <1>5, <2>2, <2>6, <3>2 DEF NothingLost, Places, IsSent
    <3>4. \A y \in Given' : y \in InBlocks' \/ Answered(y)'
      BY <1>5, <2>2, <2>3, <2>6, <3>1, <3>2 DEF NothingLost
    <3> QED BY <3>3, <3>4 DEF NothingLost, Places
  <2>8. FailsForReason'
    BY <1>0, <1>5, ReasonKept
  <2> QED BY <1>5, <2>1, <2>2, <2>4, <2>5, <2>7, <2>8
<1>6. CASE /\ Duplicated(x) /\ After(Tail(block)) /\ UNCHANGED <<replies, answered>>
           /\ UNCHANGED <<server, failed, peerLeft, cancelled, client, named, sent, wire, writer, guest, incoming,
                          hand, replica, requests, actions, finalized, handled, given>>
  <2>1. RepliesInOrder' /\ NewestCached'
    BY <1>6, PlacesUnchanged, RepliesKept DEF NewestCached
  <2>2. Answered(x)' /\ \A c \in Client : replies[c] <= replies'[c] /\ replies'[c] <= sent[c]
    <3>1. replies' = replies
      BY <1>6
    <3>2. \A c \in Client : replies[c] <= replies[c] /\ replies[c] <= sent[c]
      BY DEF ClientsOK, TypeInv
    <3>3. Answered(x)
      BY <1>6 DEF Duplicated, Answered
    <3> QED BY <3>1, <3>2, <3>3 DEF Answered
  <2> QED BY <1>5, <1>6, <2>1, <2>2 DEF After, TypeInv
<1>7. CASE /\ ~Duplicated(x) /\ After(Tail(block))
           /\ replies' = [replies EXCEPT ![x.client] = x.seq]
           /\ answered' = [answered EXCEPT ![x.client] = Append(@, x.seq)]
           /\ UNCHANGED <<server, failed, peerLeft, cancelled, client, named, sent, wire, writer, guest, incoming,
                          hand, replica, requests, actions, finalized, handled, given>>
  <2>1. /\ replies[x.client] < x.seq /\ replies'[x.client] = x.seq
        /\ \A d \in Client \ {x.client} : replies'[d] = replies[d]
        /\ replies' \in [Client -> 0..MaxSeq]
    BY <1>2, <1>7, BoundsAssumption DEF Duplicated, TypeInv
  <2>2. NewestCached' /\ answered' \in [Client -> Seq(1..MaxSeq)]
        /\ \A d \in Client : \A i \in 1..(Len(answered'[d]) - 1) : answered'[d][i] <= answered'[d][i + 1]
    <3>1. replies[x.client] <= x.seq
      BY <1>2, <2>1
    <3> QED BY <1>2, <1>7, <2>1, <3>1, ReplyInOrder
  <2>3. Replies(x) = 0
    <3>1. \A i \in DOMAIN answered[x.client] : answered[x.client][i] \in 1..MaxSeq
      <4>1. answered[x.client] \in Seq(1..MaxSeq)
        BY <1>2 DEF TypeInv
      <4> QED BY <4>1, ElementOfSeq, LenProperties
    <3>2. \A i \in DOMAIN answered[x.client] : answered[x.client][i] # x.seq
      BY <1>2, <2>1, <3>1 DEF NewestCached
    <3>3. {i \in DOMAIN answered[x.client] : answered[x.client][i] = x.seq} = {}
      BY <3>2
    <3> QED BY <3>3, FS_EmptySet DEF Replies
  <2>4. ASSUME NEW y \in Command
        PROVE  Replies(y)' <= IF y \in Places' THEN 1 ELSE 2
    <3>1. Replies(y) \in Nat /\ Replies(y)' = IF y = x THEN Replies(y) + 1 ELSE Replies(y)
      <4>1. y = x <=> y.client = x.client /\ y.seq = x.seq
        BY <1>1 DEF Command
      <4> QED BY <1>2, <1>7, <4>1, ReplyAdded
    <3>2. Replies(y) <= IF y \in Places THEN 1 ELSE 2
      BY DEF RepliesInOrder, Places
    <3>3. Places' = Places
      BY <1>7, PlacesUnchanged
    <3> QED BY <2>3, <3>1, <3>2, <3>3
  <2>5. RepliesInOrder'
    BY <2>2, <2>4 DEF RepliesInOrder, Places
  <2>6. Answered(x)' /\ \A c \in Client : replies[c] <= replies'[c] /\ replies'[c] <= sent[c]
    <3>1. \A c \in Client : replies[c] \in 0..MaxSeq /\ replies[c] <= sent[c] /\ MaxSeq \in Nat
      BY BoundsAssumption DEF ClientsOK, TypeInv
    <3>2. x.seq <= sent[x.client] /\ replies[x.client] <= x.seq
      BY <1>2, <2>1, <3>1 DEF IsSent
    <3>3. Answered(x)'
      BY <1>2, <2>1 DEF Answered
    <3>4. ASSUME NEW c \in Client PROVE replies[c] <= replies'[c] /\ replies'[c] <= sent[c]
      BY <2>1, <3>1, <3>2
    <3> QED BY <3>3, <3>4
  <2> QED BY <1>5, <1>7, <2>1, <2>2, <2>5, <2>6 DEF After
<1> QED BY <1>3, <1>4, <1>6, <1>7

-----------------------------------------------------------------------------
(* The replica task.                                                           *)

(* A request that is taken from the request channel has been handled; it may be  *)
(* finalized at once.                                                          *)
LEMMA ReplicaTakes ==
  ASSUME ServerInv, requests # <<>>, requests' = Tail(requests),
         handled' = handled \cup {Head(requests)},
         UNCHANGED <<wire, incoming, hand>>
  PROVE  /\ OnePlace' /\ requests' \in Commands /\ handled' \subseteq Command
         /\ Head(requests) \in Command /\ Head(requests) \in InFlight
         /\ UNCHANGED Places
         /\ InFlight' \cup handled' = InFlight \cup handled
<1> USE DEF ServerInv
<1> DEFINE x == Head(requests)
<1>1. requests \in Seq(Command)
  BY DEF TypeInv, Commands
<1>2. /\ x \in Command /\ Tail(requests) \in Seq(Command) /\ IsInjective(Tail(requests))
      /\ ToSet(requests) = ToSet(Tail(requests)) \cup {x} /\ x \notin ToSet(Tail(requests))
  BY <1>1, SetOfTail, InjectiveTail DEF OnePlace
<1> HIDE DEF x
<1>3. x \in InFlight /\ InFlight' \cup {x} = InFlight
  BY <1>2 DEF InFlight, x
<1>4. x \notin wire \cup ToSet(incoming) \cup ToSet(hand) \cup handled
  BY <1>2 DEF OnePlace, InFlight
<1>5. handled' = handled \cup {x} /\ ToSet(requests') = ToSet(requests) \ {x}
  BY <1>2 DEF x
<1>6. OnePlace'
  BY <1>2, <1>3, <1>4, <1>5 DEF OnePlace, InFlight
<1>7. requests' \in Commands /\ handled' \subseteq Command
  BY <1>2, <1>5 DEF TypeInv, Commands
<1>8. InFlight' \cup handled' = InFlight \cup handled
  BY <1>3, <1>5
<1> QED BY <1>2, <1>3, <1>6, <1>7, <1>8 DEF Places, x

LEMMA ReplicaRequestInv ==
  ASSUME ServerInv, ReplicaRequest
  PROVE  ServerInv'
<1> USE DEF ServerInv, control, connections, serviceVars
<1>0. /\ UNCHANGED <<server, failed, peerLeft, cancelled, client, named, sent, wire, writer, service, guest, incoming,
                     hand, block, replies, replica, actions, finalized, given, answered>>
      /\ requests # <<>> /\ requests' = Tail(requests) /\ handled' = handled \cup {Head(requests)}
  BY DEF ReplicaRequest
<1>1. /\ OnePlace' /\ requests' \in Commands /\ handled' \subseteq Command
      /\ UNCHANGED <<Places, Given, InBlocks>> /\ InFlight' \cup handled' = InFlight \cup handled
  BY <1>0, ReplicaTakes, BlocksUnchanged
<1>2. TypeInv' /\ TasksOK' /\ NewestCached' /\ ClientsOK'
  BY <1>0, <1>1 DEF TypeInv, TasksOK, NewestCached, ClientsOK, MadeByAccept
<1>3. RepliesInOrder' /\ Backed' /\ NothingLost'
  BY <1>0, <1>1, RepliesKept, BackedKept, LostKept
<1>4. FailsForReason'
  BY <1>0, ReasonKept
<1> QED BY <1>1, <1>2, <1>3, <1>4

(* The blocks that the replica finalizes are those that it then hands on.         *)
LEMMA GivenAndHanded ==
  ASSUME ServerInv, actions = <<>>, NEW blocks \in Blocks,
         given' = given \o blocks, actions' = blocks, UNCHANGED <<finalized, block>>
  PROVE  /\ given' \in Blocks
         /\ Given' = Given \cup UNION {ToSet(b) : b \in ToSet(blocks)}
         /\ InBlocks' = InBlocks \cup UNION {ToSet(b) : b \in ToSet(blocks)}
<1>1. given \in Seq(Commands \ {<<>>}) /\ blocks \in Seq(Commands \ {<<>>})
  BY DEF ServerInv, TypeInv, Blocks
<1>2. ToSet(given \o blocks) = ToSet(given) \cup ToSet(blocks)
  BY <1>1, SetOfConcat
<1>3. ToSet(<<>>) = {}
  BY DEF ToSet
<1>4. given' \in Blocks
  BY <1>1, ConcatProperties DEF Blocks
<1> QED BY <1>2, <1>3, <1>4 DEF Given, InBlocks

LEMMA BlockListTyped ==
  ASSUME NEW blocks \in BlockList
  PROVE  blocks \in Blocks /\ blocks # <<>>
<1>1. blocks \in BoundedSeq(Block, MaxFinalized) \ {<<>>}
  BY DEF BlockList
<1>2. PICK m \in 0..MaxFinalized : blocks \in [1..m -> Block]
  BY <1>1 DEF BoundedSeq, SeqOf
<1>3. \A b \in Block : b \in Commands \ {<<>>}
  <2> SUFFICES ASSUME NEW b \in Block PROVE b \in Commands \ {<<>>}
    OBVIOUS
  <2>1. PICK n \in 0..MaxBatch : b \in [1..n -> Command]
    BY DEF Block, BoundedSeq, SeqOf
  <2> QED BY <2>1, BoundsAssumption DEF Block, Commands
<1>4. blocks \in Seq(Commands \ {<<>>})
  BY <1>2, <1>3, BoundsAssumption
<1> QED BY <1>1, <1>4 DEF Blocks

LEMMA ReplicaMessageInv ==
  ASSUME ServerInv, NEW blocks \in BlockList, ReplicaMessage(blocks)
  PROVE  ServerInv'
<1> USE DEF ServerInv, control, connections, serviceVars
<1> DEFINE New == UNION {ToSet(b) : b \in ToSet(blocks)}
<1>0. /\ UNCHANGED <<server, failed, peerLeft, cancelled, client, named, sent, wire, writer, service, guest, incoming,
                     hand, block, replies, requests, finalized, handled, answered>>
      /\ replica = "selecting" /\ replica' = "finalizing" /\ actions = <<>>
      /\ given' = given \o blocks /\ actions' = blocks
      /\ \A x \in New : IsSent(x)
  BY DEF ReplicaMessage, TasksOK
<1>1. blocks \in Blocks /\ blocks # <<>>
  BY BlockListTyped
<1>2. given' \in Blocks /\ Given' = Given \cup New /\ InBlocks' = InBlocks \cup New
  BY <1>0, <1>1, GivenAndHanded
<1> HIDE DEF New
<1>3. TypeInv' /\ TasksOK' /\ NewestCached' /\ ClientsOK'
  BY <1>0, <1>1, <1>2 DEF TypeInv, TasksOK, NewestCached, ClientsOK, MadeByAccept
<1>4. OnePlace' /\ UNCHANGED <<InFlight, Places>>
  BY <1>0, PlacesUnchanged
<1>5. RepliesInOrder'
  BY <1>0, <1>4, RepliesKept
<1>6. Backed'
  BY <1>0, <1>2, <1>4 DEF Backed, IsSent
<1>7. NothingLost'
  BY <1>0, <1>2, <1>4 DEF NothingLost, IsSent, Answered
<1>8. FailsForReason'
  BY <1>0, ReasonKept
<1> QED BY <1>3, <1>4, <1>5, <1>6, <1>7, <1>8

LEMMA EchoInv ==
  ASSUME ServerInv, Echo
  PROVE  ServerInv'
<1> USE DEF ServerInv, control, connections, serviceVars
<1> DEFINE x == Head(requests)
           New == {x}
<1>0. /\ UNCHANGED <<server, failed, peerLeft, cancelled, client, named, sent, wire, writer, service, guest, incoming,
                     hand, block, replies, finalized, answered>>
      /\ replica = "selecting" /\ replica' = "finalizing" /\ actions = <<>>
      /\ requests # <<>> /\ requests' = Tail(requests) /\ handled' = handled \cup {Head(requests)}
      /\ given' = Append(given, <<x>>) /\ actions' = <<<<x>>>>
  BY DEF Echo, TasksOK
<1>1. /\ OnePlace' /\ requests' \in Commands /\ handled' \subseteq Command
      /\ UNCHANGED Places /\ InFlight' \cup handled' = InFlight \cup handled
      /\ x \in Command /\ x \in InFlight
  BY <1>0, ReplicaTakes
<1> HIDE DEF x
<1>2. <<x>> \in Commands \ {<<>>} /\ <<<<x>>>> \in Blocks /\ <<<<x>>>> # <<>>
  BY <1>1 DEF Commands, Blocks
<1>3. /\ ToSet(<<x>>) = {x} /\ ToSet(<<<<x>>>>) = {<<x>>}
      /\ given' = given \o <<<<x>>>>
  <2>1. ToSet(<<x>>) = {x}
    BY <1>1, SetOfOne, EmptySeq
  <2>2. /\ ToSet(<<<<x>>>>) = {<<x>>} /\ given \o <<<<x>>>> = Append(given, <<x>>)
    <3> DEFINE c == <<x>>
    <3>1. c \in Commands \ {<<>>} /\ given \in Seq(Commands \ {<<>>})
      BY <1>2 DEF TypeInv, Blocks
    <3> HIDE DEF c
    <3>2. ToSet(<<c>>) = {c} /\ given \o <<c>> = Append(given, c)
      BY <3>1, SetOfOne
    <3> QED BY <3>2 DEF c
  <2> QED BY <1>0, <2>1, <2>2
<1>4. given' \in Blocks /\ Given' = Given \cup New /\ InBlocks' = InBlocks \cup New
  <2>1. UNION {ToSet(b) : b \in ToSet(<<<<x>>>>)} = {x}
    BY <1>3
  <2> QED BY <1>0, <1>2, <1>3, <2>1, GivenAndHanded
<1>5. IsSent(x)
  BY <1>1 DEF Backed
<1>6. TypeInv' /\ TasksOK' /\ NewestCached' /\ ClientsOK'
  BY <1>0, <1>1, <1>2, <1>4 DEF TypeInv, TasksOK, NewestCached, ClientsOK, MadeByAccept
<1>7. RepliesInOrder'
  BY <1>0, <1>1, RepliesKept
<1>8. Backed'
  BY <1>0, <1>1, <1>4, <1>5 DEF Backed, IsSent
<1>9. NothingLost'
  BY <1>0, <1>1, <1>4 DEF NothingLost, IsSent, Answered, Places
<1>10. FailsForReason'
  BY <1>0, ReasonKept
<1> QED BY <1>1, <1>6, <1>7, <1>8, <1>9, <1>10

LEMMA FinalizeInv ==
  ASSUME ServerInv, Finalize
  PROVE  ServerInv'
<1> USE DEF ServerInv, control, connections, serviceVars
<1>0. replica = "finalizing" /\ actions \in Seq(Commands \ {<<>>}) /\ actions # <<>>
      /\ finalized \in Seq(Commands \ {<<>>})
  BY DEF Finalize, TasksOK, TypeInv, Blocks
<1>1. CASE service = "ended" /\ Fail
  <2>1. cancelled
    BY <1>0, <1>1 DEF TasksOK
  <2> QED BY <1>1, <2>1, StopInv DEF Fail
<1>2. CASE /\ service # "ended"
           /\ finalized' = Append(finalized, Head(actions))
           /\ actions' = Tail(actions)
           /\ replica' = IF Tail(actions) = <<>> THEN "selecting" ELSE "finalizing"
           /\ UNCHANGED <<control, connections, serviceVars, requests, handled, given, answered>>
  <2>1. /\ Head(actions) \in Commands \ {<<>>} /\ actions' \in Blocks
        /\ ToSet(actions) = {Head(actions)} \cup ToSet(actions')
    BY <1>0, <1>2, SetOfTail DEF Blocks
  <2>2. finalized' \in Blocks /\ ToSet(finalized') = ToSet(finalized) \cup {Head(actions)}
    BY <1>0, <1>2, <2>1, SetOfAppend, AppendProperties DEF Blocks
  <2>3. UNCHANGED <<InBlocks, Given>>
    <3>1. ToSet(actions) \cup ToSet(finalized) = ToSet(actions') \cup ToSet(finalized')
      BY <2>1, <2>2
    <3> QED BY <1>2, <3>1 DEF InBlocks, Given
  <2>4. TypeInv' /\ TasksOK' /\ NewestCached' /\ ClientsOK'
    BY <1>2, <2>1, <2>2 DEF TypeInv, TasksOK, NewestCached, ClientsOK, MadeByAccept
  <2>5. OnePlace' /\ UNCHANGED <<InFlight, Places>>
    BY <1>2, PlacesUnchanged
  <2>6. RepliesInOrder' /\ Backed' /\ NothingLost'
    BY <1>2, <2>3, <2>5, RepliesKept, BackedKept, LostKept
  <2>7. FailsForReason'
    BY <1>2, ReasonKept
  <2> QED BY <2>4, <2>5, <2>6, <2>7
<1> QED BY <1>1, <1>2 DEF Finalize

-----------------------------------------------------------------------------
LEMMA InitInv == Init => ServerInv
<1> SUFFICES ASSUME Init PROVE ServerInv
  OBVIOUS
<1> USE DEF Init
<1>1. ToSet(<<>>) = {} /\ IsInjective(<<>>) /\ \A S : <<>> \in Seq(S)
  BY EmptySeq DEF ToSet, IsInjective
<1>2. InFlight = {} /\ Given = {} /\ InBlocks = {}
  BY <1>1 DEF InFlight, Given, InBlocks
<1>3. TypeInv /\ TasksOK /\ NewestCached /\ ClientsOK
  BY <1>1, BoundsAssumption DEF TypeInv, TasksOK, NewestCached, ClientsOK, MadeByAccept, Commands, Blocks
<1>4. OnePlace /\ Backed
  BY <1>1, <1>2 DEF OnePlace, Backed
<1>5. RepliesInOrder
  <2>1. \A c \in Client : answered[c] = <<>> /\ Len(answered[c]) = 0 /\ DOMAIN answered[c] = {}
    OBVIOUS
  <2>2. \A x \in Command : Replies(x) = 0
    <3> SUFFICES ASSUME NEW x \in Command PROVE Replies(x) = 0
      OBVIOUS
    <3>1. {i \in DOMAIN answered[x.client] : answered[x.client][i] = x.seq} = {}
      BY <2>1 DEF Command
    <3> QED BY <3>1, FS_EmptySet DEF Replies
  <2> QED BY <2>1, <2>2 DEF RepliesInOrder
<1>6. NothingLost
  BY <1>2, BoundsAssumption DEF NothingLost, IsSent, Command
<1>7. FailsForReason
  BY DEF FailsForReason
<1> QED BY <1>3, <1>4, <1>5, <1>6, <1>7 DEF ServerInv

LEMMA StutterInv == ServerInv /\ UNCHANGED vars => ServerInv'
<1> SUFFICES ASSUME ServerInv, UNCHANGED vars PROVE ServerInv'
  OBVIOUS
<1> USE DEF ServerInv, vars, control, connections, serviceVars, replicaVars
<1>1. TypeInv' /\ TasksOK' /\ NewestCached' /\ ClientsOK'
  BY DEF TypeInv, TasksOK, NewestCached, ClientsOK, MadeByAccept
<1>2. OnePlace' /\ UNCHANGED <<InFlight, Places, Given, InBlocks>>
  BY PlacesUnchanged, BlocksUnchanged
<1>3. RepliesInOrder' /\ Backed' /\ NothingLost'
  BY <1>2, RepliesKept, BackedKept, LostKept
<1>4. FailsForReason'
  BY ReasonKept
<1> QED BY <1>1, <1>2, <1>3, <1>4

LEMMA NextInv == ServerInv /\ [Next]_vars => ServerInv'
<1> SUFFICES ASSUME ServerInv, [Next]_vars PROVE ServerInv'
  OBVIOUS
<1>1. ASSUME NEW c \in Client,
             \/ Connect(c) \/ Name(c) \/ Send(c) \/ Leave(c) \/ Write(c)
             \/ Accept(c) \/ Handshake(c) \/ Identify(c) \/ AcceptFails(c)
      PROVE  ServerInv'
  <2>1. CASE Connect(c) \/ Name(c) \/ Send(c) \/ Leave(c) \/ Write(c)
    BY <2>1, ConnectionInv, SendInv
  <2>2. CASE Accept(c) \/ Handshake(c) \/ Identify(c)
    BY <2>2, AcceptInv
  <2>3. CASE AcceptFails(c)
    BY <2>3, StopInv DEF AcceptFails, Fail
  <2> QED BY <1>1, <2>1, <2>2, <2>3
<1>2. ASSUME NEW x \in Command, Read(x) PROVE ServerInv'
  BY <1>2, ReadInv
<1>3. CASE Cancel \/ Boot \/ ReplicaEnds \/ NoticeCancel \/ Drop
  BY <1>3, CancelInv, NoticeCancelInv, DropInv
<1>4. CASE TakeMessage \/ TakeFinalized \/ ServiceSends
  BY <1>4, TakeMessageInv, TakeFinalizedInv, SendRequestInv, ResendInv, ReplyInv DEF ServiceSends
<1>5. CASE ReplicaRequest \/ Echo \/ Finalize
  BY <1>5, ReplicaRequestInv, EchoInv, FinalizeInv
<1>6. CASE PeerLeaves
  BY <1>6, StopInv DEF PeerLeaves
<1>7. ASSUME NEW blocks \in BlockList, ReplicaMessage(blocks) PROVE ServerInv'
  BY <1>7, ReplicaMessageInv
<1>8. CASE UNCHANGED vars
  BY <1>8, StutterInv
<1> QED BY <1>1, <1>2, <1>3, <1>4, <1>5, <1>6, <1>7, <1>8 DEF Next, ServiceStep, ReplicaReceives

(* Every reachable state of a server satisfies the invariant, for any clients and  *)
(* capacities, over QUIC and TCP and without replication (transport.rs,            *)
(* transport/tcp.rs, unreplicated.rs).                                            *)
THEOREM ServerInvariant == Spec => []ServerInv
BY InitInv, NextInv, PTL DEF Spec

(* A client gets the replies of a server in the order of its requests, and each    *)
(* once, or twice when the request came after it was answered, whatever the        *)
(* replica finalizes (ServiceTask::run, on_finalized).                             *)
THEOREM ServerRepliesInOrder == Spec => []RepliesInOrder
<1>1. ServerInv => RepliesInOrder
  BY DEF ServerInv
<1> QED BY <1>1, ServerInvariant, PTL

(* While a server runs, no request is lost before the replica has handled it, and   *)
(* no finalized command before its client has been replied to (checked_send, the     *)
(* channels of transport.rs).                                                      *)
THEOREM ServerLosesNothing == Spec => []NothingLost
<1>1. ServerInv => NothingLost
  BY DEF ServerInv
<1> QED BY <1>1, ServerInvariant, PTL

(* A server ends with an error for one of five reasons only: another replica has    *)
(* ended or was not reached, the server was cancelled, a client left without its     *)
(* replies or while it was being accepted, or a TCP client waits to be accepted       *)
(* (server_task, checked_send, transport.rs:205-219, transport/tcp.rs:156-171).      *)
THEOREM ServerFailsForReason == Spec => []FailsForReason
<1>1. ServerInv => FailsForReason
  BY DEF ServerInv
<1> QED BY <1>1, ServerInvariant, PTL
=============================================================================
