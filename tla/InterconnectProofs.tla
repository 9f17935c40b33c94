--------------------------- MODULE InterconnectProofs ---------------------------
(* What holds of the connections between replicas, for any services, capacities, sizes *)
(* of messages and chunks in which they are read.                                   *)
EXTENDS Interconnect, SetLemmas, SequenceTheorems

Msg == [n : Nat, size : Nat \ {0}]
Unit == [n : Nat, part : Nat, size : Nat]
Item == [from : Replica, n : Nat]

Numbered(sent) == sent \in Seq(Msg) /\ \A k \in 1..Len(sent) : sent[k].n = k

(* The body of InOnePlace: messages up to a are handed on, and those up to b have left  *)
(* the write channel.                                                              *)
SentUnits(sent, a, b) == UNION {ToSet(Units(sent[n])) : n \in (a + 1)..b}
Ascends(units) == \A p, q \in DOMAIN units : p < q => Before(units[p], units[q])
FromIn(r, channel) == {x.n : x \in {y \in ToSet(channel) : y.from = r}}
InTurn(r, channel) ==
  \A p, q \in DOMAIN channel :
    p < q /\ channel[p].from = r /\ channel[q].from = r => channel[p].n < channel[q].n

Placed(r, sent, taken, channel, units, waiting, a, b) ==
  /\ a \in 0..Len(sent) /\ b \in 0..Len(sent) /\ Len(taken) <= a /\ a <= b
  /\ taken = [k \in 1..Len(taken) |-> k]
  /\ FromIn(r, channel) = (Len(taken) + 1)..a
  /\ InTurn(r, channel)
  /\ ToSet(units) = SentUnits(sent, a, b)
  /\ Ascends(units)
  /\ waiting = SubSeq(sent, b + 1, Len(sent))

LEMMA PlacedMeans ==
  ASSUME NEW r, NEW sent, NEW taken, NEW channel, NEW units, NEW waiting
  PROVE  InOnePlace(r, sent, taken, channel, units, waiting)
           <=> \E a, b : Placed(r, sent, taken, channel, units, waiting, a, b)
BY DEF InOnePlace, Placed, SentUnits, Ascends, FromIn, InTurn

-----------------------------------------------------------------------------
LEMMA UnitsFacts ==
  ASSUME NEW m \in Msg
  PROVE  /\ Units(m) \in Seq(Unit) /\ Len(Units(m)) = m.size /\ DOMAIN Units(m) = 1..m.size
         /\ \A p \in 1..m.size : Units(m)[p] = [n |-> m.n, part |-> p, size |-> m.size]
         /\ Ascends(Units(m))
<1>1. m.n \in Nat /\ m.size \in Nat
  BY DEF Msg
<1>2. \A p \in 1..m.size : [n |-> m.n, part |-> p, size |-> m.size] \in Unit
  BY <1>1 DEF Unit
<1>3. Units(m) \in [1..m.size -> Unit]
  BY <1>2 DEF Units
<1>4. Units(m) \in Seq(Unit) /\ Len(Units(m)) = m.size
  BY <1>1, <1>3
<1>5. \A p \in 1..m.size : Units(m)[p] = [n |-> m.n, part |-> p, size |-> m.size]
  BY DEF Units
<1>6. Ascends(Units(m))
  <2> SUFFICES ASSUME NEW p \in 1..m.size, NEW q \in 1..m.size, p < q
               PROVE  Before(Units(m)[p], Units(m)[q])
    BY <1>3 DEF Ascends
  <2>1. /\ Units(m)[p] = [n |-> m.n, part |-> p, size |-> m.size]
        /\ Units(m)[q] = [n |-> m.n, part |-> q, size |-> m.size]
    BY <1>5
  <2> QED BY <2>1 DEF Before
<1> QED BY <1>3, <1>4, <1>5, <1>6

LEMMA SentUnit ==
  ASSUME NEW sent, Numbered(sent), NEW a \in Nat, NEW b \in Nat, b <= Len(sent)
  PROVE  \A u : u \in SentUnits(sent, a, b) <=>
           /\ u \in Unit /\ u.n \in (a + 1)..b /\ u.part \in 1..sent[u.n].size
           /\ u.size = sent[u.n].size
<1> TAKE u
<1>1. Len(sent) \in Nat /\ \A k \in (a + 1)..b : k \in 1..Len(sent) /\ sent[k] \in Msg /\ sent[k].n = k
  BY DEF Numbered
<1>2. ASSUME u \in SentUnits(sent, a, b)
      PROVE  /\ u \in Unit /\ u.n \in (a + 1)..b /\ u.part \in 1..sent[u.n].size
             /\ u.size = sent[u.n].size
  <2>1. PICK k \in (a + 1)..b : u \in ToSet(Units(sent[k]))
    BY <1>2 DEF SentUnits
  <2>2. sent[k] \in Msg /\ sent[k].n = k /\ sent[k].size \in Nat
    BY <1>1 DEF Msg
  <2>3. PICK p \in 1..sent[k].size : u = Units(sent[k])[p]
    BY <2>1, <2>2, UnitsFacts DEF ToSet
  <2>4. u = [n |-> k, part |-> p, size |-> sent[k].size]
    BY <2>2, <2>3, UnitsFacts
  <2> QED BY <2>2, <2>4 DEF Unit
<1>3. ASSUME u \in Unit, u.n \in (a + 1)..b, u.part \in 1..sent[u.n].size,
             u.size = sent[u.n].size
      PROVE  u \in SentUnits(sent, a, b)
  <2>1. sent[u.n] \in Msg /\ sent[u.n].n = u.n
    BY <1>1, <1>3
  <2>2. u = [n |-> u.n, part |-> u.part, size |-> u.size]
    BY <1>3 DEF Unit
  <2>3. u = Units(sent[u.n])[u.part] /\ u.part \in DOMAIN Units(sent[u.n])
    BY <1>3, <2>1, <2>2, UnitsFacts
  <2>4. u \in ToSet(Units(sent[u.n]))
    BY <2>3 DEF ToSet
  <2> QED BY <1>3, <2>4 DEF SentUnits
<1> QED BY <1>2, <1>3

LEMMA UnitsAssociative ==
  ASSUME NEW s \in Seq(Unit), NEW t \in Seq(Unit), NEW u \in Seq(Unit)
  PROVE  (s \o t) \o u = s \o (t \o u)
BY ConcatAssociative, SMT

(* A concatenation contains what its parts contain, and ascends if they do.           *)
LEMMA ConcatUnits ==
  ASSUME NEW S, NEW s \in Seq(S), NEW t \in Seq(S)
  PROVE  /\ ToSet(s \o t) = ToSet(s) \cup ToSet(t)
         /\ Ascends(s \o t) <=>
              /\ Ascends(s) /\ Ascends(t)
              /\ \A u \in ToSet(s), v \in ToSet(t) : Before(u, v)
<1> DEFINE c == s \o t
<1>1. /\ Len(s) \in Nat /\ Len(t) \in Nat /\ DOMAIN s = 1..Len(s) /\ DOMAIN t = 1..Len(t)
      /\ c \in Seq(S) /\ Len(c) = Len(s) + Len(t) /\ DOMAIN c = 1..(Len(s) + Len(t))
      /\ \A i \in 1..(Len(s) + Len(t)) : c[i] = IF i <= Len(s) THEN s[i] ELSE t[i - Len(s)]
  BY ConcatProperties, LenProperties
<1> HIDE DEF c
<1>2. /\ \A i \in 1..Len(s) : i \in DOMAIN c /\ c[i] = s[i]
      /\ \A i \in 1..Len(t) : Len(s) + i \in DOMAIN c /\ c[Len(s) + i] = t[i]
      /\ \A i \in DOMAIN c : i \in 1..Len(s) \/ \E j \in 1..Len(t) : i = Len(s) + j
  <2>1. \A i \in 1..Len(s) : i \in DOMAIN c /\ c[i] = s[i]
    BY <1>1
  <2>2. ASSUME NEW i \in 1..Len(t) PROVE Len(s) + i \in DOMAIN c /\ c[Len(s) + i] = t[i]
    <3>1. Len(s) + i \in 1..(Len(s) + Len(t)) /\ ~(Len(s) + i <= Len(s)) /\ Len(s) + i - Len(s) = i
      BY <1>1
    <3> QED BY <1>1, <3>1
  <2>3. ASSUME NEW i \in DOMAIN c, i \notin 1..Len(s) PROVE \E j \in 1..Len(t) : i = Len(s) + j
    <3>1. i - Len(s) \in 1..Len(t) /\ i = Len(s) + (i - Len(s))
      BY <1>1, <2>3
    <3> QED BY <3>1
  <2> QED BY <2>1, <2>2, <2>3
<1>3. ToSet(c) = ToSet(s) \cup ToSet(t)
  <2>1. ASSUME NEW u \in ToSet(c) PROVE u \in ToSet(s) \cup ToSet(t)
    <3>1. PICK i \in DOMAIN c : u = c[i]
      BY DEF ToSet
    <3>2. CASE i \in 1..Len(s)
      BY <1>1, <1>2, <3>1, <3>2 DEF ToSet
    <3>3. CASE i \notin 1..Len(s)
      <4>1. PICK j \in 1..Len(t) : i = Len(s) + j
        BY <1>2, <3>3
      <4>2. u = t[j]
        BY <1>2, <3>1, <4>1
      <4> QED BY <1>1, <4>2 DEF ToSet
    <3> QED BY <3>2, <3>3
  <2>2. ASSUME NEW u \in ToSet(s) \cup ToSet(t) PROVE u \in ToSet(c)
    <3>1. CASE u \in ToSet(s)
      <4>1. PICK i \in 1..Len(s) : u = s[i]
        BY <1>1, <3>1 DEF ToSet
      <4> QED BY <1>2, <4>1 DEF ToSet
    <3>2. CASE u \in ToSet(t)
      <4>1. PICK i \in 1..Len(t) : u = t[i]
        BY <1>1, <3>2 DEF ToSet
      <4>2. Len(s) + i \in DOMAIN c /\ c[Len(s) + i] = u
        BY <1>2, <4>1
      <4> QED BY <4>2 DEF ToSet
    <3> QED BY <3>1, <3>2
  <2> QED BY <2>1, <2>2
<1>4. ASSUME Ascends(c)
      PROVE  /\ Ascends(s) /\ Ascends(t) /\ \A u \in ToSet(s), v \in ToSet(t) : Before(u, v)
  <2>1. Ascends(s)
    BY <1>1, <1>2, <1>4 DEF Ascends
  <2>2. Ascends(t)
    <3> SUFFICES ASSUME NEW p \in 1..Len(t), NEW q \in 1..Len(t), p < q PROVE Before(t[p], t[q])
      BY <1>1 DEF Ascends
    <3>1. Len(s) + p < Len(s) + q
      BY <1>1
    <3> QED BY <1>2, <1>4, <3>1 DEF Ascends
  <2>3. ASSUME NEW u \in ToSet(s), NEW v \in ToSet(t) PROVE Before(u, v)
    <3>1. PICK p \in 1..Len(s) : u = s[p]
      BY <1>1 DEF ToSet
    <3>2. PICK q \in 1..Len(t) : v = t[q]
      BY <1>1 DEF ToSet
    <3>3. p < Len(s) + q
      BY <1>1
    <3> QED BY <1>2, <1>4, <3>1, <3>2, <3>3 DEF Ascends
  <2> QED BY <2>1, <2>2, <2>3
<1>5. ASSUME Ascends(s), Ascends(t), \A u \in ToSet(s), v \in ToSet(t) : Before(u, v)
      PROVE  Ascends(c)
  <2> SUFFICES ASSUME NEW p \in DOMAIN c, NEW q \in DOMAIN c, p < q PROVE Before(c[p], c[q])
    BY DEF Ascends
  <2>1. CASE p \in 1..Len(s) /\ q \in 1..Len(s)
    BY <1>1, <1>2, <1>5, <2>1 DEF Ascends
  <2>2. CASE p \in 1..Len(s) /\ q \notin 1..Len(s)
    <3>1. c[p] \in ToSet(s) /\ c[q] \in ToSet(t)
      BY <1>1, <1>2, <2>2 DEF ToSet
    <3> QED BY <1>5, <3>1
  <2>3. CASE p \notin 1..Len(s)
    <3>1. PICK i \in 1..Len(t) : p = Len(s) + i
      BY <1>2, <2>3
    <3>2. q \notin 1..Len(s)
      BY <1>1, <3>1
    <3>3. PICK j \in 1..Len(t) : q = Len(s) + j
      BY <1>2, <3>2
    <3>4. i < j /\ c[p] = t[i] /\ c[q] = t[j]
      BY <1>1, <1>2, <3>1, <3>3
    <3> QED BY <1>1, <1>5, <3>4 DEF Ascends
  <2> QED BY <2>1, <2>2, <2>3
<1> QED BY <1>3, <1>4, <1>5 DEF c

-----------------------------------------------------------------------------
(* What is on a connection.                                                        *)
OnWire(sent, a, b, units) ==
  /\ Numbered(sent) /\ a \in Nat /\ b \in Nat /\ a <= b /\ b <= Len(sent)
  /\ units \in Seq(Unit) /\ ToSet(units) = SentUnits(sent, a, b) /\ Ascends(units)

(* It starts with the next message.                                                *)
LEMMA FirstUnit ==
  ASSUME NEW sent, NEW a, NEW b, NEW units, OnWire(sent, a, b, units), units # <<>>
  PROVE  /\ a + 1 \in 1..Len(sent) /\ a + 1 <= b
         /\ units[1].n = a + 1 /\ units[1].part = 1 /\ units[1].size = sent[a + 1].size
         /\ sent[a + 1].size \in Nat \ {0}
<1>1. /\ a \in Nat /\ b \in Nat /\ Len(sent) \in Nat /\ Len(units) \in Nat \ {0}
      /\ DOMAIN units = 1..Len(units) /\ 1 \in DOMAIN units
  BY EmptySeq, LenProperties DEF OnWire, Numbered
<1>2. /\ units[1] \in SentUnits(sent, a, b) /\ units[1] \in Unit
      /\ units[1].n \in (a + 1)..b /\ units[1].part \in 1..sent[units[1].n].size
      /\ units[1].size = sent[units[1].n].size
  <2>1. units[1] \in ToSet(units)
    BY <1>1 DEF ToSet
  <2> QED BY <2>1, SentUnit DEF OnWire
<1>3. a + 1 <= b /\ a + 1 \in 1..Len(sent) /\ units[1].n \in Nat /\ units[1].part \in Nat
  BY <1>1, <1>2 DEF OnWire, Unit
<1>4. sent[a + 1] \in Msg /\ sent[a + 1].size \in Nat \ {0}
  <2>1. sent[a + 1] \in Msg
    BY <1>3, ElementOfSeq DEF OnWire, Numbered
  <2> QED BY <2>1 DEF Msg
<1> DEFINE f == [n |-> a + 1, part |-> 1, size |-> sent[a + 1].size]
<1>5. f \in SentUnits(sent, a, b)
  <2>1. f \in Unit /\ f.n = a + 1 /\ f.part = 1 /\ f.size = sent[a + 1].size
    BY <1>1, <1>4 DEF Unit
  <2> HIDE DEF f
  <2>2. f.n \in (a + 1)..b /\ f.part \in 1..sent[f.n].size /\ f.size = sent[f.n].size
    BY <1>1, <1>3, <1>4, <2>1
  <2> QED BY <2>1, <2>2, SentUnit DEF OnWire
<1>6. PICK k \in DOMAIN units : f = units[k]
  BY <1>5 DEF OnWire, ToSet
<1>7. k = 1
  <2> SUFFICES ASSUME k # 1 PROVE FALSE
    OBVIOUS
  <2>1. Before(units[1], units[k])
    BY <1>1 DEF OnWire, Ascends
  <2>2. units[k].n = a + 1 /\ units[k].part = 1
    BY <1>6
  <2> QED BY <1>1, <1>2, <1>3, <2>1, <2>2 DEF Before
<1>8. units[1].n = a + 1 /\ units[1].part = 1 /\ units[1].size = sent[a + 1].size
  BY <1>6, <1>7
<1> QED BY <1>3, <1>4, <1>8

(* And goes on with the other units of that message.                                *)
LEMMA FirstParts ==
  ASSUME NEW sent, NEW a, NEW b, NEW units, OnWire(sent, a, b, units), units # <<>>,
         NEW K \in Nat, K <= sent[a + 1].size, K <= Len(units), NEW p \in 1..K
  PROVE  units[p].n = a + 1 /\ units[p].part = p
<1> DEFINE C == {c \in 1..K : ~(units[c].n = a + 1 /\ units[c].part = c)}
<1>1. /\ a \in Nat /\ b \in Nat /\ Len(sent) \in Nat /\ Len(units) \in Nat
      /\ DOMAIN units = 1..Len(units) /\ \A c \in 1..K : c \in DOMAIN units
      /\ \A c \in DOMAIN units : units[c].n \in Nat /\ units[c].part \in Nat
  <2>1. /\ a \in Nat /\ b \in Nat /\ Len(sent) \in Nat /\ Len(units) \in Nat
        /\ DOMAIN units = 1..Len(units) /\ units \in Seq(Unit)
    BY LenProperties DEF OnWire, Numbered
  <2>2. \A c \in DOMAIN units : units[c] \in Unit
    BY <2>1, ElementOfSeq
  <2> QED BY <2>1, <2>2 DEF Unit
<1>2. /\ a + 1 \in 1..Len(sent) /\ a + 1 <= b
      /\ units[1].n = a + 1 /\ units[1].part = 1 /\ sent[a + 1].size \in Nat
  BY FirstUnit
<1> SUFFICES ASSUME C # {} PROVE FALSE
  OBVIOUS
<1>3. PICK c \in C : \A d \in C : c <= d
  <2>1. C \in SUBSET (0..K)
    OBVIOUS
  <2> HIDE DEF C
  <2> QED BY <2>1, LeastExists
<1>4. c \in 1..K /\ c # 1 /\ ~(units[c].n = a + 1 /\ units[c].part = c)
  BY <1>2
<1>5. \A d \in 1..K : d < c => units[d].n = a + 1 /\ units[d].part = d
  BY <1>3
<1> HIDE DEF C
<1> DEFINE g == [n |-> a + 1, part |-> c, size |-> sent[a + 1].size]
<1>6. g \in SentUnits(sent, a, b)
  <2>1. g \in Unit /\ g.n = a + 1 /\ g.part = c /\ g.size = sent[a + 1].size
    BY <1>1, <1>2, <1>4 DEF Unit
  <2> HIDE DEF g
  <2>2. g.n \in (a + 1)..b /\ g.part \in 1..sent[g.n].size /\ g.size = sent[g.n].size
    BY <1>1, <1>2, <1>4, <2>1
  <2> QED BY <1>1, <2>1, <2>2, SentUnit DEF OnWire
<1>7. PICK k \in DOMAIN units : g = units[k]
  BY <1>6 DEF OnWire, ToSet
<1>8. units[k].n = a + 1 /\ units[k].part = c
  BY <1>7
<1>9. CASE k = c
  BY <1>4, <1>8, <1>9
<1>10. CASE k < c
  BY <1>1, <1>4, <1>5, <1>8, <1>10
<1>11. CASE k > c
  <2>1. Before(units[c - 1], units[c]) /\ Before(units[c], units[k])
    BY <1>1, <1>4, <1>11 DEF OnWire, Ascends
  <2>2. units[c - 1].n = a + 1 /\ units[c - 1].part = c - 1
    BY <1>1, <1>4, <1>5
  <2>3. units[c].n \in Nat /\ units[c].part \in Nat
    BY <1>1, <1>4
  <2> QED BY <1>1, <1>4, <1>8, <2>1, <2>2, <2>3 DEF Before
<1> QED BY <1>1, <1>4, <1>9, <1>10, <1>11

-----------------------------------------------------------------------------
(* What is in a message channel.                                                   *)
LEMMA ChannelAppend ==
  ASSUME NEW channel \in Seq(Item), NEW x \in Item, NEW q
  PROVE  /\ FromIn(q, Append(channel, x)) =
              FromIn(q, channel) \cup (IF x.from = q THEN {x.n} ELSE {})
         /\ InTurn(q, channel) /\ (x.from = q => \A n \in FromIn(q, channel) : n < x.n)
              => InTurn(q, Append(channel, x))
<1> DEFINE c == Append(channel, x)
           L == Len(channel)
<1>1. /\ L \in Nat /\ DOMAIN channel = 1..L /\ DOMAIN c = 1..(L + 1)
      /\ \A i \in 1..L : c[i] = channel[i]
      /\ c[L + 1] = x
  BY AppendProperties, LenProperties
<1> HIDE DEF c
<1>2. ToSet(c) = ToSet(channel) \cup {x}
  <2>1. \A i \in 1..(L + 1) : i \in 1..L \/ i = L + 1
    BY <1>1
  <2>2. \A i : i \in 1..L => i \in 1..(L + 1)
    BY <1>1
  <2>3. L + 1 \in 1..(L + 1)
    BY <1>1
  <2> QED BY <1>1, <2>1, <2>2, <2>3 DEF ToSet
<1>3. FromIn(q, c) = FromIn(q, channel) \cup (IF x.from = q THEN {x.n} ELSE {})
  BY <1>2 DEF FromIn
<1>4. ASSUME InTurn(q, channel), x.from = q => \A n \in FromIn(q, channel) : n < x.n
      PROVE  InTurn(q, c)
  <2> SUFFICES ASSUME NEW i \in 1..(L + 1), NEW j \in 1..(L + 1), i < j,
                      c[i].from = q, c[j].from = q
               PROVE  c[i].n < c[j].n
    BY <1>1 DEF InTurn
  <2>1. i \in 1..L
    BY <1>1
  <2>2. CASE j \in 1..L
    BY <1>1, <1>4, <2>1, <2>2 DEF InTurn
  <2>3. CASE j \notin 1..L
    <3>1. j = L + 1 /\ c[j] = x
      BY <1>1, <2>3
    <3>2. c[i].n \in FromIn(q, channel)
      <4>1. channel[i] \in ToSet(channel) /\ channel[i] = c[i]
        BY <1>1, <2>1 DEF ToSet
      <4> QED BY <4>1 DEF FromIn
    <3> QED BY <1>4, <3>1, <3>2
  <2> QED BY <2>2, <2>3
<1> QED BY <1>3, <1>4 DEF c

LEMMA ChannelTail ==
  ASSUME NEW channel \in Seq(Item), channel # <<>>, NEW q, InTurn(q, channel)
  PROVE  LET x == Head(channel) IN
         /\ x \in Item /\ Tail(channel) \in Seq(Item)
         /\ FromIn(q, channel) =
              FromIn(q, Tail(channel)) \cup (IF x.from = q THEN {x.n} ELSE {})
         /\ InTurn(q, Tail(channel))
         /\ x.from = q => \A n \in FromIn(q, Tail(channel)) : x.n < n
<1> DEFINE x == Head(channel)
           t == Tail(channel)
           L == Len(t)
<1>1. /\ x \in Item /\ t \in Seq(Item) /\ L \in Nat /\ DOMAIN t = 1..L
      /\ DOMAIN channel = 1..(L + 1)
      /\ x = channel[1] /\ \A i \in 1..L : t[i] = channel[i + 1]
  BY HeadTailProperties, LenProperties, EmptySeq
<1> HIDE DEF x, t
<1>2. /\ \A i \in 1..L : i + 1 \in DOMAIN channel
      /\ \A i \in DOMAIN channel : i = 1 \/ \E j \in 1..L : i = j + 1
      /\ 1 \in DOMAIN channel
  <2>1. ASSUME NEW i \in DOMAIN channel, i # 1 PROVE \E j \in 1..L : i = j + 1
    <3>1. i - 1 \in 1..L /\ i = (i - 1) + 1
      BY <1>1, <2>1
    <3> QED BY <3>1
  <2> QED BY <1>1, <2>1
<1>3. ToSet(channel) = ToSet(t) \cup {x}
  <2>1. ASSUME NEW y \in ToSet(channel) PROVE y \in ToSet(t) \cup {x}
    <3>1. PICK i \in DOMAIN channel : y = channel[i]
      BY DEF ToSet
    <3> QED BY <1>1, <1>2, <3>1 DEF ToSet
  <2>2. ASSUME NEW y \in ToSet(t) \cup {x} PROVE y \in ToSet(channel)
    BY <1>1, <1>2, <2>2 DEF ToSet
  <2> QED BY <2>1, <2>2
<1>4. FromIn(q, channel) = FromIn(q, t) \cup (IF x.from = q THEN {x.n} ELSE {})
  BY <1>3 DEF FromIn
<1>5. InTurn(q, t)
  <2> SUFFICES ASSUME NEW i \in 1..L, NEW j \in 1..L, i < j, t[i].from = q, t[j].from = q
               PROVE  t[i].n < t[j].n
    BY <1>1 DEF InTurn
  <2>1. i + 1 < j + 1 /\ i + 1 \in DOMAIN channel /\ j + 1 \in DOMAIN channel
    BY <1>1, <1>2
  <2> QED BY <1>1, <2>1 DEF InTurn
<1>6. ASSUME x.from = q, NEW n \in FromIn(q, t) PROVE x.n < n
  <2>1. PICK j \in 1..L : t[j].from = q /\ t[j].n = n
    BY <1>1 DEF FromIn, ToSet
  <2>2. 1 < j + 1 /\ j + 1 \in DOMAIN channel
    BY <1>1, <1>2
  <2> QED BY <1>1, <1>2, <1>6, <2>1, <2>2 DEF InTurn
<1> QED BY <1>1, <1>4, <1>5, <1>6 DEF x, t

-----------------------------------------------------------------------------
(* What each step does to the messages from r to i.                                 *)
LEMMA PlacedOnWire ==
  ASSUME NEW r, NEW sent, NEW taken \in Seq(Nat), NEW channel, NEW units \in Seq(Unit), NEW waiting,
         NEW a, NEW b, Numbered(sent), Placed(r, sent, taken, channel, units, waiting, a, b)
  PROVE  OnWire(sent, a, b, units) /\ Len(sent) \in Nat /\ Len(taken) \in Nat
BY LenProperties DEF Placed, OnWire, Numbered

(* A message is put into the write channel.                                         *)
LEMMA PlacedSend ==
  ASSUME NEW r, NEW sent, NEW taken, NEW channel, NEW units, NEW waiting, NEW a, NEW b,
         Numbered(sent), Placed(r, sent, taken, channel, units, waiting, a, b),
         NEW m \in Msg, m.n = Len(sent) + 1
  PROVE  /\ Numbered(Append(sent, m))
         /\ Placed(r, Append(sent, m), taken, channel, units, Append(waiting, m), a, b)
<1> DEFINE s == Append(sent, m)
           L == Len(sent)
           w == SubSeq(sent, b + 1, L)
<1>1. /\ L \in Nat /\ a \in 0..L /\ b \in 0..L /\ sent \in Seq(Msg)
      /\ \A k \in 1..L : sent[k].n = k /\ sent[k] \in Msg
  BY LenProperties, ElementOfSeq DEF Placed, Numbered
<1>2. /\ s \in Seq(Msg) /\ Len(s) = L + 1 /\ \A k \in 1..L : s[k] = sent[k]
      /\ s[L + 1] = m
  BY <1>1, AppendProperties
<1> HIDE DEF s
<1>3. Numbered(s)
  <2>1. \A k \in 1..(L + 1) : k \in 1..L \/ k = L + 1
    BY <1>1
  <2> QED BY <1>1, <1>2, <2>1 DEF Numbered
<1>4. SentUnits(s, a, b) = SentUnits(sent, a, b)
  <2>1. \A k \in (a + 1)..b : s[k] = sent[k]
    BY <1>1, <1>2
  <2> QED BY <2>1 DEF SentUnits
<1>5. Append(w, m) = SubSeq(s, b + 1, L + 1)
  <2>1. /\ w \in Seq(Msg) /\ Len(w) = L - b /\ \A i \in 1..(L - b) : w[i] = sent[b + i]
    <3>1. \A i \in (b + 1)..L : sent[i] \in Msg
      BY <1>1
    <3>2. /\ SubSeq(sent, b + 1, L) \in Seq(Msg)
          /\ Len(SubSeq(sent, b + 1, L)) = IF b + 1 <= L THEN L - (b + 1) + 1 ELSE 0
          /\ \A i \in 1..(L - (b + 1) + 1) : SubSeq(sent, b + 1, L)[i] = sent[(b + 1) + i - 1]
      BY <1>1, <3>1, SubSeqProperties
    <3> QED BY <1>1, <3>2
  <2> HIDE DEF w
  <2>2. /\ Append(w, m) \in Seq(Msg) /\ Len(Append(w, m)) = L - b + 1
        /\ \A i \in 1..(L - b) : Append(w, m)[i] = w[i]
        /\ Append(w, m)[L - b + 1] = m
    BY <2>1, AppendProperties
  <2> DEFINE v == SubSeq(s, b + 1, L + 1)
  <2>3. /\ v \in Seq(Msg) /\ Len(v) = L - b + 1 /\ \A i \in 1..(L - b + 1) : v[i] = s[b + i]
    <3>1. \A i \in (b + 1)..(L + 1) : s[i] \in Msg
      BY <1>1, <1>2, ElementOfSeq
    <3>2. /\ v \in Seq(Msg)
          /\ Len(v) = IF b + 1 <= L + 1 THEN (L + 1) - (b + 1) + 1 ELSE 0
          /\ \A i \in 1..((L + 1) - (b + 1) + 1) : v[i] = s[(b + 1) + i - 1]
      BY <1>1, <3>1, SubSeqProperties
    <3> QED BY <1>1, <3>2
  <2> HIDE DEF v
  <2>4. \A i \in 1..(L - b + 1) : Append(w, m)[i] = v[i]
    <3> TAKE i \in 1..(L - b + 1)
    <3>1. CASE i \in 1..(L - b)
      <4>1. b + i \in 1..L /\ i \in 1..(L - b + 1)
        BY <1>1, <3>1
      <4>2. Append(w, m)[i] = w[i] /\ w[i] = sent[b + i]
        BY <2>1, <2>2, <3>1
      <4>3. v[i] = s[b + i] /\ s[b + i] = sent[b + i]
        BY <1>2, <2>3, <4>1
      <4> QED BY <4>2, <4>3
    <3>2. CASE i = L - b + 1
      BY <1>1, <1>2, <2>2, <2>3, <3>2
    <3>3. i \in 1..(L - b) \/ i = L - b + 1
      BY <1>1
    <3> QED BY <3>1, <3>2, <3>3
  <2>5. Append(w, m) = v
    BY <2>2, <2>3, <2>4, SeqEqual
  <2> QED BY <2>5 DEF v
<1>6. a \in 0..(L + 1) /\ b \in 0..(L + 1)
  BY <1>1
<1> HIDE DEF L, w
<1>7. waiting = w /\ Len(taken) <= a /\ a <= b /\ taken = [k \in 1..Len(taken) |-> k]
      /\ FromIn(r, channel) = (Len(taken) + 1)..a
      /\ InTurn(r, channel) /\ ToSet(units) = SentUnits(sent, a, b) /\ Ascends(units)
  BY DEF Placed, w, L
<1>8. Placed(r, s, taken, channel, units, Append(waiting, m), a, b)
  BY <1>2, <1>4, <1>5, <1>6, <1>7 DEF Placed
<1> QED BY <1>3, <1>8 DEF s

(* The next message leaves the write channel.                                       *)
LEMMA PlacedTransmit ==
  ASSUME NEW r, NEW sent, NEW taken \in Seq(Nat), NEW channel, NEW units \in Seq(Unit),
         NEW waiting, NEW a, NEW b,
         Numbered(sent), Placed(r, sent, taken, channel, units, waiting, a, b), waiting # <<>>
  PROVE  /\ Head(waiting) \in Msg
         /\ Placed(r, sent, taken, channel, units \o Units(Head(waiting)), Tail(waiting), a, b + 1)
<1> DEFINE L == Len(sent)
           m == sent[b + 1]
<1>1. /\ L \in Nat /\ a \in 0..L /\ b \in 0..L /\ a <= b /\ sent \in Seq(Msg)
      /\ waiting = SubSeq(sent, b + 1, L)
      /\ ToSet(units) = SentUnits(sent, a, b) /\ Ascends(units)
  BY LenProperties DEF Placed, Numbered
<1>2. b + 1 \in 1..L
  <2>1. b + 1 > L => waiting = <<>>
    BY <1>1, SubSeqEmpty
  <2> QED BY <1>1, <2>1
<1>3. Head(waiting) = m /\ Tail(waiting) = SubSeq(sent, b + 2, L)
  <2>1. L \in (b + 1)..L
    BY <1>1, <1>2
  <2>2. Head(waiting) = sent[b + 1] /\ Tail(waiting) = SubSeq(sent, (b + 1) + 1, L)
    BY <1>1, <1>2, <2>1, HeadTailOfSubSeq
  <2>3. (b + 1) + 1 = b + 2
    BY <1>1
  <2> QED BY <2>2, <2>3
<1>4. m \in Msg /\ m.n = b + 1
  BY <1>1, <1>2, ElementOfSeq DEF Numbered
<1>5. /\ Units(m) \in Seq(Unit) /\ Ascends(Units(m)) /\ DOMAIN Units(m) = 1..m.size
      /\ \A p \in 1..m.size : Units(m)[p] = [n |-> m.n, part |-> p, size |-> m.size]
  BY <1>4, UnitsFacts
<1>6. SentUnits(sent, a, b + 1) = SentUnits(sent, a, b) \cup ToSet(Units(m))
  <2>1. (a + 1)..(b + 1) = ((a + 1)..b) \cup {b + 1}
    BY <1>1
  <2> QED BY <2>1 DEF SentUnits
<1> HIDE DEF m
<1>7. \A u \in ToSet(units), v \in ToSet(Units(m)) : Before(u, v)
  <2> SUFFICES ASSUME NEW u \in ToSet(units), NEW v \in ToSet(Units(m)) PROVE u.n < v.n
    BY DEF Before
  <2>1. u.n \in (a + 1)..b
    BY <1>1, SentUnit
  <2>2. v.n = b + 1
    <3>1. PICK p \in 1..m.size : v = Units(m)[p]
      BY <1>5 DEF ToSet
    <3>2. v = [n |-> m.n, part |-> p, size |-> m.size]
      BY <1>5, <3>1
    <3> QED BY <1>4, <3>2
  <2> QED BY <1>1, <2>1, <2>2
<1>8. /\ ToSet(units \o Units(m)) = SentUnits(sent, a, b + 1) /\ Ascends(units \o Units(m))
  BY <1>1, <1>5, <1>6, <1>7, ConcatUnits
<1>9. /\ b + 1 \in 0..L /\ a <= b + 1 /\ (b + 1) + 1 = b + 2
  BY <1>1, <1>2
<1> HIDE DEF L
<1>10. /\ Len(taken) <= a /\ taken = [k \in 1..Len(taken) |-> k]
       /\ FromIn(r, channel) = (Len(taken) + 1)..a /\ InTurn(r, channel)
  BY DEF Placed
<1>11. Placed(r, sent, taken, channel, units \o Units(m), Tail(waiting), a, b + 1)
  BY <1>1, <1>3, <1>8, <1>9, <1>10 DEF Placed, L
<1> QED BY <1>3, <1>4, <1>11

(* A message goes from the buffer to the message channel.                            *)
LEMMA PlacedDeliver ==
  ASSUME NEW r \in Replica, NEW sent, NEW taken \in Seq(Nat), NEW channel \in Seq(Item),
         NEW units \in Seq(Unit), NEW more \in Seq(Unit), NEW waiting, NEW a, NEW b,
         Numbered(sent), Placed(r, sent, taken, channel, units \o more, waiting, a, b),
         HasMessage(units)
  PROVE  LET x == [from |-> r, n |-> Head(units).n] IN
         /\ x \in Item /\ Rest(units) \in Seq(Unit)
         /\ Placed(r, sent, taken, Append(channel, x), Rest(units) \o more, waiting, a + 1, b)
<1> DEFINE all == units \o more
           x == [from |-> r, n |-> Head(units).n]
           s == Head(units).size
           front == SubSeq(units, 1, s)
           rest == Rest(units)
           T == Len(taken)
<1>1. /\ units # <<>> /\ Len(units) \in Nat \ {0} /\ Head(units) = units[1] /\ s <= Len(units)
      /\ \A p \in 1..s : units[p].n = Head(units).n /\ units[p].part = p
  BY EmptySeq DEF HasMessage
<1>2. /\ all \in Seq(Unit) /\ all # <<>> /\ all[1] = units[1]
  <2>1. /\ all \in Seq(Unit) /\ Len(all) = Len(units) + Len(more) /\ Len(more) \in Nat
        /\ \A i \in 1..(Len(units) + Len(more)) :
             all[i] = IF i <= Len(units) THEN units[i] ELSE more[i - Len(units)]
    BY ConcatProperties, LenProperties
  <2> HIDE DEF all
  <2>2. Len(all) # 0 /\ all[1] = units[1]
    BY <1>1, <2>1
  <2> QED BY <2>1, <2>2, EmptySeq
<1>3. OnWire(sent, a, b, all) /\ T \in Nat /\ Len(sent) \in Nat
  BY <1>2, PlacedOnWire
<1> HIDE DEF all
<1>4. /\ a \in Nat /\ b \in Nat /\ a + 1 \in 1..Len(sent) /\ a + 1 <= b
      /\ Head(units).n = a + 1 /\ s = sent[a + 1].size /\ s \in Nat \ {0}
  <2>1. /\ a + 1 \in 1..Len(sent) /\ a + 1 <= b
        /\ all[1].n = a + 1 /\ all[1].part = 1 /\ all[1].size = sent[a + 1].size
        /\ sent[a + 1].size \in Nat \ {0}
    BY <1>2, <1>3, FirstUnit
  <2>2. Head(units) = all[1]
    BY <1>1, <1>2
  <2>3. a \in Nat /\ b \in Nat
    BY <1>3 DEF OnWire
  <2> QED BY <2>1, <2>2, <2>3
<1>5. x \in Item /\ x.from = r /\ x.n = a + 1
  BY <1>4 DEF Item
<1> HIDE DEF s, x
<1>6. /\ front \in Seq(Unit) /\ rest \in Seq(Unit) /\ units = front \o rest
      /\ Len(front) = s /\ \A i \in 1..s : front[i] = units[i]
  <2>1. 1 \in 1..(Len(units) + 1) /\ s \in (1 - 1)..Len(units) /\ Len(units) \in s..Len(units)
        /\ s + 1 - 1 = s
    BY <1>1, <1>4
  <2>2. SubSeq(units, 1, s) \o SubSeq(units, s + 1, Len(units)) = SubSeq(units, 1, Len(units))
    BY <2>1, ConcatAdjacentSubSeq
  <2>3. SubSeq(units, 1, Len(units)) = units
    BY SubSeqFull
  <2>4. \A i \in 1..Len(units) : units[i] \in Unit
    BY ElementOfSeq
  <2>5. /\ front \in Seq(Unit) /\ Len(front) = IF 1 <= s THEN s - 1 + 1 ELSE 0
        /\ \A i \in 1..(s - 1 + 1) : front[i] = units[1 + i - 1]
    <3>1. \A i \in 1..s : units[i] \in Unit
      BY <1>1, <1>4, <2>4
    <3> QED BY <1>4, <3>1, SubSeqProperties
  <2>6. SubSeq(units, s + 1, Len(units)) \in Seq(Unit)
    <3>1. \A i \in (s + 1)..Len(units) : units[i] \in Unit
      BY <1>1, <1>4, <2>4
    <3> QED BY <1>1, <1>4, <3>1, SubSeqProperties
  <2>7. rest = SubSeq(units, s + 1, Len(units))
    BY DEF Rest, s
  <2> HIDE DEF front, rest
  <2>8. Len(front) = s /\ \A i \in 1..s : front[i] = units[i]
    <3>1. s \in Nat \ {0}
      BY <1>4
    <3>2. (1 <= s) /\ s - 1 + 1 = s /\ \A i \in 1..s : 1 + i - 1 = i
      BY <3>1
    <3> QED BY <2>5, <3>2
  <2> QED BY <2>2, <2>3, <2>5, <2>6, <2>7, <2>8 DEF front
<1> HIDE DEF front, rest
<1>7. all = front \o (rest \o more) /\ rest \o more \in Seq(Unit)
  <2>2. front \in Seq(Unit) /\ rest \in Seq(Unit) /\ more \in Seq(Unit)
    BY <1>6
  <2>3. (front \o rest) \o more = front \o (rest \o more)
    BY <2>2, UnitsAssociative
  <2>4. rest \o more \in Seq(Unit)
    BY <2>2, ConcatProperties
  <2>5. all = (front \o rest) \o more
    BY <1>6 DEF all
  <2> QED BY <2>3, <2>4, <2>5
<1>8. /\ ToSet(all) = ToSet(front) \cup ToSet(rest \o more) /\ Ascends(rest \o more)
      /\ \A u \in ToSet(front), v \in ToSet(rest \o more) : Before(u, v)
  BY <1>3, <1>6, <1>7, ConcatUnits DEF OnWire
<1>9. ToSet(rest \o more) = SentUnits(sent, a + 1, b)
  <2>1. b <= Len(sent) /\ Numbered(sent) /\ ToSet(all) = SentUnits(sent, a, b)
    BY <1>3 DEF OnWire
  <2>2. ASSUME NEW u \in ToSet(rest \o more) PROVE u \in SentUnits(sent, a + 1, b)
    <3>1. u \in SentUnits(sent, a, b)
      BY <1>8, <2>1
    <3>2. /\ u \in Unit /\ u.n \in (a + 1)..b /\ u.part \in 1..sent[u.n].size
          /\ u.size = sent[u.n].size
      BY <1>4, <2>1, <3>1, SentUnit
    <3>3. u.n # a + 1
      <4> SUFFICES ASSUME u.n = a + 1 PROVE FALSE
        OBVIOUS
      <4>1. s \in 1..s /\ DOMAIN front = 1..s
        BY <1>4, <1>6, LenProperties
      <4>2. front[s] \in ToSet(front) /\ front[s].n = a + 1 /\ front[s].part = s
        BY <1>1, <1>4, <1>6, <4>1 DEF ToSet
      <4>3. Before(front[s], u)
        BY <1>8, <4>2
      <4> QED BY <1>4, <3>2, <4>2, <4>3 DEF Before
    <3>4. u.n \in (a + 1 + 1)..b /\ a + 1 \in Nat
      <4>1. a \in Nat /\ b \in Nat /\ u.n \in (a + 1)..b
        BY <1>4, <3>2
      <4> QED BY <3>3, <4>1
    <3> QED BY <1>4, <2>1, <3>2, <3>4, SentUnit
  <2>3. ASSUME NEW u \in SentUnits(sent, a + 1, b) PROVE u \in ToSet(rest \o more)
    <3>1. a + 1 \in Nat
      BY <1>4
    <3>2. /\ u \in Unit /\ u.n \in (a + 1 + 1)..b /\ u.part \in 1..sent[u.n].size
          /\ u.size = sent[u.n].size
      BY <1>4, <2>1, <3>1, SentUnit
    <3>3. u.n \in (a + 1)..b /\ u.n # a + 1
      <4>1. a \in Nat /\ b \in Nat /\ u.n \in (a + 1 + 1)..b
        BY <1>4, <3>2
      <4> QED BY <4>1
    <3>4. u \in ToSet(all)
      BY <1>4, <2>1, <3>2, <3>3, SentUnit
    <3>5. u \notin ToSet(front)
      <4>1. DOMAIN front = 1..s
        BY <1>6, LenProperties
      <4>2. \A i \in 1..s : front[i].n = a + 1
        BY <1>1, <1>4, <1>6
      <4> QED BY <3>3, <4>1, <4>2 DEF ToSet
    <3> QED BY <1>8, <3>4, <3>5
  <2> QED BY <2>2, <2>3
<1>10. /\ T <= a /\ taken = [k \in 1..T |-> k]
       /\ FromIn(r, channel) = (T + 1)..a /\ InTurn(r, channel)
       /\ waiting = SubSeq(sent, b + 1, Len(sent)) /\ b \in 0..Len(sent)
  BY DEF Placed
<1>11. /\ FromIn(r, Append(channel, x)) = (T + 1)..(a + 1)
       /\ InTurn(r, Append(channel, x))
  <2>0. /\ FromIn(r, Append(channel, x)) =
              FromIn(r, channel) \cup (IF x.from = r THEN {x.n} ELSE {})
        /\ InTurn(r, channel) /\ (x.from = r => \A n \in FromIn(r, channel) : n < x.n)
              => InTurn(r, Append(channel, x))
    BY <1>5, ChannelAppend
  <2>1. /\ FromIn(r, Append(channel, x)) = FromIn(r, channel) \cup {a + 1}
        /\ (\A n \in FromIn(r, channel) : n < a + 1) => InTurn(r, Append(channel, x))
    BY <1>5, <1>10, <2>0
  <2> HIDE DEF T
  <2>2. ((T + 1)..a) \cup {a + 1} = (T + 1)..(a + 1) /\ \A n \in (T + 1)..a : n < a + 1
    BY <1>3, <1>4, <1>10
  <2> QED BY <1>10, <2>1, <2>2
<1>12. a + 1 \in 0..Len(sent) /\ T <= a + 1
  BY <1>3, <1>4, <1>10
<1>13. Placed(r, sent, taken, Append(channel, x), rest \o more, waiting, a + 1, b)
  BY <1>4, <1>8, <1>9, <1>10, <1>11, <1>12 DEF Placed
<1> QED BY <1>5, <1>6, <1>13 DEF x, rest

(* The replica takes a message from its channel.                                    *)
LEMMA PlacedReceive ==
  ASSUME NEW r, NEW sent, NEW taken \in Seq(Nat), NEW channel \in Seq(Item),
         NEW units, NEW waiting, NEW a, NEW b,
         Placed(r, sent, taken, channel, units, waiting, a, b), Len(sent) \in Nat,
         channel # <<>>, Head(channel).from = r
  PROVE  Placed(r, sent, Append(taken, Head(channel).n), Tail(channel), units, waiting, a, b)
<1> DEFINE x == Head(channel)
           T == Len(taken)
<1>1. /\ T \in Nat /\ T <= a /\ taken = [k \in 1..T |-> k] /\ a \in 0..Len(sent)
      /\ FromIn(r, channel) = (T + 1)..a /\ InTurn(r, channel)
  BY LenProperties DEF Placed
<1>2. /\ x \in Item /\ FromIn(r, channel) = FromIn(r, Tail(channel)) \cup {x.n}
      /\ InTurn(r, Tail(channel))
      /\ \A n \in FromIn(r, Tail(channel)) : x.n < n
  BY <1>1, ChannelTail
<1> HIDE DEF x, T
<1>3. x.n \in (T + 1)..a /\ x.n \in Nat /\ a \in Nat
  BY <1>1, <1>2 DEF Item
<1>4. x.n = T + 1
  <2>1. T + 1 \in (T + 1)..a
    BY <1>1, <1>3
  <2>2. T + 1 \in FromIn(r, Tail(channel)) => x.n < T + 1
    BY <1>2
  <2> QED BY <1>1, <1>2, <1>3, <2>1, <2>2
<1>5. FromIn(r, Tail(channel)) = (T + 1 + 1)..a
  <2>1. \A n \in FromIn(r, Tail(channel)) : n \in (T + 1)..a /\ T + 1 < n
    BY <1>1, <1>2, <1>4
  <2>2. \A n \in (T + 1 + 1)..a : n \in (T + 1)..a /\ n # T + 1
    BY <1>1, <1>3
  <2>3. \A n \in (T + 1 + 1)..a : n \in FromIn(r, Tail(channel))
    BY <1>1, <1>2, <1>4, <2>2
  <2>4. \A n \in FromIn(r, Tail(channel)) : n \in (T + 1 + 1)..a
    BY <1>1, <1>3, <2>1
  <2> QED BY <2>3, <2>4
<1>6. /\ Len(Append(taken, x.n)) = T + 1
      /\ Append(taken, x.n) = [k \in 1..(T + 1) |-> k]
  <2> DEFINE t == Append(taken, x.n)
             c == [k \in 1..(T + 1) |-> k]
  <2>1. /\ t \in Seq(Nat) /\ Len(t) = T + 1 /\ \A k \in 1..T : t[k] = taken[k]
        /\ t[T + 1] = T + 1
    BY <1>3, <1>4, AppendProperties DEF T
  <2>2. c \in Seq(Nat) /\ Len(c) = T + 1 /\ \A k \in 1..(T + 1) : c[k] = k
    BY <1>1
  <2> HIDE DEF t, c
  <2>3. \A k \in 1..T : taken[k] = k
    BY <1>1
  <2>4. \A k \in 1..(T + 1) : t[k] = c[k]
    BY <1>1, <2>1, <2>2, <2>3
  <2>5. t = c
    BY <2>1, <2>2, <2>4, SeqEqual
  <2> QED BY <2>1, <2>5 DEF t, c
<1>7. T + 1 <= a
  BY <1>1, <1>3
<1> QED BY <1>2, <1>5, <1>6, <1>7 DEF Placed, x

(* A full buffer with no message is that of a message that does not fit.               *)
LEMMA FullMeansOversized ==
  ASSUME NEW r, NEW sent, NEW taken \in Seq(Nat), NEW channel,
         NEW units \in Seq(Unit), NEW more \in Seq(Unit), NEW waiting, NEW a, NEW b,
         Numbered(sent), Placed(r, sent, taken, channel, units \o more, waiting, a, b),
         units # <<>>, ~HasMessage(units)
  PROVE  \E m \in ToSet(sent) : m.size > Len(units)
<1> DEFINE all == units \o more
           s == Head(units).size
<1>1. Len(units) \in Nat \ {0} /\ Head(units) = units[1]
  BY EmptySeq
<1>2. /\ all \in Seq(Unit) /\ all # <<>> /\ Len(all) >= Len(units)
      /\ \A i \in 1..Len(units) : all[i] = units[i]
  <2>1. /\ all \in Seq(Unit) /\ Len(all) = Len(units) + Len(more) /\ Len(more) \in Nat
        /\ \A i \in 1..(Len(units) + Len(more)) :
             all[i] = IF i <= Len(units) THEN units[i] ELSE more[i - Len(units)]
    BY ConcatProperties, LenProperties
  <2> HIDE DEF all
  <2>2. Len(all) # 0 /\ Len(all) >= Len(units) /\ \A i \in 1..Len(units) : all[i] = units[i]
    BY <1>1, <2>1
  <2> QED BY <2>1, <2>2, EmptySeq
<1>3. OnWire(sent, a, b, all)
  BY <1>2, PlacedOnWire
<1> HIDE DEF all
<1>4. /\ a \in Nat /\ a + 1 \in 1..Len(sent)
      /\ Head(units).n = a + 1 /\ s = sent[a + 1].size /\ s \in Nat
  <2>1. /\ a + 1 \in 1..Len(sent)
        /\ all[1].n = a + 1 /\ all[1].size = sent[a + 1].size
        /\ sent[a + 1].size \in Nat \ {0}
    BY <1>2, <1>3, FirstUnit
  <2>2. Head(units) = all[1]
    <3>1. 1 \in 1..Len(units)
      BY <1>1
    <3> QED BY <1>1, <1>2, <3>1
  <2>3. a \in Nat
    BY <1>3 DEF OnWire
  <2> QED BY <2>1, <2>2, <2>3
<1>5. s > Len(units)
  <2> SUFFICES ASSUME s <= Len(units) PROVE FALSE
    BY <1>1, <1>4
  <2>1. s <= Len(all) /\ s <= sent[a + 1].size
    <3>1. Len(all) \in Nat
      BY <1>2, LenProperties
    <3> QED BY <1>1, <1>2, <1>4, <3>1
  <2>2. ASSUME NEW p \in 1..s PROVE all[p].n = a + 1 /\ all[p].part = p
    <3>1. s \in Nat /\ all # <<>>
      BY <1>2, <1>4
    <3> HIDE DEF s
    <3> QED BY <1>3, <2>1, <3>1, FirstParts
  <2>3. ASSUME NEW p \in 1..s PROVE all[p] = units[p]
    <3>1. p \in 1..Len(units)
      BY <1>1, <1>4
    <3> QED BY <1>2, <3>1
  <2> QED BY <1>1, <1>4, <2>2, <2>3 DEF HasMessage
<1>6. sent[a + 1] \in ToSet(sent)
  <2>1. DOMAIN sent = 1..Len(sent)
    BY LenProperties DEF Numbered
  <2> QED BY <1>4, <2>1 DEF ToSet
<1> QED BY <1>4, <1>5, <1>6

-----------------------------------------------------------------------------
(* The invariant.                                                                  *)
Effect == [to : Replica, size : Nat \ {0}]
Phases == {"down", "booting", "running", "leaving", "left", "failed"}

BootTypes ==
  /\ phase \in [Replica -> Phases]
  /\ active \in [Replica -> [Replica -> {"none", "dialed", "made", "labelled"}]]
  /\ accepted \in [Replica -> SUBSET Replica]
  /\ reading \in [Replica -> SUBSET Replica]
  /\ labels \in [Replica -> SUBSET [id : Replica, peer : Replica]]

LinkTypes ==
  /\ plan \in Plans /\ transport = plan.transport /\ member = plan.member
  /\ effects \in [Replica -> Seq(Effect)]
  /\ written \in [Replica -> [Replica -> Seq(Msg)]]
  /\ writes \in [Replica -> [Replica -> Seq(Msg)]]
  /\ wire \in [Replica -> [Replica -> Seq(Unit)]]
  /\ buffer \in [Replica -> [Replica -> Seq(Unit)]]
  /\ incoming \in [Replica -> Seq(Item)]
  /\ received \in [Replica -> [Replica -> Seq(Nat)]]

(* The active task connects to its targets. The passive task has a label for every       *)
(* connection that it has accepted, but for the one that it reads, and a replica runs       *)
(* once it has accepted all.                                                        *)
BootInv ==
  /\ \A r, i \in Replica : active[r][i] # "none" => r \in member /\ i \in Targets(r)
  /\ \A r \in Replica :
       /\ \A i \in accepted[r] : active[i][r] \in {"made", "labelled"}
       /\ reading[r] \subseteq accepted[r]
       /\ labels[r] = {[id |-> i, peer |-> i] : i \in accepted[r] \ reading[r]}
       /\ phase[r] = "running" => reading[r] = {} /\ Cardinality(accepted[r]) = NumAccepts(r)

(* Every message from r to i is in one place, whatever has happened to r and i.          *)
Linked(r, i) ==
  /\ Numbered(written[r][i])
  /\ \E a, b : Placed(r, written[r][i], received[r][i], incoming[i], buffer[r][i] \o wire[r][i],
                      writes[r][i], a, b)

LinkInv == \A r, i \in Replica : Linked(r, i)

(* There is a reason for a replica to end.                                            *)
Reason == refused \/ Oversized \/ cancelled
ReasonInv ==
  \A r \in Replica : /\ phase[r] \in {"leaving", "left"} => cancelled
                     /\ phase[r] = "failed" => Reason

InterconnectInv == BootTypes /\ LinkTypes /\ BootInv /\ LinkInv /\ ReasonInv

-----------------------------------------------------------------------------
(* The bootstrap.                                                                  *)
LEMMA ServiceFacts ==
  ASSUME LinkTypes
  PROVE  /\ Replica \subseteq Nat /\ member \subseteq Replica /\ IsFiniteSet(member)
         /\ transport \in {"quic", "tcp"}
         /\ plan.sizes \subseteq Nat \ {0} /\ plan.wire \in Nat
<1>1. PICK n \in Replica : Replica = 0..n
  BY ReplicaAssumption
<1>2. n \in Int /\ Replica \subseteq Nat /\ IsFiniteSet(Replica)
  BY <1>1, FS_Interval
<1>3. /\ member \subseteq Replica /\ transport \in {"quic", "tcp"}
      /\ plan.sizes \subseteq Nat \ {0} /\ plan.wire \in Nat
  BY PlansAssumption DEF LinkTypes
<1> QED BY <1>2, <1>3, FS_Subset

LEMMA BootKept ==
  ASSUME BootTypes, BootInv, UNCHANGED <<transport, member, bootVars>>,
         phase' \in [Replica -> Phases],
         \A r \in Replica : phase'[r] = "running" => phase[r] = "running"
  PROVE  BootTypes' /\ BootInv'
BY DEF BootTypes, BootInv, bootVars, Targets, Peers, NumAccepts

LEMMA BootStepKeeps ==
  ASSUME BootTypes, BootInv, UNCHANGED <<transport, member>>, NEW r \in member, r \in Replica,
         BootStep(r)
  PROVE  BootTypes' /\ BootInv'
<1>1. \A i : Targets(i)' = Targets(i) /\ NumAccepts(i)' = NumAccepts(i)
  BY DEF Targets, Peers, NumAccepts
<1>2. CASE Start(r)
  <2>1. phase' \in [Replica -> Phases] /\ \A i \in Replica : phase'[i] = "running" => phase[i] = "running"
    BY <1>2 DEF Start, BootTypes, Phases
  <2> QED BY <1>2, <2>1, BootKept DEF Start
<1>3. CASE Ready(r)
  <2>1. phase' \in [Replica -> Phases]
    BY <1>3 DEF Ready, BootTypes, Phases
  <2>2. ASSUME NEW i \in Replica, phase'[i] = "running"
        PROVE  reading[i] = {} /\ Cardinality(accepted[i]) = NumAccepts(i)
    BY <1>3, <2>2 DEF Ready, BootTypes, BootInv
  <2>3. UNCHANGED <<active, accepted, reading, labels>>
    BY <1>3 DEF Ready, bootVars
  <2> QED BY <1>1, <2>1, <2>2, <2>3 DEF BootTypes, BootInv
<1>4. ASSUME NEW i \in Replica, Dial(r, i) PROVE BootTypes' /\ BootInv'
  <2>1. UNCHANGED <<accepted, reading, labels>> /\ i \in Targets(r) /\ phase[r] = "booting"
    BY <1>4 DEF Dial
  <2>2. CASE UNCHANGED active
    <3>1. phase' \in [Replica -> Phases] /\ \A k \in Replica : phase'[k] = "running" => phase[k] = "running"
      BY <1>4 DEF Dial, BootTypes, Phases
    <3> QED BY <1>1, <2>1, <2>2, <3>1 DEF BootTypes, BootInv
  <2>3. CASE ~UNCHANGED active
    <3>1. PICK st \in {"dialed", "made"} : active' = [active EXCEPT ![r][i] = st]
      BY <1>4, <2>3 DEF Dial
    <3>2. UNCHANGED phase /\ active[r][i] = "none"
      BY <1>4, <2>3 DEF Dial
    <3>3. active' \in [Replica -> [Replica -> {"none", "dialed", "made", "labelled"}]]
      BY <3>1 DEF BootTypes
    <3>4. \A k, j \in Replica : active'[k][j] = IF k = r /\ j = i THEN st ELSE active[k][j]
      BY <3>1 DEF BootTypes
    <3>5. \A k \in Replica : \A j \in accepted[k] : j \in Replica /\ active'[j][k] = active[j][k]
      BY <3>2, <3>4 DEF BootTypes, BootInv
    <3>6. BootTypes'
      BY <2>1, <3>2, <3>3 DEF BootTypes
    <3>7. \A k, j \in Replica : active'[k][j] # "none" => k \in member /\ j \in Targets(k)
      BY <2>1, <3>4 DEF BootInv
    <3> QED BY <1>1, <2>1, <3>2, <3>5, <3>6, <3>7 DEF BootInv
  <2> QED BY <2>2, <2>3
<1>5. ASSUME NEW i \in Replica, SendLabel(r, i) PROVE BootTypes' /\ BootInv'
  <2>1. /\ UNCHANGED <<phase, accepted, reading, labels>> /\ active[r][i] = "made"
        /\ active' = [active EXCEPT ![r][i] = "labelled"]
    BY <1>5 DEF SendLabel
  <2>2. active' \in [Replica -> [Replica -> {"none", "dialed", "made", "labelled"}]]
    BY <2>1 DEF BootTypes
  <2>3. \A k, j \in Replica : active'[k][j] = IF k = r /\ j = i THEN "labelled" ELSE active[k][j]
    BY <2>1 DEF BootTypes
  <2>4. BootTypes'
    BY <2>1, <2>2 DEF BootTypes
  <2>5. \A k, j \in Replica : active'[k][j] # "none" => k \in member /\ j \in Targets(k)
    BY <2>1, <2>3 DEF BootInv
  <2>6. \A k \in Replica : \A j \in accepted[k] : active'[j][k] \in {"made", "labelled"}
    BY <2>3 DEF BootTypes, BootInv
  <2> QED BY <1>1, <2>1, <2>4, <2>5, <2>6 DEF BootInv
<1>6. ASSUME NEW i \in Replica, Accept(r, i) PROVE BootTypes' /\ BootInv'
  <2>1. /\ UNCHANGED <<phase, labels>> /\ phase[r] = "booting" /\ reading[r] = {}
        /\ i \notin accepted[r]
        /\ accepted' = [accepted EXCEPT ![r] = @ \cup {i}]
        /\ reading' = [reading EXCEPT ![r] = {i}]
    BY <1>6 DEF Accept
  <2>2. /\ active' \in [Replica -> [Replica -> {"none", "dialed", "made", "labelled"}]]
        /\ active'[i][r] \in {"made", "labelled"} /\ active[i][r] # "none"
        /\ \A k, j \in Replica : k # i \/ j # r => active'[k][j] = active[k][j]
    BY <1>6 DEF Accept, BootTypes
  <2>3. /\ \A k \in Replica : accepted'[k] = IF k = r THEN accepted[r] \cup {i} ELSE accepted[k]
        /\ \A k \in Replica : reading'[k] = IF k = r THEN {i} ELSE reading[k]
    BY <2>1 DEF BootTypes
  <2>4. BootTypes'
    BY <2>1, <2>2 DEF BootTypes
  <2>5. \A k, j \in Replica : active'[k][j] # "none" => k \in member /\ j \in Targets(k)
    BY <2>2 DEF BootInv
  <2>6. ASSUME NEW k \in Replica, NEW j \in accepted'[k] PROVE active'[j][k] \in {"made", "labelled"}
    BY <2>2, <2>3, <2>6 DEF BootTypes, BootInv
  <2>7. ASSUME NEW k \in Replica
        PROVE  labels'[k] = {[id |-> j, peer |-> j] : j \in accepted'[k] \ reading'[k]}
    <3>1. accepted'[k] \ reading'[k] = accepted[k] \ reading[k]
      BY <2>1, <2>3
    <3> QED BY <2>1, <3>1 DEF BootInv
  <2>8. ASSUME NEW k \in Replica, phase'[k] = "running"
        PROVE  reading'[k] = {} /\ Cardinality(accepted'[k]) = NumAccepts(k)
    BY <2>1, <2>3, <2>8 DEF BootInv
  <2>9. \A k \in Replica : reading'[k] \subseteq accepted'[k]
    BY <2>3 DEF BootInv
  <2> QED BY <1>1, <2>4, <2>5, <2>6, <2>7, <2>8, <2>9 DEF BootInv
<1>7. ASSUME NEW i \in Replica, ReadLabel(r, i) PROVE BootTypes' /\ BootInv'
  <2>1. /\ UNCHANGED <<phase, active, accepted>> /\ phase[r] = "booting" /\ reading[r] = {i}
        /\ labels' = [labels EXCEPT ![r] = @ \cup {[id |-> i, peer |-> i]}]
        /\ reading' = [reading EXCEPT ![r] = {}]
    BY <1>7 DEF ReadLabel, OwnId
  <2>2. /\ \A k \in Replica : reading'[k] = IF k = r THEN {} ELSE reading[k]
        /\ \A k \in Replica : labels'[k] = IF k = r THEN labels[r] \cup {[id |-> i, peer |-> i]}
                                           ELSE labels[k]
    BY <2>1 DEF BootTypes
  <2>3. BootTypes'
    <3>1. [id |-> i, peer |-> i] \in [id : Replica, peer : Replica]
      OBVIOUS
    <3> QED BY <2>1, <3>1 DEF BootTypes
  <2>4. ASSUME NEW k \in Replica
        PROVE  labels'[k] = {[id |-> j, peer |-> j] : j \in accepted'[k] \ reading'[k]}
    <3>1. CASE k = r
      <4>1. i \in accepted[r]
        BY <2>1 DEF BootInv
      <4>2. accepted'[k] \ reading'[k] = (accepted[r] \ reading[r]) \cup {i}
        BY <2>1, <2>2, <3>1, <4>1
      <4> QED BY <2>2, <3>1, <4>2 DEF BootInv
    <3>2. CASE k # r
      BY <2>1, <2>2, <3>2 DEF BootInv
    <3> QED BY <3>1, <3>2
  <2>5. ASSUME NEW k \in Replica, phase'[k] = "running"
        PROVE  reading'[k] = {} /\ Cardinality(accepted'[k]) = NumAccepts(k)
    BY <2>1, <2>2, <2>5 DEF BootInv
  <2> QED BY <1>1, <2>1, <2>3, <2>4, <2>5 DEF BootInv
<1> QED BY <1>2, <1>3, <1>4, <1>5, <1>6, <1>7 DEF BootStep

(* A replica that has accepted all connections has one to and from each of the others.    *)
LEMMA AllConnected ==
  ASSUME BootTypes, LinkTypes, BootInv, NEW r \in member,
         reading[r] = {}, Cardinality(accepted[r]) = NumAccepts(r)
  PROVE  /\ ReadIds(r) = accepted[r]
         /\ Targets(r) \cup accepted[r] = Peers(r)
         /\ transport = "quic" => Targets(r) \cap accepted[r] = {}
         /\ transport = "tcp" => accepted[r] = Peers(r)
         /\ Complete(r)
<1>1. /\ Replica \subseteq Nat /\ member \subseteq Replica /\ IsFiniteSet(member)
      /\ transport \in {"quic", "tcp"} /\ r \in Replica /\ r \in Nat
  BY ServiceFacts
<1>2. /\ IsFiniteSet(Peers(r)) /\ Cardinality(Peers(r)) = Cardinality(member) - 1
  BY <1>1, FS_RemoveElement DEF Peers
<1>3. ReadIds(r) = accepted[r]
  <2>1. labels[r] = {[id |-> i, peer |-> i] : i \in accepted[r]}
    BY <1>1 DEF BootInv
  <2>2. ASSUME NEW l \in labels[r] PROVE l.id \in accepted[r]
    BY <2>1
  <2>3. ASSUME NEW i \in accepted[r] PROVE \E l \in labels[r] : l.id = i
    <3>1. [id |-> i, peer |-> i] \in labels[r] /\ [id |-> i, peer |-> i].id = i
      BY <2>1
    <3> QED BY <3>1
  <2> QED BY <2>2, <2>3 DEF ReadIds
<1>4. \A i \in accepted[r] : i \in member /\ r \in Targets(i)
  BY <1>1 DEF BootInv, BootTypes
<1>5. CASE transport = "quic"
  <2>1. accepted[r] \subseteq 0..(r - 1)
    <3> SUFFICES ASSUME NEW i \in accepted[r] PROVE i \in 0..(r - 1)
      OBVIOUS
    <3>1. i \in Nat /\ i < r
      BY <1>1, <1>4, <1>5 DEF Targets
    <3> QED BY <1>1, <3>1
  <2>2. IsFiniteSet(0..(r - 1)) /\ Cardinality(0..(r - 1)) = r
    BY <1>1, FS_Interval
  <2>3. accepted[r] = 0..(r - 1)
    BY <1>5, <2>1, <2>2, FS_Subset DEF NumAccepts
  <2>4. Targets(r) \cup accepted[r] = Peers(r) /\ Targets(r) \cap accepted[r] = {}
    <3>1. \A i \in member : i \in Nat
      BY <1>1
    <3>2. \A i \in Nat : i \in accepted[r] <=> i < r
      BY <1>1, <2>3
    <3>3. \A i \in accepted[r] : i \in member /\ i \in Nat
      BY <1>4, <3>1
    <3>4. \A i : i \in Targets(r) <=> i \in member /\ i # r /\ i > r
      BY <1>5 DEF Targets, Peers
    <3>5. ASSUME NEW i \in member, i # r PROVE i < r \/ i > r
      <4>1. i \in Nat /\ r \in Nat
        BY <1>1, <3>1
      <4> QED BY <3>5, <4>1
    <3>6. r \notin accepted[r]
      BY <1>1, <3>2
    <3>7. Targets(r) \cup accepted[r] = Peers(r)
      BY <3>1, <3>2, <3>3, <3>4, <3>5, <3>6 DEF Peers
    <3>8. ASSUME NEW i \in accepted[r], i > r PROVE FALSE
      BY <1>1, <3>2, <3>3, <3>8
    <3> QED BY <3>4, <3>7, <3>8
  <2> QED BY <1>2, <1>3, <1>5, <2>4 DEF Complete
<1>6. CASE transport = "tcp"
  <2>1. accepted[r] \subseteq Peers(r)
    BY <1>4 DEF Targets, Peers
  <2>2. accepted[r] = Peers(r)
    BY <1>2, <1>6, <2>1, FS_Subset DEF NumAccepts
  <2> QED BY <1>3, <1>6, <2>2 DEF Complete, Targets
<1> QED BY <1>1, <1>5, <1>6

LEMMA RunningConnected ==
  ASSUME BootTypes, LinkTypes, BootInv
  PROVE  ConnectedRight
<1> SUFFICES ASSUME NEW r \in member, phase[r] = "running"
             PROVE  /\ \A l \in labels[r] : l.id = l.peer
                    /\ Targets(r) \cup ReadIds(r) = Peers(r)
                    /\ transport = "quic" => Targets(r) \cap ReadIds(r) = {}
                    /\ transport = "tcp" => ReadIds(r) = Peers(r)
  BY DEF ConnectedRight
<1>1. r \in Replica /\ reading[r] = {} /\ Cardinality(accepted[r]) = NumAccepts(r)
  BY ServiceFacts DEF BootInv
<1>2. \A l \in labels[r] : l.id = l.peer
  BY <1>1 DEF BootInv
<1> QED BY <1>1, <1>2, AllConnected

-----------------------------------------------------------------------------
(* Messages of another sender in the same channel change nothing.                     *)
LEMMA PlacedBeside ==
  ASSUME NEW q, NEW sent, NEW taken, NEW channel \in Seq(Item), NEW units, NEW waiting,
         NEW a, NEW b, Placed(q, sent, taken, channel, units, waiting, a, b)
  PROVE  /\ \A x \in Item : x.from # q
              => Placed(q, sent, taken, Append(channel, x), units, waiting, a, b)
         /\ channel # <<>> /\ Head(channel).from # q
              => Placed(q, sent, taken, Tail(channel), units, waiting, a, b)
<1>1. InTurn(q, channel) /\ FromIn(q, channel) = (Len(taken) + 1)..a
  BY DEF Placed
<1>2. ASSUME NEW x \in Item, x.from # q
      PROVE  Placed(q, sent, taken, Append(channel, x), units, waiting, a, b)
  <2>1. FromIn(q, Append(channel, x)) = FromIn(q, channel) /\ InTurn(q, Append(channel, x))
    <3>1. /\ FromIn(q, Append(channel, x)) =
                FromIn(q, channel) \cup (IF x.from = q THEN {x.n} ELSE {})
          /\ InTurn(q, channel) /\ (x.from = q => \A n \in FromIn(q, channel) : n < x.n)
                => InTurn(q, Append(channel, x))
      BY ChannelAppend
    <3> QED BY <1>1, <1>2, <3>1
  <2> QED BY <2>1 DEF Placed
<1>3. ASSUME channel # <<>>, Head(channel).from # q
      PROVE  Placed(q, sent, taken, Tail(channel), units, waiting, a, b)
  <2>1. FromIn(q, channel) = FromIn(q, Tail(channel)) /\ InTurn(q, Tail(channel))
    <3>1. /\ FromIn(q, channel) =
                FromIn(q, Tail(channel))
                  \cup (IF Head(channel).from = q THEN {Head(channel).n} ELSE {})
          /\ InTurn(q, Tail(channel))
      BY <1>1, <1>3, ChannelTail
    <3> QED BY <1>3, <3>1
  <2> QED BY <2>1 DEF Placed
<1> QED BY <1>2, <1>3

(* A read moves units from the connection to the buffer.                               *)
LEMMA ReadKeepsUnits ==
  ASSUME NEW u \in Seq(Unit), NEW w \in Seq(Unit), NEW k \in 1..Len(w)
  PROVE  /\ u \o SubSeq(w, 1, k) \in Seq(Unit) /\ SubSeq(w, k + 1, Len(w)) \in Seq(Unit)
         /\ (u \o SubSeq(w, 1, k)) \o SubSeq(w, k + 1, Len(w)) = u \o w
<1>1. Len(w) \in Nat /\ \A i \in 1..Len(w) : w[i] \in Unit
  BY LenProperties, ElementOfSeq
<1>2. SubSeq(w, 1, k) \in Seq(Unit)
  <2>1. \A i \in 1..k : w[i] \in Unit
    BY <1>1
  <2> QED BY <1>1, <2>1, SubSeqProperties
<1>3. SubSeq(w, k + 1, Len(w)) \in Seq(Unit)
  <2>1. \A i \in (k + 1)..Len(w) : w[i] \in Unit
    BY <1>1
  <2> QED BY <1>1, <2>1, SubSeqProperties
<1>4. SubSeq(w, 1, k) \o SubSeq(w, k + 1, Len(w)) = w
  <2>1. 1 \in 1..(Len(w) + 1) /\ k \in (1 - 1)..Len(w) /\ Len(w) \in k..Len(w)
    BY <1>1
  <2>2. SubSeq(w, 1, k) \o SubSeq(w, k + 1, Len(w)) = SubSeq(w, 1, Len(w))
    BY <2>1, ConcatAdjacentSubSeq
  <2> QED BY <2>2, SubSeqFull
<1> DEFINE v == SubSeq(w, 1, k)
           t == SubSeq(w, k + 1, Len(w))
<1>5. v \in Seq(Unit) /\ t \in Seq(Unit) /\ v \o t = w
  BY <1>2, <1>3, <1>4
<1> HIDE DEF v, t
<1>6. (u \o v) \o t = u \o (v \o t)
  <2>1. u \in Seq(Unit) /\ v \in Seq(Unit) /\ t \in Seq(Unit)
    BY <1>5
  <2> QED BY <2>1, UnitsAssociative
<1>7. u \o v \in Seq(Unit)
  BY <1>5, ConcatProperties
<1> QED BY <1>5, <1>6, <1>7 DEF v, t

-----------------------------------------------------------------------------
(* What each step does to all messages.                                              *)
LEMMA LinkKept ==
  ASSUME LinkTypes, LinkInv, UNCHANGED <<transport, member, plan, linkVars>>,
         effects' \in [Replica -> Seq(Effect)]
  PROVE  LinkTypes' /\ LinkInv'
BY DEF LinkTypes, LinkInv, Linked, linkVars

LEMMA ActEffects ==
  ASSUME LinkTypes, NEW r \in member, Act(r)
  PROVE  effects' \in [Replica -> Seq(Effect)]
<1>1. effects \in [Replica -> Seq(Effect)] /\ Peers(r) \subseteq Replica /\ plan.sizes \subseteq Nat \ {0}
  BY ServiceFacts DEF LinkTypes, Peers
<1>2. ASSUME NEW s \in Recipients(r), NEW size \in plan.sizes,
             effects' = [effects EXCEPT ![r] = [k \in DOMAIN s |-> [to |-> s[k], size |-> size]]]
      PROVE  effects' \in [Replica -> Seq(Effect)]
  <2>1. \E n \in Nat : s \in [1..n -> Replica]
    <3>1. CASE \E i \in Peers(r) : s = <<i>>
      <4>1. PICK i \in Peers(r) : s = <<i>>
        BY <3>1
      <4>2. s \in [1..1 -> Replica]
        BY <1>1, <4>1
      <4> QED BY <4>2
    <3>2. CASE s \in [1..Cardinality(Peers(r)) -> Peers(r)]
      <4>1. Cardinality(Peers(r)) \in Nat
        BY ServiceFacts, FS_RemoveElement, FS_CardinalityType DEF Peers
      <4>2. s \in [1..Cardinality(Peers(r)) -> Replica]
        BY <1>1, <3>2
      <4> QED BY <4>1, <4>2
    <3> QED BY <3>1, <3>2 DEF Recipients
  <2>2. PICK n \in Nat : s \in [1..n -> Replica]
    BY <2>1
  <2> DEFINE e == [k \in 1..n |-> [to |-> s[k], size |-> size]]
  <2>3. \A k \in 1..n : [to |-> s[k], size |-> size] \in Effect
    BY <1>1, <2>2 DEF Effect
  <2>4. e \in Seq(Effect)
    <3>1. e \in [1..n -> Effect]
      BY <2>3
    <3> HIDE DEF e
    <3> QED BY <3>1
  <2>5. effects' = [effects EXCEPT ![r] = e]
    BY <1>2, <2>2
  <2> HIDE DEF e
  <2> QED BY <1>1, <2>4, <2>5
<1> QED BY <1>1, <1>2 DEF Act

LEMMA ReceiveKeeps ==
  ASSUME LinkTypes, LinkInv, NEW r \in member, r \in Replica, Receive(r)
  PROVE  LinkTypes' /\ LinkInv'
<1> DEFINE x == Head(incoming[r])
<1>1. /\ incoming[r] # <<>> /\ incoming[r] \in Seq(Item)
      /\ received' = [received EXCEPT ![x.from][r] = Append(@, x.n)]
      /\ incoming' = [incoming EXCEPT ![r] = Tail(@)]
      /\ UNCHANGED <<transport, member, plan, written, writes, wire, buffer>>
      /\ effects' \in [Replica -> Seq(Effect)]
  BY ActEffects DEF Receive, LinkTypes
<1>2. x \in Item /\ Tail(incoming[r]) \in Seq(Item) /\ x.from \in Replica /\ x.n \in Nat
  <2>1. x \in Item /\ Tail(incoming[r]) \in Seq(Item)
    BY <1>1, HeadTailProperties
  <2> QED BY <2>1 DEF Item
<1> HIDE DEF x
<1>3. /\ received' \in [Replica -> [Replica -> Seq(Nat)]]
      /\ \A q, i \in Replica :
           received'[q][i] = IF q = x.from /\ i = r THEN Append(received[q][i], x.n) ELSE received[q][i]
  <2>1. Append(received[x.from][r], x.n) \in Seq(Nat)
    BY <1>2, AppendProperties DEF LinkTypes
  <2> QED BY <1>1, <1>2, <2>1 DEF LinkTypes
<1>4. /\ incoming' \in [Replica -> Seq(Item)]
      /\ \A i \in Replica : incoming'[i] = IF i = r THEN Tail(incoming[r]) ELSE incoming[i]
  BY <1>1, <1>2 DEF LinkTypes
<1>5. LinkTypes'
  BY <1>1, <1>3, <1>4 DEF LinkTypes
<1>6. ASSUME NEW q \in Replica, NEW i \in Replica PROVE Linked(q, i)'
  <2>1. /\ Numbered(written[q][i]) /\ Len(written[q][i]) \in Nat /\ received[q][i] \in Seq(Nat)
        /\ \E a, b : Placed(q, written[q][i], received[q][i], incoming[i], buffer[q][i] \o wire[q][i],
                            writes[q][i], a, b)
    <3>1. written[q][i] \in Seq(Msg) /\ received[q][i] \in Seq(Nat)
      BY DEF LinkTypes
    <3>2. Linked(q, i)
      BY DEF LinkInv
    <3> QED BY <3>1, <3>2, LenProperties DEF Linked
  <2>2. PICK a, b : Placed(q, written[q][i], received[q][i], incoming[i],
                           buffer[q][i] \o wire[q][i], writes[q][i], a, b)
    BY <2>1
  <2>3. CASE i # r
    BY <1>1, <1>3, <1>4, <2>1, <2>3 DEF Linked
  <2>4. CASE i = r /\ q = x.from
    <3>1. Placed(q, written[q][i], Append(received[q][i], x.n), Tail(incoming[i]),
                 buffer[q][i] \o wire[q][i], writes[q][i], a, b)
      BY <1>1, <2>1, <2>2, <2>4, PlacedReceive DEF x
    <3> QED BY <1>1, <1>3, <1>4, <2>1, <2>4, <3>1 DEF Linked
  <2>5. CASE i = r /\ q # x.from
    <3>1. Placed(q, written[q][i], received[q][i], Tail(incoming[i]),
                 buffer[q][i] \o wire[q][i], writes[q][i], a, b)
      BY <1>1, <2>2, <2>5, PlacedBeside DEF x
    <3> QED BY <1>1, <1>3, <1>4, <2>1, <2>5, <3>1 DEF Linked
  <2> QED BY <2>3, <2>4, <2>5
<1> QED BY <1>5, <1>6 DEF LinkInv

LEMMA SendKeeps ==
  ASSUME LinkTypes, LinkInv, NEW r \in member, r \in Replica, Send(r)
  PROVE  LinkTypes' /\ LinkInv'
<1>1. /\ effects[r] # <<>> /\ effects[r] \in Seq(Effect) /\ effects \in [Replica -> Seq(Effect)]
      /\ UNCHANGED <<transport, member, plan, wire, buffer, incoming, received>>
  BY DEF Send, LinkTypes
<1>2. Head(effects[r]) \in Effect /\ Tail(effects[r]) \in Seq(Effect)
  BY <1>1, HeadTailProperties
<1> DEFINE i == Head(effects[r]).to
           m == [n |-> Len(written[r][i]) + 1, size |-> Head(effects[r]).size]
<1>3. i \in Replica /\ m \in Msg /\ m.n = Len(written[r][i]) + 1
  <2>1. i \in Replica /\ Head(effects[r]).size \in Nat \ {0}
    BY <1>2 DEF Effect
  <2>2. ASSUME NEW j \in Replica PROVE Len(written[r][j]) + 1 \in Nat
    <3>1. written[r][j] \in Seq(Msg)
      BY DEF LinkTypes
    <3> QED BY <3>1, LenProperties
  <2>3. Len(written[r][i]) + 1 \in Nat
    BY <2>1, <2>2
  <2> QED BY <2>1, <2>3 DEF Msg
<1>4. \/ /\ written' = [written EXCEPT ![r][i] = Append(@, m)]
         /\ writes' = [writes EXCEPT ![r][i] = Append(@, m)]
         /\ effects' = [effects EXCEPT ![r] = Tail(@)]
      \/ UNCHANGED <<written, writes>> /\ effects' = [effects EXCEPT ![r] = <<>>]
  BY DEF Send
<1> HIDE DEF i, m
<1>5. CASE UNCHANGED <<written, writes>> /\ effects' = [effects EXCEPT ![r] = <<>>]
  <2>1. effects' \in [Replica -> Seq(Effect)]
    BY <1>1, <1>5, EmptySeq
  <2> QED BY <1>1, <1>5, <2>1, LinkKept DEF linkVars
<1>6. CASE /\ written' = [written EXCEPT ![r][i] = Append(@, m)]
           /\ writes' = [writes EXCEPT ![r][i] = Append(@, m)]
           /\ effects' = [effects EXCEPT ![r] = Tail(@)]
  <2>1. effects' \in [Replica -> Seq(Effect)]
    BY <1>1, <1>2, <1>6
  <2>2. Append(written[r][i], m) \in Seq(Msg) /\ Append(writes[r][i], m) \in Seq(Msg)
    BY <1>3, AppendProperties DEF LinkTypes
  <2>3. /\ written' \in [Replica -> [Replica -> Seq(Msg)]]
        /\ \A q, j \in Replica :
             written'[q][j] = IF q = r /\ j = i THEN Append(written[q][j], m) ELSE written[q][j]
    BY <1>3, <1>6, <2>2 DEF LinkTypes
  <2>4. /\ writes' \in [Replica -> [Replica -> Seq(Msg)]]
        /\ \A q, j \in Replica :
             writes'[q][j] = IF q = r /\ j = i THEN Append(writes[q][j], m) ELSE writes[q][j]
    BY <1>3, <1>6, <2>2 DEF LinkTypes
  <2>5. LinkTypes'
    BY <1>1, <2>1, <2>3, <2>4 DEF LinkTypes
  <2>6. ASSUME NEW q \in Replica, NEW j \in Replica PROVE Linked(q, j)'
    <3>1. CASE q # r \/ j # i
      BY <1>1, <2>3, <2>4, <3>1 DEF LinkInv, Linked
    <3>2. CASE q = r /\ j = i
      <4>1. Numbered(written[r][i])
        BY <1>3 DEF LinkInv, Linked
      <4>2. PICK a, b : Placed(r, written[r][i], received[r][i], incoming[i],
                               buffer[r][i] \o wire[r][i], writes[r][i], a, b)
        BY <1>3 DEF LinkInv, Linked
      <4>3. /\ Numbered(Append(written[r][i], m))
            /\ Placed(r, Append(written[r][i], m), received[r][i], incoming[i],
                      buffer[r][i] \o wire[r][i], Append(writes[r][i], m), a, b)
        BY <1>3, <4>1, <4>2, PlacedSend
      <4> QED BY <1>1, <1>3, <2>3, <2>4, <3>2, <4>3 DEF Linked
    <3> QED BY <3>1, <3>2
  <2> QED BY <2>5, <2>6 DEF LinkInv
<1> QED BY <1>4, <1>5, <1>6

LEMMA WriteKeeps ==
  ASSUME LinkTypes, LinkInv, NEW r \in Replica, NEW i \in Replica, WriteTask(r, i)
  PROVE  LinkTypes' /\ LinkInv'
<1> DEFINE m == Head(writes[r][i])
<1>1. /\ writes[r][i] # <<>> /\ writes[r][i] \in Seq(Msg)
      /\ wire' = [wire EXCEPT ![r][i] = @ \o Units(m)]
      /\ writes' = [writes EXCEPT ![r][i] = Tail(@)]
      /\ UNCHANGED <<transport, member, plan, effects, written, buffer, incoming, received>>
  BY DEF WriteTask, LinkTypes
<1>2. m \in Msg /\ Tail(writes[r][i]) \in Seq(Msg)
  BY <1>1, HeadTailProperties
<1> HIDE DEF m
<1>3. Units(m) \in Seq(Unit) /\ wire[r][i] \o Units(m) \in Seq(Unit)
  BY <1>2, UnitsFacts, ConcatProperties DEF LinkTypes
<1>4. /\ wire' \in [Replica -> [Replica -> Seq(Unit)]]
      /\ \A q, j \in Replica :
           wire'[q][j] = IF q = r /\ j = i THEN wire[q][j] \o Units(m) ELSE wire[q][j]
  BY <1>1, <1>3 DEF LinkTypes
<1>5. /\ writes' \in [Replica -> [Replica -> Seq(Msg)]]
      /\ \A q, j \in Replica :
           writes'[q][j] = IF q = r /\ j = i THEN Tail(writes[q][j]) ELSE writes[q][j]
  BY <1>1, <1>2 DEF LinkTypes
<1>6. LinkTypes'
  BY <1>1, <1>4, <1>5 DEF LinkTypes
<1>7. ASSUME NEW q \in Replica, NEW j \in Replica PROVE Linked(q, j)'
  <2>1. CASE q # r \/ j # i
    BY <1>1, <1>4, <1>5, <2>1 DEF LinkInv, Linked
  <2>2. CASE q = r /\ j = i
    <3>1. Numbered(written[r][i])
      BY DEF LinkInv, Linked
    <3>2. PICK a, b : Placed(r, written[r][i], received[r][i], incoming[i],
                             buffer[r][i] \o wire[r][i], writes[r][i], a, b)
      BY DEF LinkInv, Linked
    <3>3. /\ received[r][i] \in Seq(Nat) /\ buffer[r][i] \in Seq(Unit) /\ wire[r][i] \in Seq(Unit)
          /\ buffer[r][i] \o wire[r][i] \in Seq(Unit)
      BY ConcatProperties DEF LinkTypes
    <3>4. Placed(r, written[r][i], received[r][i], incoming[i],
                 (buffer[r][i] \o wire[r][i]) \o Units(m), Tail(writes[r][i]), a, b + 1)
      BY <1>1, <3>1, <3>2, <3>3, PlacedTransmit DEF m
    <3>5. (buffer[r][i] \o wire[r][i]) \o Units(m) = buffer[r][i] \o (wire[r][i] \o Units(m))
      <4> DEFINE s == buffer[r][i]
                 t == wire[r][i]
                 v == Units(m)
      <4>1. s \in Seq(Unit) /\ t \in Seq(Unit) /\ v \in Seq(Unit)
        BY <1>3, <3>3
      <4> HIDE DEF s, t, v
      <4>2. (s \o t) \o v = s \o (t \o v)
        BY <4>1, UnitsAssociative
      <4> QED BY <4>2 DEF s, t, v
    <3> QED BY <1>1, <1>4, <1>5, <2>2, <3>1, <3>4, <3>5 DEF Linked
  <2> QED BY <2>1, <2>2
<1> QED BY <1>6, <1>7 DEF LinkInv

LEMMA ReadKeeps ==
  ASSUME LinkTypes, LinkInv, NEW r \in Replica, NEW i \in Replica, ReadTask(r, i)
  PROVE  LinkTypes' /\ LinkInv'
<1>1. PICK k \in 1..Len(wire[r][i]) :
        /\ buffer' = [buffer EXCEPT ![r][i] = @ \o SubSeq(wire[r][i], 1, k)]
        /\ wire' = [wire EXCEPT ![r][i] = SubSeq(@, k + 1, Len(@))]
  BY DEF ReadTask, Readable
<1>2. /\ buffer[r][i] \in Seq(Unit) /\ wire[r][i] \in Seq(Unit)
      /\ UNCHANGED <<transport, member, plan, effects, written, writes, incoming, received>>
  BY DEF ReadTask, LinkTypes
<1> DEFINE u == buffer[r][i] \o SubSeq(wire[r][i], 1, k)
           w == SubSeq(wire[r][i], k + 1, Len(wire[r][i]))
<1>3. u \in Seq(Unit) /\ w \in Seq(Unit) /\ u \o w = buffer[r][i] \o wire[r][i]
  BY <1>2, ReadKeepsUnits
<1>4. buffer' = [buffer EXCEPT ![r][i] = u] /\ wire' = [wire EXCEPT ![r][i] = w]
  BY <1>1
<1> HIDE DEF u, w
<1>5. /\ buffer' \in [Replica -> [Replica -> Seq(Unit)]]
      /\ \A q, j \in Replica : buffer'[q][j] = IF q = r /\ j = i THEN u ELSE buffer[q][j]
  BY <1>3, <1>4 DEF LinkTypes
<1>6. /\ wire' \in [Replica -> [Replica -> Seq(Unit)]]
      /\ \A q, j \in Replica : wire'[q][j] = IF q = r /\ j = i THEN w ELSE wire[q][j]
  BY <1>3, <1>4 DEF LinkTypes
<1>7. LinkTypes'
  BY <1>2, <1>5, <1>6 DEF LinkTypes
<1>8. ASSUME NEW q \in Replica, NEW j \in Replica PROVE Linked(q, j)'
  <2>1. buffer'[q][j] \o wire'[q][j] = buffer[q][j] \o wire[q][j]
    BY <1>3, <1>5, <1>6
  <2> QED BY <1>2, <2>1 DEF LinkInv, Linked
<1> QED BY <1>7, <1>8 DEF LinkInv

LEMMA DeliverKeeps ==
  ASSUME LinkTypes, LinkInv, NEW r \in Replica, NEW i \in Replica, Deliver(r, i)
  PROVE  LinkTypes' /\ LinkInv'
<1> DEFINE x == [from |-> r, n |-> Head(buffer[r][i]).n]
           rest == Rest(buffer[r][i])
<1>1. /\ HasMessage(buffer[r][i])
      /\ incoming' = [incoming EXCEPT ![i] = Append(@, x)]
      /\ buffer' = [buffer EXCEPT ![r][i] = rest]
      /\ UNCHANGED <<transport, member, plan, effects, written, writes, wire, received>>
  BY DEF Deliver
<1>2. PICK a, b : Placed(r, written[r][i], received[r][i], incoming[i],
                         buffer[r][i] \o wire[r][i], writes[r][i], a, b)
  BY DEF LinkInv, Linked
<1>3. Numbered(written[r][i])
  BY DEF LinkInv, Linked
<1>4. /\ received[r][i] \in Seq(Nat) /\ buffer[r][i] \in Seq(Unit) /\ wire[r][i] \in Seq(Unit)
      /\ \A j \in Replica : incoming[j] \in Seq(Item)
  BY DEF LinkTypes
<1>5. /\ x \in Item /\ rest \in Seq(Unit)
      /\ Placed(r, written[r][i], received[r][i], Append(incoming[i], x), rest \o wire[r][i],
                writes[r][i], a + 1, b)
  BY <1>1, <1>2, <1>3, <1>4, PlacedDeliver
<1>6. x.from = r
  OBVIOUS
<1> HIDE DEF x, rest
<1>7. /\ incoming' \in [Replica -> Seq(Item)]
      /\ \A j \in Replica : incoming'[j] = IF j = i THEN Append(incoming[j], x) ELSE incoming[j]
  <2>1. Append(incoming[i], x) \in Seq(Item)
    BY <1>4, <1>5, AppendProperties
  <2> QED BY <1>1, <2>1 DEF LinkTypes
<1>8. /\ buffer' \in [Replica -> [Replica -> Seq(Unit)]]
      /\ \A q, j \in Replica : buffer'[q][j] = IF q = r /\ j = i THEN rest ELSE buffer[q][j]
  BY <1>1, <1>5 DEF LinkTypes
<1>9. LinkTypes'
  BY <1>1, <1>7, <1>8 DEF LinkTypes
<1>10. ASSUME NEW q \in Replica, NEW j \in Replica PROVE Linked(q, j)'
  <2>1. CASE j # i
    BY <1>1, <1>7, <1>8, <2>1 DEF LinkInv, Linked
  <2>2. CASE j = i /\ q = r
    BY <1>1, <1>3, <1>5, <1>7, <1>8, <2>2 DEF Linked
  <2>3. CASE j = i /\ q # r
    <3>1. Numbered(written[q][i])
      BY DEF LinkInv, Linked
    <3>2. PICK c, d : Placed(q, written[q][i], received[q][i], incoming[i],
                             buffer[q][i] \o wire[q][i], writes[q][i], c, d)
      BY DEF LinkInv, Linked
    <3>3. Placed(q, written[q][i], received[q][i], Append(incoming[i], x),
                 buffer[q][i] \o wire[q][i], writes[q][i], c, d)
      BY <1>4, <1>5, <1>6, <2>3, <3>2, PlacedBeside
    <3> QED BY <1>1, <1>7, <1>8, <2>3, <3>1, <3>3 DEF Linked
  <2> QED BY <2>1, <2>2, <2>3
<1> QED BY <1>9, <1>10 DEF LinkInv

-----------------------------------------------------------------------------
(* What each step does to the reasons for which a replica ends.                        *)
LEMMA ReasonKept ==
  ASSUME ReasonInv, Reason => Reason', cancelled => cancelled',
         \A i \in Replica :
           /\ phase'[i] \in {"leaving", "left"} => phase[i] \in {"leaving", "left"} \/ cancelled'
           /\ phase'[i] = "failed" => phase[i] = "failed" \/ Reason'
  PROVE  ReasonInv'
BY DEF ReasonInv, Reason

LEMMA ClosedReason ==
  ASSUME ReasonInv, NEW i \in Replica, Closed(i)
  PROVE  Reason
BY DEF Closed, Ended, ReasonInv, Reason

LEMMA OversizedStays ==
  ASSUME LinkTypes, UNCHANGED member, Oversized,
         \A r, i \in member : ToSet(written[r][i]) \subseteq ToSet(written'[r][i])
  PROVE  Oversized'
BY DEF Oversized

(* A read task fails only for a message that does not fit into its buffer.              *)
LEMMA BufferFullReason ==
  ASSUME LinkTypes, LinkInv, NEW r \in member, NEW i \in member, BufferFull(r, i)
  PROVE  Oversized
<1>1. r \in Replica /\ i \in Replica
  BY ServiceFacts
<1>2. PICK a, b : Placed(r, written[r][i], received[r][i], incoming[i],
                         buffer[r][i] \o wire[r][i], writes[r][i], a, b)
  BY <1>1 DEF LinkInv, Linked
<1>3. /\ Numbered(written[r][i]) /\ received[r][i] \in Seq(Nat)
      /\ buffer[r][i] \in Seq(Unit) /\ wire[r][i] \in Seq(Unit)
  BY <1>1 DEF LinkTypes, LinkInv, Linked
<1>4. Len(buffer[r][i]) = BufferSize /\ BufferSize > 0 /\ ~HasMessage(buffer[r][i])
  BY CapacitiesAssumption DEF BufferFull
<1>5. buffer[r][i] # <<>>
  BY <1>3, <1>4, EmptySeq
<1>6. \E m \in ToSet(written[r][i]) : m.size > Len(buffer[r][i])
  BY <1>2, <1>3, <1>4, <1>5, FullMeansOversized
<1> QED BY <1>4, <1>6 DEF Oversized

-----------------------------------------------------------------------------
LEMMA InitInv == Init => InterconnectInv
<1> SUFFICES ASSUME Init PROVE InterconnectInv
  OBVIOUS
<1>1. BootTypes
  BY DEF Init, BootInit, BootTypes, Phases
<1>2. BootInv
  <2>1. \A r \in Replica : accepted[r] = {} /\ labels[r] = {} /\ reading[r] = {} /\ phase[r] = "down"
    BY DEF Init, BootInit
  <2>2. \A r, i \in Replica : active[r][i] = "none"
    BY DEF Init, BootInit
  <2>3. \A r \in Replica : labels[r] = {[id |-> i, peer |-> i] : i \in accepted[r] \ reading[r]}
    BY <2>1
  <2> QED BY <2>1, <2>2, <2>3 DEF BootInv
<1>3. LinkTypes
  <2>1. /\ written \in [Replica -> [Replica -> Seq(Msg)]]
        /\ writes \in [Replica -> [Replica -> Seq(Msg)]]
    BY EmptySeq DEF Init
  <2>2. /\ wire \in [Replica -> [Replica -> Seq(Unit)]]
        /\ buffer \in [Replica -> [Replica -> Seq(Unit)]]
    BY EmptySeq DEF Init
  <2>3. incoming \in [Replica -> Seq(Item)] /\ received \in [Replica -> [Replica -> Seq(Nat)]]
    BY EmptySeq DEF Init
  <2>4. effects \in [Replica -> Seq(Effect)]
    BY EmptySeq DEF Init
  <2> QED BY <2>1, <2>2, <2>3, <2>4 DEF Init, LinkTypes
<1>4. LinkInv
  <2> SUFFICES ASSUME NEW r \in Replica, NEW i \in Replica PROVE Linked(r, i)
    BY DEF LinkInv
  <2>1. /\ written[r][i] = <<>> /\ writes[r][i] = <<>> /\ wire[r][i] = <<>>
        /\ buffer[r][i] = <<>> /\ received[r][i] = <<>> /\ incoming[i] = <<>>
    BY DEF Init
  <2>2. Numbered(<<>>)
    BY EmptySeq DEF Numbered
  <2>3. Placed(r, <<>>, <<>>, <<>>, <<>>, <<>>, 0, 0)
    <3>1. Len(<<>>) = 0 /\ DOMAIN <<>> = {}
      OBVIOUS
    <3>2. 0 \in 0..Len(<<>>) /\ Len(<<>>) <= 0 /\ 0 <= 0
      BY <3>1
    <3>3. ToSet(<<>>) = {} /\ FromIn(r, <<>>) = {} /\ InTurn(r, <<>>) /\ Ascends(<<>>)
      BY <3>1 DEF ToSet, FromIn, InTurn, Ascends
    <3>4. SentUnits(<<>>, 0, 0) = {} /\ (0 + 1)..0 = {}
      BY DEF SentUnits
    <3>5. <<>> = [k \in 1..Len(<<>>) |-> k]
      OBVIOUS
    <3>6. SubSeq(<<>>, 0 + 1, Len(<<>>)) = <<>>
      OBVIOUS
    <3>7. /\ FromIn(r, <<>>) = (Len(<<>>) + 1)..0 /\ ToSet(<<>>) = SentUnits(<<>>, 0, 0)
      BY <3>1, <3>3, <3>4
    <3> QED BY <3>3, <3>5, <3>6, <3>2, <3>7 DEF Placed
  <2>4. <<>> \o <<>> = <<>>
    OBVIOUS
  <2> QED BY <2>1, <2>2, <2>3, <2>4 DEF Linked
<1>5. ReasonInv
  BY DEF Init, BootInit, ReasonInv
<1> QED BY <1>1, <1>2, <1>3, <1>4, <1>5 DEF InterconnectInv

(* A step that changes neither the messages nor the bootstrap, and not the set of running  *)
(* replicas but to end one of them.                                                  *)
LEMMA Quiet ==
  ASSUME InterconnectInv, UNCHANGED <<transport, member, plan, bootVars, linkVars>>,
         effects' \in [Replica -> Seq(Effect)],
         phase' \in [Replica -> Phases], cancelled => cancelled',
         \A i \in Replica :
           /\ phase'[i] = "running" => phase[i] = "running"
           /\ phase'[i] \in {"leaving", "left"} => phase[i] \in {"leaving", "left"} \/ cancelled'
           /\ phase'[i] = "failed" => phase[i] = "failed" \/ Reason
  PROVE  InterconnectInv'
<1>1. BootTypes' /\ BootInv'
  BY BootKept DEF InterconnectInv
<1>2. LinkTypes' /\ LinkInv'
  BY LinkKept DEF InterconnectInv
<1>3. Reason => Reason'
  BY DEF Reason, Oversized, linkVars, bootVars
<1>4. ReasonInv'
  BY <1>3, ReasonKept DEF InterconnectInv
<1> QED BY <1>1, <1>2, <1>4 DEF InterconnectInv

LEMMA BootReason ==
  ASSUME InterconnectInv, NEW r \in member, Boot(r)
  PROVE  InterconnectInv'
<1>1. /\ BootTypes /\ BootInv /\ LinkTypes /\ LinkInv /\ ReasonInv /\ r \in Replica
      /\ BootStep(r) /\ UNCHANGED <<transport, member, plan, effects, linkVars, cancelled>>
  BY ServiceFacts DEF InterconnectInv, Boot
<1>2. BootTypes' /\ BootInv'
  BY <1>1, BootStepKeeps
<1>3. LinkTypes' /\ LinkInv'
  <2>1. effects' \in [Replica -> Seq(Effect)]
    BY <1>1 DEF LinkTypes
  <2> QED BY <1>1, <2>1, LinkKept
<1>4. refused => refused'
  BY <1>1 DEF BootStep, Start, Ready, Dial, SendLabel, Accept, ReadLabel, bootVars
<1>5. Reason => Reason'
  BY <1>1, <1>4 DEF Reason, Oversized, linkVars
<1>6. \A i \in Replica :
        /\ phase'[i] \in {"leaving", "left"} => phase[i] \in {"leaving", "left"}
        /\ phase'[i] = "failed" => phase[i] = "failed" \/ refused'
  <2>1. CASE Start(r)
    BY <1>1, <2>1 DEF Start, BootTypes
  <2>2. CASE Ready(r)
    <3>1. Complete(r)
      BY <1>1, <2>2, AllConnected DEF Ready
    <3> QED BY <1>1, <2>2, <3>1 DEF Ready, BootTypes
  <2>3. ASSUME NEW k \in Replica, Dial(r, k)
        PROVE  UNCHANGED phase \/ (refused' /\ phase' = [phase EXCEPT ![r] = "failed"])
    BY <2>3 DEF Dial
  <2>4. ASSUME NEW k \in Replica, SendLabel(r, k) \/ Accept(r, k) \/ ReadLabel(r, k)
        PROVE  UNCHANGED phase
    BY <2>4 DEF SendLabel, Accept, ReadLabel
  <2>5. CASE UNCHANGED phase \/ (refused' /\ phase' = [phase EXCEPT ![r] = "failed"])
    BY <1>1, <2>5 DEF BootTypes
  <2> QED BY <1>1, <2>1, <2>2, <2>3, <2>4, <2>5 DEF BootStep
<1>7. ReasonInv'
  BY <1>1, <1>5, <1>6, ReasonKept DEF Reason
<1> QED BY <1>2, <1>3, <1>7 DEF InterconnectInv

LEMMA SendReason ==
  ASSUME InterconnectInv, NEW r \in member, Send(r)
  PROVE  InterconnectInv'
<1>1. /\ BootTypes /\ BootInv /\ LinkTypes /\ LinkInv /\ ReasonInv /\ r \in Replica
      /\ UNCHANGED <<transport, member, bootVars, cancelled>>
  BY ServiceFacts DEF InterconnectInv, Send
<1>2. LinkTypes' /\ LinkInv'
  BY <1>1, SendKeeps
<1>3. \/ UNCHANGED phase
      \/ phase' = [phase EXCEPT ![r] = "failed"] /\ Closed(Head(effects[r]).to)
  BY DEF Send
<1>4. Head(effects[r]).to \in Replica
  <2>1. effects[r] \in Seq(Effect) /\ effects[r] # <<>>
    BY <1>1 DEF LinkTypes, Send
  <2>2. Head(effects[r]) \in Effect
    BY <2>1, HeadTailProperties
  <2> QED BY <2>2 DEF Effect
<1>5. Oversized => Oversized'
  <2>1. ASSUME NEW q \in member, NEW i \in member
        PROVE  ToSet(written[q][i]) \subseteq ToSet(written'[q][i])
    <3>1. CASE UNCHANGED written
      BY <3>1
    <3>2. CASE ~UNCHANGED written
      <4> DEFINE j == Head(effects[r]).to
                 m == [n |-> Len(written[r][j]) + 1, size |-> Head(effects[r]).size]
      <4>1. written' = [written EXCEPT ![r][j] = Append(@, m)]
        BY <3>2 DEF Send
      <4> HIDE DEF m
      <4> HIDE DEF j
      <4>2. q \in Replica /\ i \in Replica
        BY <1>1, ServiceFacts
      <4>3. written'[q][i] = written[q][i] \/ written'[q][i] = Append(written[q][i], m)
        BY <1>1, <4>1, <4>2 DEF LinkTypes
      <4>4. written[q][i] \in Seq(Msg)
        BY <1>1, <4>2 DEF LinkTypes
      <4>5. ASSUME NEW u \in ToSet(written[q][i]) PROVE u \in ToSet(Append(written[q][i], m))
        <5>1. PICK k \in DOMAIN written[q][i] : u = written[q][i][k]
          BY DEF ToSet
        <5>2. k \in DOMAIN Append(written[q][i], m) /\ Append(written[q][i], m)[k] = u
          BY <4>4, <5>1
        <5> QED BY <5>2 DEF ToSet
      <4> QED BY <4>3, <4>5
    <3> QED BY <3>1, <3>2
  <2> QED BY <1>1, <2>1, OversizedStays
<1>6. Reason => Reason'
  BY <1>1, <1>5 DEF Reason, bootVars
<1>7. /\ phase' \in [Replica -> Phases]
      /\ \A i \in Replica :
           /\ phase'[i] = "running" => phase[i] = "running"
           /\ phase'[i] \in {"leaving", "left"} => phase[i] \in {"leaving", "left"}
           /\ phase'[i] = "failed" => phase[i] = "failed" \/ Reason
  <2>1. CASE UNCHANGED phase
    BY <1>1, <2>1 DEF BootTypes
  <2>2. CASE phase' = [phase EXCEPT ![r] = "failed"] /\ Closed(Head(effects[r]).to)
    <3>1. Reason
      BY <1>1, <1>4, <2>2, ClosedReason
    <3> QED BY <1>1, <2>2, <3>1 DEF BootTypes, Phases
  <2> QED BY <1>3, <2>1, <2>2
<1>8. BootTypes' /\ BootInv'
  BY <1>1, <1>7, BootKept
<1>9. ReasonInv'
  BY <1>1, <1>6, <1>7, ReasonKept
<1> QED BY <1>2, <1>8, <1>9 DEF InterconnectInv

(* A step of a connection that keeps the messages keeps the rest.                       *)
LEMMA LinkReason ==
  ASSUME InterconnectInv, LinkTypes', LinkInv',
         UNCHANGED <<transport, member, phase, bootVars, written, cancelled>>
  PROVE  InterconnectInv'
<1>1. BootTypes' /\ BootInv'
  BY BootKept DEF InterconnectInv, BootTypes
<1>2. ReasonInv'
  BY DEF InterconnectInv, ReasonInv, Reason, Oversized, bootVars
<1> QED BY <1>1, <1>2 DEF InterconnectInv

LEMMA NextInv == InterconnectInv /\ [Next]_vars => InterconnectInv'
<1> SUFFICES ASSUME InterconnectInv, [Next]_vars PROVE InterconnectInv'
  OBVIOUS
<1>1. /\ LinkTypes /\ LinkInv /\ ReasonInv /\ member \subseteq Replica
      /\ effects \in [Replica -> Seq(Effect)] /\ phase \in [Replica -> Phases]
  BY ServiceFacts DEF InterconnectInv, LinkTypes, BootTypes
<1>2. CASE UNCHANGED vars
  BY <1>1, <1>2, Quiet DEF vars
<1>3. ASSUME NEW r \in member, Boot(r) PROVE InterconnectInv'
  BY <1>3, BootReason
<1>4. ASSUME NEW r \in member, Receive(r) PROVE InterconnectInv'
  BY <1>1, <1>4, ReceiveKeeps, LinkReason DEF Receive
<1>5. ASSUME NEW r \in member, Send(r) PROVE InterconnectInv'
  BY <1>5, SendReason
<1>6. ASSUME NEW r \in member, ConnectionFails(r) PROVE InterconnectInv'
  <2>1. /\ UNCHANGED <<transport, member, plan, bootVars, effects, linkVars, cancelled>>
        /\ phase' = [phase EXCEPT ![r] = "failed"]
    BY <1>6 DEF ConnectionFails
  <2>2. Reason
    BY <1>1, <1>6, ClosedReason DEF ConnectionFails, Peers
  <2>3. /\ phase' \in [Replica -> Phases]
        /\ \A i \in Replica : phase'[i] = phase[i] \/ phase'[i] = "failed"
    BY <1>1, <2>1 DEF Phases
  <2> QED BY <1>1, <2>1, <2>2, <2>3, Quiet
<1>7. ASSUME NEW r \in member, Leave(r) PROVE InterconnectInv'
  <2>1. /\ UNCHANGED <<transport, member, plan, bootVars, linkVars, cancelled>>
        /\ phase' = [phase EXCEPT ![r] = "leaving"] /\ cancelled
        /\ effects' = [effects EXCEPT ![r] = <<>>]
    BY <1>7 DEF Leave
  <2>2. /\ phase' \in [Replica -> Phases]
        /\ \A i \in Replica : phase'[i] = phase[i] \/ phase'[i] = "leaving"
    BY <1>1, <2>1 DEF Phases
  <2>3. effects' \in [Replica -> Seq(Effect)]
    BY <1>1, <2>1
  <2> QED BY <1>1, <2>1, <2>2, <2>3, Quiet
<1>8. ASSUME NEW r \in member, Release(r) PROVE InterconnectInv'
  <2>1. /\ UNCHANGED <<transport, member, plan, bootVars, effects, linkVars, cancelled>>
        /\ phase' = [phase EXCEPT ![r] = "left"] /\ phase[r] = "leaving"
    BY <1>8 DEF Release
  <2>2. cancelled
    BY <1>1, <2>1 DEF ReasonInv
  <2>3. /\ phase' \in [Replica -> Phases]
        /\ \A i \in Replica : phase'[i] = phase[i] \/ phase'[i] = "left"
    BY <1>1, <2>1 DEF Phases
  <2> QED BY <1>1, <2>1, <2>2, <2>3, Quiet
<1>9. ASSUME NEW r \in member, NEW i \in member, Link(r, i) PROVE InterconnectInv'
  <2>1. r \in Replica /\ i \in Replica
    BY <1>1
  <2>2. CASE WriteTask(r, i)
    BY <1>1, <2>1, <2>2, WriteKeeps, LinkReason DEF WriteTask
  <2>3. CASE ReadTask(r, i)
    BY <1>1, <2>1, <2>3, ReadKeeps, LinkReason DEF ReadTask
  <2>4. CASE Deliver(r, i)
    BY <1>1, <2>1, <2>4, DeliverKeeps, LinkReason DEF Deliver
  <2>5. CASE ReadFails(r, i)
    <3>1. /\ UNCHANGED <<transport, member, plan, bootVars, effects, linkVars, cancelled>>
          /\ phase' = [phase EXCEPT ![i] = "failed"] /\ BufferFull(r, i)
      BY <2>5 DEF ReadFails
    <3>2. Reason
      BY <1>1, <3>1, BufferFullReason DEF Reason
    <3>3. /\ phase' \in [Replica -> Phases]
          /\ \A k \in Replica : phase'[k] = phase[k] \/ phase'[k] = "failed"
      BY <1>1, <3>1 DEF Phases
    <3> QED BY <1>1, <3>1, <3>2, <3>3, Quiet
  <2>6. CASE Arrive(r, i)
    BY <1>1, <2>6, Quiet DEF Arrive
  <2> QED BY <1>9, <2>2, <2>3, <2>4, <2>5, <2>6 DEF Link
<1>10. ASSUME NEW r \in member, Spontaneous(r) PROVE InterconnectInv'
  <2>1. /\ UNCHANGED <<transport, member, plan, phase, bootVars, linkVars, cancelled>> /\ Act(r)
    BY <1>10 DEF Spontaneous
  <2>2. effects' \in [Replica -> Seq(Effect)]
    BY <1>1, <2>1, ActEffects
  <2> QED BY <1>1, <2>1, <2>2, Quiet
<1>11. CASE Cancel
  <2>1. UNCHANGED <<transport, member, plan, phase, bootVars, effects, linkVars>> /\ cancelled'
    BY <1>11 DEF Cancel
  <2> QED BY <1>1, <2>1, Quiet
<1> QED BY <1>2, <1>3, <1>4, <1>5, <1>6, <1>7, <1>8, <1>9, <1>10, <1>11 DEF Next, Step

(* The invariant holds for any services that are considered.                          *)
THEOREM InterconnectInvariant == Spec => []InterconnectInv
<1> QED BY InitInv, NextInv, PTL DEF Spec

(* Every message between two replicas is in one place, and they arrive in the order in   *)
(* which they were sent; a replica that runs has the connections of its peers.             *)
THEOREM InterconnectDelivers == Spec => []DeliveredExactly
<1>1. InterconnectInv => DeliveredExactly
  <2> SUFFICES ASSUME InterconnectInv PROVE DeliveredExactly
    OBVIOUS
  <2>1. ConnectedRight
    BY RunningConnected DEF InterconnectInv
  <2>2. ASSUME NEW r \in member, NEW i \in member
        PROVE  InOnePlace(r, written[r][i], received[r][i], incoming[i],
                          buffer[r][i] \o wire[r][i], writes[r][i])
    <3>1. r \in Replica /\ i \in Replica
      BY ServiceFacts DEF InterconnectInv
    <3>2. Linked(r, i)
      BY <3>1 DEF InterconnectInv, LinkInv
    <3> QED BY <3>2, PlacedMeans DEF Linked
  <2> QED BY <2>1, <2>2 DEF DeliveredExactly
<1> QED BY <1>1, InterconnectInvariant, PTL

(* A replica ends with an error only for a refused connection, a message that does not   *)
(* fit into the buffer of a read task, or because the servers are stopped.                *)
THEOREM InterconnectFailsForReason == Spec => []FailsForReason
<1>1. InterconnectInv => FailsForReason
  <2> SUFFICES ASSUME InterconnectInv, NEW r \in member, phase[r] = "failed"
               PROVE  refused \/ Oversized \/ cancelled
    BY DEF FailsForReason
  <2>1. r \in Replica
    BY ServiceFacts DEF InterconnectInv
  <2> QED BY <2>1 DEF InterconnectInv, ReasonInv, Reason
<1> QED BY <1>1, InterconnectInvariant, PTL
=============================================================================
