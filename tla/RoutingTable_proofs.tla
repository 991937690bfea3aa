------------------------- MODULE RoutingTable_proofs -------------------------
(***************************************************************************)
(* What RoutingTable promises for keys of any length, any bucket sizes and *)
(* any peers.                                                              *)
(*                                                                         *)
(* A bucket splits by one more bit of the keys, so the two halves share    *)
(* out its keys, nodes and replacement nodes.  With every split the table  *)
(* gets a bucket more and a prefix one bit longer: the limit on the        *)
(* buckets is a limit on the prefixes.                                     *)
(* findNeighbors sees the buckets in some order, each once: what it        *)
(* returns is counted by adding up their nodes in any order.               *)
(***************************************************************************)
EXTENDS RoutingTable, SequenceLemmas

Node == [peer : Peers, fails : 0..Stale]
Prefix == Seq({0, 1})

(* The peers a bucket knows.                                               *)
Members(b) == PeersOf(b) \cup Range(b.spare)

Typed(t) ==
    /\ t \in Seq(Bucket) /\ t # <<>> /\ Len(t) <= MaxBuckets
    /\ \A i \in DOMAIN t : Len(t[i].nodes) <= KSize
    /\ \A i \in DOMAIN t : Len(t[i].prefix) < Len(t)

(* Bucket i of t, and no other, can hold the key.                          *)
Holder(t, id, i) ==
    /\ i \in DOMAIN t /\ CanHold(t[i], id)
    /\ \A j \in DOMAIN t : CanHold(t[j], id) => j = i

Partition(t) ==
    /\ \A id \in Key : \E i \in DOMAIN t : Holder(t, id, i)
    /\ CanHold(t[Len(t)], MyId)

InPlace(t) == \A i \in DOMAIN t : \A p \in Members(t[i]) : CanHold(t[i], p.id)

TableOK(t) == Typed(t) /\ Partition(t) /\ InPlace(t)

RoundOK ==
    /\ ready \subseteq Peers
    /\ at \in 0..(MaxBuckets + 1) /\ torn \in BOOLEAN
    /\ ask \in Seq(Peers) /\ found \in Seq(Peers)

RtInv == TableOK(buckets) /\ RoundOK

-----------------------------------------------------------------------------
(* Keys are sequences of as many bits as mine has.                         *)
LEMMA Keys ==
    /\ KeyBits \in Nat \ {0} /\ MaxBuckets = KeyBits /\ MyId \in Key
    /\ \A id \in Key : id \in Seq({0, 1}) /\ Len(id) = KeyBits
    /\ \A p \in Peers : p.id \in Key
    /\ KSize \in Nat \ {0} /\ Stale \in Nat \ {0}
<1>1. MyId \in Seq({0, 1}) /\ MyId # <<>> /\ MaxBuckets = KeyBits
  BY KeyAssumption
<1>2. KeyBits \in Nat \ {0}
  BY <1>1 DEF KeyBits
<1>3. MyId \in Key
  BY <1>1 DEF Key, KeyBits
<1>4. \A id \in Key : id \in Seq({0, 1}) /\ Len(id) = KeyBits
  BY <1>2, FunctionIsSeq DEF Key
<1>5. \A p \in Peers : p.id \in Key
  BY PeersAssumption
<1>6. KSize \in Nat \ {0} /\ Stale \in Nat \ {0}
  BY SizesAssumption
<1> QED
  BY <1>1, <1>2, <1>3, <1>4, <1>5, <1>6

(* A prefix agrees with the key bit for bit.                               *)
LEMMA PrefixAgrees ==
    ASSUME NEW q \in Prefix, NEW id \in Key
    PROVE  IsPrefix(q, id) <=>
               Len(q) <= KeyBits /\ \A k \in 1..Len(q) : q[k] = id[k]
<1>1. q \in Seq({0, 1}) /\ id \in Seq({0, 1}) /\ Len(id) = KeyBits /\ KeyBits \in Nat
  BY Keys DEF Prefix
<1>2. Len(q) \in Nat /\ \A k \in 1..Len(q) : q[k] \in {0, 1}
  BY <1>1
<1>3. SubSeq(q, 1, Len(q)) = q
  BY <1>1
<1>4. ASSUME Len(q) <= KeyBits
      PROVE  SubSeq(id, 1, Len(q)) = [k \in 1..Len(q) |-> id[k]]
  BY <1>1, <1>2, <1>4
<1>5. q = [k \in 1..Len(q) |-> q[k]]
  BY <1>1
<1> QED
  BY <1>1, <1>3, <1>4, <1>5 DEF IsPrefix

(* One more bit is one more to agree.                                      *)
LEMMA LongerPrefix ==
    ASSUME NEW q \in Prefix, Len(q) < KeyBits, NEW id \in Key, NEW x \in {0, 1}
    PROVE  /\ Append(q, x) \in Prefix /\ Len(Append(q, x)) = Len(q) + 1
           /\ IsPrefix(Append(q, x), id) <=> IsPrefix(q, id) /\ id[Len(q) + 1] = x
           /\ id[Len(q) + 1] \in {0, 1}
<1> DEFINE r == Append(q, x)
           n == Len(q)
<1>1. n \in Nat /\ KeyBits \in Nat /\ n + 1 <= KeyBits
  BY Keys DEF Prefix
<1>2. r \in Prefix /\ Len(r) = n + 1 /\ r[n + 1] = x /\ \A k \in 1..n : r[k] = q[k]
  BY DEF Prefix
<1>3. id[n + 1] \in {0, 1}
  BY <1>1, Keys
<1>4. IsPrefix(q, id) <=> \A k \in 1..n : q[k] = id[k]
  BY <1>1, PrefixAgrees
<1> HIDE DEF n, r
<1>5. IsPrefix(r, id) <=> \A k \in 1..(n + 1) : r[k] = id[k]
  BY <1>1, <1>2, PrefixAgrees
<1>6. (\A k \in 1..(n + 1) : r[k] = id[k]) <=>
          (\A k \in 1..n : r[k] = id[k]) /\ r[n + 1] = id[n + 1]
  <2>1. 1..(n + 1) = (1..n) \cup {n + 1}
    BY <1>1
  <2> QED
    BY <2>1
<1> QED
  BY <1>2, <1>3, <1>4, <1>5, <1>6 DEF n, r

-----------------------------------------------------------------------------
(* Those leaves the elements at the places K, and no others.               *)
LEMMA ThoseOf ==
    ASSUME NEW S, NEW s \in Seq(S), NEW K
    PROVE  /\ Those(s, K) \in Seq(S)
           /\ Len(Those(s, K)) <= Len(s)
           /\ Len(Those(s, K)) = Cardinality(DOMAIN s \cap K)
           /\ Range(Those(s, K)) = {s[k] : k \in DOMAIN s \cap K}
<1> DEFINE N == Len(s)
           Next(k, v) == IF k \in K THEN Append(v, s[k]) ELSE v
           IsThose(f) == f = [k \in 0..N |-> IF k = 0 THEN <<>>
                                            ELSE IF k \in K THEN Append(f[k - 1], s[k])
                                            ELSE f[k - 1]]
           those == CHOOSE f : IsThose(f)
           G == [q \in (1..N) \X Seq(S) |-> Next(q[1], q[2])]
           none == <<>>
           V == Seq(S)
<1>1. N \in Nat /\ DOMAIN s = 1..N /\ \A k \in 1..N : s[k] \in S
  OBVIOUS
<1>2. Those(s, K) = those[N]
  BY DEF Those
<1>3. none \in V
  OBVIOUS
<1>4. \A k \in 1..N : \A v \in V : Next(k, v) \in V /\ G[<<k, v>>] = Next(k, v)
  BY <1>1
<1> HIDE DEF N, G
<1>5. PICK f : BuiltBy(G, N, V, none, f)
  <2>1. StepsIn(G, N, V)
    BY <1>4 DEF StepsIn
  <2> HIDE DEF V, none
  <2> QED
    BY <1>1, <1>3, <2>1, Recursion
<1>6. IsThose(f)
  <2>1. /\ f \in [0..N -> V] /\ f[0] = <<>>
        /\ \A k \in 1..N : f[k] = G[<<k, f[k - 1]>>]
    BY <1>5 DEF BuiltBy
  <2>2. \A k \in 1..N : f[k] = Next(k, f[k - 1])
    <3>1. \A k \in 1..N : f[k - 1] \in V
      BY <1>1, <2>1
    <3> HIDE DEF V, Next
    <3> QED
      BY <1>4, <2>1, <3>1
  <2>3. \A k \in 0..N : k = 0 \/ k \in 1..N
    BY <1>1
  <2> HIDE DEF V
  <2> QED
    BY <2>1, <2>2, <2>3
<1>7. IsThose(those)
  BY <1>6
<1> HIDE DEF those
<1>8. /\ those[0] = <<>>
      /\ \A k \in 1..N : those[k] = Next(k, those[k - 1])
  <2>1. \A k \in 1..N : k \in 0..N /\ k # 0
    BY <1>1
  <2>2. 0 \in 0..N
    BY <1>1
  <2> QED
    BY <1>7, <2>1, <2>2
<1> DEFINE Good(n) ==
             /\ those[n] \in Seq(S) /\ Len(those[n]) <= n
             /\ Len(those[n]) = Cardinality((1..n) \cap K)
             /\ Range(those[n]) = {s[k] : k \in (1..n) \cap K}
           T == {n \in Nat : n <= N => Good(n)}
<1>9. 0 \in T
  <2>1. (1..0) \cap K = {} /\ Range(<<>>) = {} /\ Len(<<>>) = 0
    BY DEF Range
  <2>2. <<>> \in Seq(S)
    OBVIOUS
  <2>3. {s[k] : k \in (1..0) \cap K} = {}
    BY <2>1
  <2>4. Len(<<>>) = Cardinality((1..0) \cap K)
    BY <2>1, FS_EmptySet
  <2>5. Good(0)
    BY <1>8, <2>1, <2>2, <2>3, <2>4
  <2> QED
    BY <2>5
<1>10. ASSUME NEW n \in T
       PROVE  n + 1 \in T
  <2> SUFFICES ASSUME n + 1 <= N
               PROVE  Good(n + 1)
    OBVIOUS
  <2>1. n \in Nat /\ n + 1 \in 1..N /\ Good(n)
    BY <1>1
  <2>2. those[n + 1] = IF n + 1 \in K THEN Append(those[n], s[n + 1]) ELSE those[n]
    <3>1. (n + 1) - 1 = n
      BY <2>1
    <3> QED
      BY <1>8, <2>1, <3>1
  <2>3. (1..(n + 1)) \cap K = ((1..n) \cap K) \cup ({n + 1} \cap K)
    BY <2>1
  <2>4. CASE n + 1 \in K
    <3>1. s[n + 1] \in S
      BY <1>1, <2>1
    <3>2. /\ those[n + 1] \in Seq(S) /\ Len(those[n + 1]) = Len(those[n]) + 1
          /\ Range(those[n + 1]) = Range(those[n]) \cup {s[n + 1]}
      <4>1. those[n + 1] = Append(those[n], s[n + 1])
        BY <2>2, <2>4
      <4> DEFINE a == those[n]
                 x == s[n + 1]
      <4>2. a \in Seq(S) /\ x \in S
        BY <2>1, <3>1
      <4> HIDE DEF a, x
      <4>3. /\ Append(a, x) \in Seq(S) /\ Len(Append(a, x)) = Len(a) + 1
            /\ Range(Append(a, x)) = Range(a) \cup {x}
        BY <4>2, AppendProperties, RangeOfAppend
      <4> QED
        BY <4>1, <4>3 DEF a, x
    <3>3. {s[k] : k \in (1..(n + 1)) \cap K} =
              {s[k] : k \in (1..n) \cap K} \cup {s[n + 1]}
      BY <2>3, <2>4
    <3>4. Len(those[n + 1]) <= n + 1
      <4>1. Len(those[n]) \in Nat /\ Len(those[n]) <= n
        BY <2>1
      <4> QED
        BY <2>1, <3>2, <4>1
    <3>5. Len(those[n + 1]) = Cardinality((1..(n + 1)) \cap K)
      <4> DEFINE D == (1..n) \cap K
      <4>1. IsFiniteSet(D) /\ n + 1 \notin D
        <5>1. IsFiniteSet(1..n) /\ n + 1 \notin 1..n
          BY <2>1, FS_Interval
        <5> QED
          BY <5>1, FS_Subset
      <4>2. (1..(n + 1)) \cap K = D \cup {n + 1}
        BY <2>3, <2>4
      <4>3. Len(those[n]) = Cardinality(D)
        BY <2>1
      <4> HIDE DEF D
      <4>4. Cardinality(D \cup {n + 1}) = Cardinality(D) + 1
        BY <4>1, FS_AddElement
      <4> QED
        BY <3>2, <4>2, <4>3, <4>4
    <3> QED
      BY <2>1, <3>2, <3>3, <3>4, <3>5
  <2>5. CASE n + 1 \notin K
    <3>1. (1..(n + 1)) \cap K = (1..n) \cap K /\ those[n + 1] = those[n]
      BY <2>2, <2>3, <2>5
    <3>2. Len(those[n]) <= n + 1
      <4>1. Len(those[n]) \in Nat /\ Len(those[n]) <= n
        BY <2>1
      <4> QED
        BY <2>1, <4>1
    <3> QED
      BY <2>1, <3>1, <3>2
  <2> QED
    BY <2>4, <2>5
<1>11. T = Nat
  <2> HIDE DEF T
  <2>1. T \in SUBSET Nat
    BY DEF T
  <2> QED
    BY <1>9, <1>10, <2>1, InductionOnSets
<1>12. Good(N)
  <2> HIDE DEF T
  <2>1. N \in T /\ N <= N
    BY <1>1, <1>11
  <2> QED
    BY <2>1 DEF T
<1> QED
  BY <1>1, <1>2, <1>12 DEF N

-----------------------------------------------------------------------------
(* What buckets are made of.                                               *)
LEMMA BucketParts ==
    ASSUME NEW b \in Bucket
    PROVE  /\ b.prefix \in Prefix /\ b.nodes \in Seq(Node) /\ b.spare \in Seq(Peers)
           /\ Members(b) \subseteq Peers
           /\ \A id : CanHold(b, id) <=> IsPrefix(b.prefix, id)
<1>1. b.prefix \in Prefix /\ b.nodes \in Seq(Node) /\ b.spare \in Seq(Peers)
  BY DEF Bucket, Prefix, Node
<1>2. PeersOf(b) \subseteq Peers
  <2>1. \A n \in Range(b.nodes) : n \in Node
    BY <1>1, SeqIsFunction DEF Range
  <2> QED
    BY <2>1 DEF PeersOf, Node
<1>3. Range(b.spare) \subseteq Peers
  BY <1>1, SeqIsFunction DEF Range
<1> QED
  BY <1>1, <1>2, <1>3 DEF Members, CanHold

LEMMA IsBucket ==
    ASSUME NEW q \in Prefix, NEW ns \in Seq(Node), NEW sp \in Seq(Peers)
    PROVE  [prefix |-> q, nodes |-> ns, spare |-> sp] \in Bucket
BY DEF Bucket, Prefix, Node

LEMMA Freshly ==
    ASSUME NEW p \in Peers
    PROVE  Fresh(p) \in Node /\ Fresh(p).peer = p
BY SizesAssumption DEF Fresh, Node

(* addNode makes the peer known and forgets none.                          *)
LEMMA AddedNode ==
    ASSUME NEW b \in Bucket, Len(b.nodes) <= KSize, NEW p \in Peers
    PROVE  /\ AddNode(b, p) \in Bucket
           /\ AddNode(b, p).prefix = b.prefix
           /\ Len(AddNode(b, p).nodes) <= KSize
           /\ Members(AddNode(b, p)) = Members(b) \cup {p}
<1> DEFINE ns == b.nodes
           f == Fresh(p)
           c == AddNode(b, p)
<1>1. ns \in Seq(Node) /\ b.spare \in Seq(Peers) /\ b.prefix \in Prefix
  BY BucketParts
<1>2. f \in Node /\ f.peer = p
  BY Freshly
<1>3. KSize \in Nat /\ Len(ns) \in Nat /\ DOMAIN ns = 1..Len(ns)
  BY <1>1, Keys
<1>4. PeersOf(b) = {ns[k].peer : k \in DOMAIN ns}
  BY DEF PeersOf, Range
<1>5. b = [prefix |-> b.prefix, nodes |-> b.nodes, spare |-> b.spare]
  BY DEF Bucket
<1>6. CASE Holds(b, p)
  <2> DEFINE j == SelectInSeq(ns, LAMBDA n : n.peer = p)
             r == RemoveAt(ns, j)
  <2>1. j \in DOMAIN ns /\ ns[j].peer = p
    <3> DEFINE I == {i \in 1..Len(ns) : ns[i].peer = p}
    <3>1. I # {} /\ I \in SUBSET Nat
      BY <1>3, <1>4, <1>6 DEF Holds
    <3>2. j = Min(I)
      BY <3>1 DEF SelectInSeq
    <3>3. Min(I) \in I
      BY <3>1, MinIsLeast
    <3> QED
      BY <1>3, <3>2, <3>3
  <2>2. c = [b EXCEPT !.nodes = Append(r, f)]
    BY <1>6 DEF AddNode
  <2> HIDE DEF j
  <2>3. /\ r \in Seq(Node) /\ Len(r) = Len(ns) - 1
        /\ \A k \in 1..(Len(ns) - 1) : r[k] = IF k < j THEN ns[k] ELSE ns[k + 1]
    BY <1>1, <2>1, RemovedAt
  <2> HIDE DEF r, f
  <2>4. /\ Append(r, f) \in Seq(Node) /\ Len(Append(r, f)) = Len(ns)
        /\ Range(Append(r, f)) = Range(r) \cup {f}
    <3>1. Append(r, f) \in Seq(Node) /\ Len(Append(r, f)) = Len(r) + 1
      BY <1>2, <2>3
    <3>2. Range(Append(r, f)) = Range(r) \cup {f}
      BY <1>2, <2>3, RangeOfAppend
    <3> QED
      BY <1>3, <2>3, <3>1, <3>2
  <2>5. {n.peer : n \in Range(r)} \cup {p} = PeersOf(b)
    <3>1. DOMAIN r = 1..(Len(ns) - 1)
      BY <2>3
    <3>2. \A k \in DOMAIN r : \E i \in DOMAIN ns : r[k] = ns[i]
      <4>1. \A k \in DOMAIN r : k \in DOMAIN ns /\ k + 1 \in DOMAIN ns
        BY <1>3, <3>1
      <4> QED
        BY <2>3, <3>1, <4>1
    <3>3. ASSUME NEW i \in DOMAIN ns, i # j
          PROVE  \E k \in DOMAIN r : r[k] = ns[i]
      <4>1. CASE i < j
        <5>1. i \in DOMAIN r
          BY <1>3, <2>1, <3>1, <4>1
        <5> QED
          BY <2>3, <3>1, <4>1, <5>1
      <4>2. CASE ~(i < j)
        <5>1. i - 1 \in DOMAIN r /\ ~(i - 1 < j) /\ (i - 1) + 1 = i
          BY <1>3, <2>1, <3>1, <3>3, <4>2
        <5> QED
          BY <2>3, <3>1, <5>1
      <4> QED
        BY <4>1, <4>2
    <3>4. {n.peer : n \in Range(r)} = {r[k].peer : k \in DOMAIN r}
      BY DEF Range
    <3>5. ASSUME NEW x \in {r[k].peer : k \in DOMAIN r} \cup {p}
          PROVE  x \in {ns[k].peer : k \in DOMAIN ns}
      <4>1. CASE x = p
        BY <2>1, <4>1
      <4>2. CASE x # p
        <5>1. PICK k \in DOMAIN r : x = r[k].peer
          BY <4>2
        <5> QED
          BY <3>2, <5>1
      <4> QED
        BY <4>1, <4>2
    <3>6. ASSUME NEW i \in DOMAIN ns
          PROVE  ns[i].peer \in {r[k].peer : k \in DOMAIN r} \cup {p}
      <4>1. CASE i = j
        BY <2>1, <4>1
      <4>2. CASE i # j
        <5>1. PICK k \in DOMAIN r : r[k] = ns[i]
          BY <3>3, <4>2
        <5>2. r[k].peer = ns[i].peer
          BY <5>1
        <5> QED
          BY <5>2
      <4> QED
        BY <4>1, <4>2
    <3> HIDE DEF ns
    <3>7. {r[k].peer : k \in DOMAIN r} \cup {p} = {ns[k].peer : k \in DOMAIN ns}
      BY <3>5, <3>6
    <3> QED
      BY <1>4, <3>4, <3>7
  <2>6. c = [prefix |-> b.prefix, nodes |-> Append(r, f), spare |-> b.spare]
    BY <1>5, <2>2
  <2> HIDE DEF c
  <2>7. PeersOf(c) = PeersOf(b)
    BY <1>2, <2>4, <2>5, <2>6 DEF PeersOf
  <2>8. c \in Bucket /\ c.prefix = b.prefix /\ c.spare = b.spare
        /\ Len(c.nodes) <= KSize
    BY <1>1, <2>4, <2>6, IsBucket
  <2> QED
    BY <1>6, <2>7, <2>8 DEF c, Members, Holds
<1>7. CASE ~Holds(b, p) /\ Len(ns) # KSize
  <2>1. c = [prefix |-> b.prefix, nodes |-> Append(ns, f), spare |-> b.spare]
    BY <1>5, <1>7 DEF AddNode
  <2>2. /\ Append(ns, f) \in Seq(Node) /\ Len(Append(ns, f)) = Len(ns) + 1
        /\ Range(Append(ns, f)) = Range(ns) \cup {f}
    BY <1>1, <1>2, RangeOfAppend, AppendProperties
  <2> HIDE DEF c, f
  <2>3. PeersOf(c) = PeersOf(b) \cup {p}
    BY <1>2, <2>1, <2>2 DEF PeersOf
  <2>4. c \in Bucket /\ c.prefix = b.prefix /\ c.spare = b.spare
        /\ Len(c.nodes) <= KSize
    <3>1. Len(Append(ns, f)) <= KSize
      BY <1>3, <1>7, <2>2
    <3>2. c \in Bucket
      BY <1>1, <2>1, <2>2, IsBucket
    <3> QED
      BY <2>1, <3>1, <3>2
  <2> QED
    BY <2>3, <2>4 DEF c, Members
<1>8. CASE ~Holds(b, p) /\ Len(ns) = KSize
  <2>1. c = [prefix |-> b.prefix, nodes |-> ns, spare |-> Append(b.spare, p)]
    BY <1>5, <1>8 DEF AddNode
  <2>2. /\ Append(b.spare, p) \in Seq(Peers)
        /\ Range(Append(b.spare, p)) = Range(b.spare) \cup {p}
    BY <1>1, RangeOfAppend, AppendProperties
  <2> HIDE DEF c
  <2>3. PeersOf(c) = PeersOf(b)
    BY <2>1 DEF PeersOf
  <2>4. c \in Bucket /\ c.prefix = b.prefix /\ c.spare = Append(b.spare, p)
        /\ Len(c.nodes) <= KSize
    BY <1>1, <1>3, <1>8, <2>1, <2>2, IsBucket
  <2> QED
    BY <2>2, <2>3, <2>4 DEF c, Members
<1> QED
  BY <1>6, <1>7, <1>8
(* f and m share out the keys and the members of b; mine goes to m.        *)
SplitsInto(b, f, m) ==
    /\ f \in Bucket /\ m \in Bucket
    /\ Len(f.prefix) = Len(b.prefix) + 1 /\ Len(m.prefix) = Len(b.prefix) + 1
    /\ Len(f.nodes) <= KSize /\ Len(m.nodes) <= KSize
    /\ \A id \in Key : CanHold(b, id) <=> CanHold(f, id) \/ CanHold(m, id)
    /\ \A id \in Key : ~(CanHold(f, id) /\ CanHold(m, id))
    /\ CanHold(b, MyId) => CanHold(m, MyId)
    /\ Members(f) = {p \in Members(b) : CanHold(f, p.id)}
    /\ Members(m) = {p \in Members(b) : ~CanHold(f, p.id)}

(* The peers of nodes and replacement nodes.                               *)
PeersAt(ns, sp) == {n.peer : n \in Range(ns)} \cup Range(sp)

(* I and J are the places of the peers in Q.                               *)
PlacesOf(ns, sp, I, J, Q) ==
    /\ \A k \in DOMAIN ns : k \in I <=> ns[k].peer \in Q
    /\ \A k \in DOMAIN sp : k \in J <=> sp[k] \in Q

LEMMA HalfMembers ==
    ASSUME NEW ns \in Seq(Node), NEW sp \in Seq(Peers), NEW I, NEW J, NEW Q,
           PlacesOf(ns, sp, I, J, Q)
    PROVE  PeersAt(Those(ns, I), Those(sp, J)) = PeersAt(ns, sp) \cap Q
<1> DEFINE A == Range(Those(ns, I))
           B == Range(Those(sp, J))
<1>1. A = {ns[k] : k \in DOMAIN ns \cap I} /\ B = {sp[k] : k \in DOMAIN sp \cap J}
  BY ThoseOf
<1> HIDE DEF A, B
<1>2. {n.peer : n \in A} = {n.peer : n \in Range(ns)} \cap Q
  <2>1. {n.peer : n \in A} = {ns[k].peer : k \in DOMAIN ns \cap I}
    BY <1>1
  <2>2. {n.peer : n \in Range(ns)} = {ns[k].peer : k \in DOMAIN ns}
    BY DEF Range
  <2> QED
    BY <2>1, <2>2 DEF PlacesOf
<1>3. B = Range(sp) \cap Q
  BY <1>1 DEF Range, PlacesOf
<1> QED
  BY <1>2, <1>3 DEF A, B, PeersAt

LEMMA SplitBucket ==
    ASSUME NEW b \in Bucket, Len(b.nodes) <= KSize, Len(b.prefix) < KeyBits
    PROVE  \E f, m : Split(b) = <<f, m>> /\ SplitsInto(b, f, m)
<1> DEFINE q == b.prefix
           bit == MyId[Len(q) + 1]
           far == [b EXCEPT !.prefix = Append(@, 1 - bit)]
           I(isFar) == {k \in DOMAIN b.nodes : CanHold(far, b.nodes[k].peer.id) <=> isFar}
           J(isFar) == {k \in DOMAIN b.spare : CanHold(far, b.spare[k].id) <=> isFar}
           f == [prefix |-> Append(q, 1 - bit), nodes |-> Those(b.nodes, I(TRUE)),
                 spare |-> Those(b.spare, J(TRUE))]
           m == [prefix |-> Append(q, bit), nodes |-> Those(b.nodes, I(FALSE)),
                 spare |-> Those(b.spare, J(FALSE))]
<1>1. q \in Prefix /\ b.nodes \in Seq(Node) /\ b.spare \in Seq(Peers)
  BY BucketParts
<1>2. bit \in {0, 1} /\ 1 - bit \in {0, 1} /\ 1 - bit # bit
  <2>1. bit \in {0, 1}
    BY <1>1, Keys, LongerPrefix
  <2> HIDE DEF bit
  <2> QED
    BY <2>1
<1>3. far.prefix = Append(q, 1 - bit)
  BY DEF Bucket
<1>4. Split(b) = <<f, m>>
  BY <1>3 DEF Split
<1> DEFINE Q == {p \in Peers : CanHold(f, p.id)}
           R == {p \in Peers : ~CanHold(f, p.id)}
<1>5. \A id : CanHold(far, id) <=> CanHold(f, id)
  BY <1>3 DEF CanHold
<1>6. /\ \A k \in DOMAIN b.nodes : b.nodes[k].peer \in Peers
      /\ \A k \in DOMAIN b.spare : b.spare[k] \in Peers
  <2>1. \A k \in DOMAIN b.nodes : b.nodes[k] \in Node
    BY <1>1, SeqIsFunction
  <2> QED
    BY <1>1, <2>1, SeqIsFunction DEF Node
<1>7. /\ PlacesOf(b.nodes, b.spare, I(TRUE), J(TRUE), Q)
      /\ PlacesOf(b.nodes, b.spare, I(FALSE), J(FALSE), R)
  <2> HIDE DEF far, f
  <2> QED
    BY <1>5, <1>6 DEF PlacesOf
<1> HIDE DEF I, J
<1>8. /\ f.prefix = Append(q, 1 - bit) /\ m.prefix = Append(q, bit)
      /\ f.nodes = Those(b.nodes, I(TRUE)) /\ m.nodes = Those(b.nodes, I(FALSE))
      /\ f.spare = Those(b.spare, J(TRUE)) /\ m.spare = Those(b.spare, J(FALSE))
  OBVIOUS
<1>9. f \in Bucket /\ m \in Bucket
  <2>1. Append(q, 1 - bit) \in Prefix /\ Append(q, bit) \in Prefix
    BY <1>1, <1>2, Keys, LongerPrefix
  <2>2. /\ Those(b.nodes, I(TRUE)) \in Seq(Node) /\ Those(b.nodes, I(FALSE)) \in Seq(Node)
        /\ Those(b.spare, J(TRUE)) \in Seq(Peers) /\ Those(b.spare, J(FALSE)) \in Seq(Peers)
    BY <1>1, ThoseOf
  <2> DEFINE q1 == Append(q, 1 - bit)
             q2 == Append(q, bit)
             n1 == Those(b.nodes, I(TRUE))
             n2 == Those(b.nodes, I(FALSE))
             s1 == Those(b.spare, J(TRUE))
             s2 == Those(b.spare, J(FALSE))
  <2>3. /\ q1 \in Prefix /\ n1 \in Seq(Node) /\ s1 \in Seq(Peers)
        /\ q2 \in Prefix /\ n2 \in Seq(Node) /\ s2 \in Seq(Peers)
    BY <2>1, <2>2
  <2> HIDE DEF q1, q2, n1, n2, s1, s2
  <2>4. /\ [prefix |-> q1, nodes |-> n1, spare |-> s1] \in Bucket
        /\ [prefix |-> q2, nodes |-> n2, spare |-> s2] \in Bucket
    BY <2>3, IsBucket
  <2> QED
    BY <2>4 DEF q1, q2, n1, n2, s1, s2
<1>10. Len(f.nodes) <= KSize /\ Len(m.nodes) <= KSize
  <2>1. Len(f.nodes) <= Len(b.nodes) /\ Len(m.nodes) <= Len(b.nodes)
    BY <1>1, <1>8, ThoseOf
  <2>2. Len(b.nodes) \in Nat /\ Len(f.nodes) \in Nat /\ Len(m.nodes) \in Nat /\ KSize \in Nat
    <3> HIDE DEF f, m
    <3>1. f.nodes \in Seq(Node) /\ m.nodes \in Seq(Node) /\ b.nodes \in Seq(Node)
      BY <1>9, BucketParts
    <3> QED
      BY <3>1, Keys
  <2> HIDE DEF f, m
  <2> QED
    BY <2>1, <2>2
<1> HIDE DEF f, m
<1>11. /\ Len(f.prefix) = Len(q) + 1 /\ Len(m.prefix) = Len(q) + 1
       /\ \A id \in Key : CanHold(f, id) <=> IsPrefix(q, id) /\ id[Len(q) + 1] = 1 - bit
       /\ \A id \in Key : CanHold(m, id) <=> IsPrefix(q, id) /\ id[Len(q) + 1] = bit
       /\ \A id \in Key : id[Len(q) + 1] \in {0, 1}
  <2> HIDE DEF q, bit
  <2>1. /\ Len(f.prefix) = Len(q) + 1
        /\ \A id \in Key : CanHold(f, id) <=> IsPrefix(q, id) /\ id[Len(q) + 1] = 1 - bit
    BY <1>1, <1>2, <1>8, Keys, LongerPrefix DEF CanHold, q
  <2>2. /\ Len(m.prefix) = Len(q) + 1
        /\ \A id \in Key : CanHold(m, id) <=> IsPrefix(q, id) /\ id[Len(q) + 1] = bit
        /\ \A id \in Key : id[Len(q) + 1] \in {0, 1}
    BY <1>1, <1>2, <1>8, Keys, LongerPrefix DEF CanHold, q
  <2> QED
    BY <2>1, <2>2
<1>12. \A id \in Key : CanHold(b, id) <=> IsPrefix(q, id)
  BY DEF CanHold
<1>13. /\ \A id \in Key : CanHold(b, id) <=> CanHold(f, id) \/ CanHold(m, id)
       /\ \A id \in Key : ~(CanHold(f, id) /\ CanHold(m, id))
       /\ CanHold(b, MyId) => CanHold(m, MyId)
  <2>1. ASSUME NEW id \in Key
        PROVE  id[Len(q) + 1] = bit <=> id[Len(q) + 1] # 1 - bit
    <3> DEFINE x == id[Len(q) + 1]
    <3>1. x \in {0, 1}
      BY <1>11
    <3> HIDE DEF x, bit
    <3> QED
      BY <1>2, <3>1 DEF x
  <2>2. MyId \in Key /\ MyId[Len(q) + 1] = bit
    BY Keys
  <2> HIDE DEF bit, q
  <2> QED
    BY <1>11, <1>12, <2>1, <2>2
<1>14. Members(f) = Members(b) \cap Q /\ Members(m) = Members(b) \cap R
  <2>1. PeersAt(f.nodes, f.spare) = PeersAt(b.nodes, b.spare) \cap Q
    <3> HIDE DEF Q, q, bit
    <3>1. PlacesOf(b.nodes, b.spare, I(TRUE), J(TRUE), Q)
      BY <1>7
    <3>2. PeersAt(Those(b.nodes, I(TRUE)), Those(b.spare, J(TRUE))) =
              PeersAt(b.nodes, b.spare) \cap Q
      <4> DEFINE i == I(TRUE)
                 j == J(TRUE)
      <4>1. PlacesOf(b.nodes, b.spare, i, j, Q)
        BY <3>1
      <4> HIDE DEF i, j
      <4>2. PeersAt(Those(b.nodes, i), Those(b.spare, j)) = PeersAt(b.nodes, b.spare) \cap Q
        BY <1>1, <4>1, HalfMembers
      <4> QED
        BY <4>2 DEF i, j
    <3> QED
      BY <1>8, <3>2
  <2>2. PeersAt(m.nodes, m.spare) = PeersAt(b.nodes, b.spare) \cap R
    <3> HIDE DEF R, q, bit
    <3>1. PlacesOf(b.nodes, b.spare, I(FALSE), J(FALSE), R)
      BY <1>7
    <3>2. PeersAt(Those(b.nodes, I(FALSE)), Those(b.spare, J(FALSE))) =
              PeersAt(b.nodes, b.spare) \cap R
      <4> DEFINE i == I(FALSE)
                 j == J(FALSE)
      <4>1. PlacesOf(b.nodes, b.spare, i, j, R)
        BY <3>1
      <4> HIDE DEF i, j
      <4>2. PeersAt(Those(b.nodes, i), Those(b.spare, j)) = PeersAt(b.nodes, b.spare) \cap R
        BY <1>1, <4>1, HalfMembers
      <4> QED
        BY <4>2 DEF i, j
    <3> QED
      BY <1>8, <3>2
  <2> QED
    BY <2>1, <2>2 DEF Members, PeersOf, PeersAt
<1>15. Members(b) \subseteq Peers
  BY BucketParts
<1>16. SplitsInto(b, f, m)
  BY <1>9, <1>10, <1>11, <1>13, <1>14, <1>15 DEF SplitsInto
<1> QED
  BY <1>4, <1>16
-----------------------------------------------------------------------------
(* What is known of a table's parts.                                       *)
LEMMA TableParts ==
    ASSUME NEW t, Typed(t)
    PROVE  /\ t \in Seq(Bucket) /\ Len(t) \in Nat \ {0} /\ DOMAIN t = 1..Len(t)
           /\ \A i \in DOMAIN t :
                 /\ t[i] \in Bucket /\ Len(t[i].nodes) <= KSize
                 /\ Len(t[i].prefix) \in Nat /\ Len(t[i].prefix) < Len(t)
           /\ Len(t) <= KeyBits /\ KeyBits \in Nat
<1>1. t \in Seq(Bucket) /\ t # <<>> /\ Len(t) <= MaxBuckets
  BY DEF Typed
<1>2. Len(t) \in Nat \ {0} /\ DOMAIN t = 1..Len(t) /\ \A i \in DOMAIN t : t[i] \in Bucket
  BY <1>1
<1>3. \A i \in DOMAIN t : Len(t[i].prefix) \in Nat
  BY <1>2, BucketParts DEF Prefix
<1> QED
  BY <1>1, <1>2, <1>3, Keys DEF Typed

LEMMA KnownMeans ==
    ASSUME NEW t
    PROVE  \A p : p \in Known(t) <=> \E i \in DOMAIN t : p \in Members(t[i])
BY DEF Known, Range, Members

(* getBucketIndexFor finds the one bucket that can hold the key.           *)
LEMMA BucketForHolds ==
    ASSUME NEW t, Typed(t), NEW id, NEW i, Holder(t, id, i)
    PROVE  BucketFor(t, id) = i
<1> DEFINE hits == {j \in DOMAIN t : CanHold(t[j], id)}
<1>1. hits = {i} /\ i \in Nat
  BY TableParts DEF Holder
<1>2. Min({i}) = i
  BY <1>1, MinIsLeast
<1> QED
  BY <1>1, <1>2 DEF BucketFor

LEMMA BucketForKey ==
    ASSUME NEW t, TableOK(t), NEW id \in Key
    PROVE  BucketFor(t, id) \in DOMAIN t /\ CanHold(t[BucketFor(t, id)], id)
<1>1. PICK i \in DOMAIN t : Holder(t, id, i)
  BY DEF TableOK, Partition
<1>2. BucketFor(t, id) = i
  BY <1>1, BucketForHolds DEF TableOK
<1> QED
  BY <1>1, <1>2 DEF Holder

(* What every change of one bucket keeps.                                  *)
Replaces(c, b) ==
    /\ c \in Bucket /\ c.prefix = b.prefix /\ Len(c.nodes) <= KSize
    /\ \A p \in Members(c) : CanHold(b, p.id)

(* The table u that t becomes when bucket b becomes c is in order, and it  *)
(* has lost only what c lost.                                              *)
Becomes(t, u, b, c) ==
    TableOK(u) /\ \A p \in Known(t) \ Known(u) : p \in Members(b) \ Members(c)

LEMMA SetBucket ==
    ASSUME NEW t, TableOK(t), NEW i \in DOMAIN t, NEW c, Replaces(c, t[i])
    PROVE  Becomes(t, [t EXCEPT ![i] = c], t[i], c)
<1> DEFINE u == [t EXCEPT ![i] = c]
<1>1. Typed(t) /\ Partition(t) /\ InPlace(t)
  BY DEF TableOK
<1>2. /\ t \in Seq(Bucket) /\ DOMAIN t = 1..Len(t) /\ Len(t) \in Nat \ {0}
      /\ Len(t) <= MaxBuckets
  BY <1>1, TableParts DEF Typed
<1>3. /\ u \in Seq(Bucket) /\ Len(u) = Len(t) /\ DOMAIN u = DOMAIN t
      /\ u[i] = c /\ \A j \in DOMAIN t : j # i => u[j] = t[j]
  BY <1>2 DEF Replaces
<1> HIDE DEF u
<1>4. \A j \in DOMAIN t : u[j].prefix = t[j].prefix
  BY <1>3 DEF Replaces
<1>5. \A j \in DOMAIN t : \A id : CanHold(u[j], id) <=> CanHold(t[j], id)
  BY <1>4 DEF CanHold
<1>6. Typed(u)
  <2>1. u # <<>> /\ Len(u) <= MaxBuckets
    BY <1>2, <1>3
  <2>2. \A j \in DOMAIN u : Len(u[j].nodes) <= KSize
    BY <1>1, <1>3 DEF Typed, Replaces
  <2>3. \A j \in DOMAIN u : Len(u[j].prefix) < Len(u)
    BY <1>1, <1>3, <1>4 DEF Typed
  <2> QED
    BY <1>3, <2>1, <2>2, <2>3 DEF Typed
<1>7. Partition(u)
  <2>1. \A id, j : Holder(u, id, j) <=> Holder(t, id, j)
    BY <1>3, <1>5 DEF Holder
  <2>2. CanHold(u[Len(u)], MyId)
    BY <1>1, <1>2, <1>3, <1>5 DEF Partition
  <2> QED
    BY <1>1, <1>3, <2>1, <2>2 DEF Partition
<1>8. InPlace(u)
  <2> SUFFICES ASSUME NEW j \in DOMAIN u, NEW p \in Members(u[j])
               PROVE  CanHold(t[j], p.id)
    BY <1>3, <1>5 DEF InPlace
  <2> QED
    BY <1>1, <1>3 DEF InPlace, Replaces
<1>9. \A p \in Known(t) \ Known(u) : p \in Members(t[i]) \ Members(c)
  BY <1>3, KnownMeans
<1> QED
  BY <1>6, <1>7, <1>8, <1>9 DEF u, TableOK, Becomes

(* The two halves of a bucket in its place.                                *)
LEMMA SplitTable ==
    ASSUME NEW t, TableOK(t), Len(t) < MaxBuckets, NEW i \in DOMAIN t,
           NEW c, Replaces(c, t[i]), NEW f, NEW m, SplitsInto(c, f, m),
           NEW u, u = SubSeq(t, 1, i - 1) \o <<f, m>> \o SubSeq(t, i + 1, Len(t))
    PROVE  Becomes(t, u, t[i], c)
<1> DEFINE N == Len(t)
           old(k) == IF k <= i THEN k ELSE k - 1
<1>1. Typed(t) /\ Partition(t) /\ InPlace(t)
  BY DEF TableOK
<1>2. t \in Seq(Bucket) /\ DOMAIN t = 1..N /\ N \in Nat \ {0} /\ N < MaxBuckets /\ i \in 1..N
      /\ MaxBuckets \in Nat
  BY <1>1, TableParts, Keys
<1>3. /\ c \in Bucket /\ c.prefix = t[i].prefix
      /\ \A p \in Members(c) : CanHold(t[i], p.id)
      /\ \A id : CanHold(c, id) <=> CanHold(t[i], id)
  BY DEF Replaces, CanHold
<1>4. /\ u \in Seq(Bucket) /\ Len(u) = N + 1 /\ DOMAIN u = 1..(N + 1)
      /\ \A k \in 1..(N + 1) :
            u[k] = IF k < i THEN t[k] ELSE IF k = i THEN f
                   ELSE IF k = i + 1 THEN m ELSE t[k - 1]
  <2>1. f \in Bucket /\ m \in Bucket
    BY DEF SplitsInto
  <2>2. t \in Seq(Bucket) /\ u = TwoAt(t, i, f, m)
    BY <1>2 DEF TwoAt
  <2>3. /\ u \in Seq(Bucket) /\ Len(u) = Len(t) + 1
        /\ \A k \in 1..(Len(t) + 1) :
              u[k] = IF k < i THEN t[k] ELSE IF k = i THEN f
                     ELSE IF k = i + 1 THEN m ELSE t[k - 1]
    <3>1. IsTwoAt(Bucket, t, i, f, m, u)
      BY ONLY <2>1, <2>2, i \in DOMAIN t, TwoForOne
    <3> QED
      BY <3>1 DEF IsTwoAt
  <2>4. DOMAIN u = 1..(N + 1)
    BY <2>3
  <2> QED
    BY <2>3, <2>4
(* Where a bucket of u comes from.                                         *)
<1>5. /\ u[i] = f /\ u[i + 1] = m /\ i \in DOMAIN u /\ i + 1 \in DOMAIN u
      /\ \A k \in DOMAIN u : old(k) \in DOMAIN t
      /\ \A k \in DOMAIN u : k # i /\ k # i + 1 => u[k] = t[old(k)] /\ old(k) # i
      /\ \A j \in DOMAIN t : j # i =>
            \E k \in DOMAIN u : k # i /\ k # i + 1 /\ old(k) = j /\ u[k] = t[j]
      /\ \A k, l \in DOMAIN u :
            k # i /\ k # i + 1 /\ l # i /\ l # i + 1 /\ old(k) = old(l) => k = l
  <2>1. u[i] = f /\ u[i + 1] = m /\ i \in DOMAIN u /\ i + 1 \in DOMAIN u
    <3>1. i \in 1..(N + 1) /\ i + 1 \in 1..(N + 1) /\ ~(i < i) /\ ~(i + 1 < i) /\ i + 1 # i
      BY <1>2
    <3> QED
      BY <1>4, <3>1
  <2>2. ASSUME NEW k \in DOMAIN u
        PROVE  /\ old(k) \in DOMAIN t
               /\ k # i /\ k # i + 1 => u[k] = t[old(k)] /\ old(k) # i
    <3>1. k \in 1..(N + 1) /\ k \in Int /\ i \in Int /\ N \in Int
      BY <1>2, <1>4
    <3>2. CASE k < i
      <4>1. k <= i /\ k \in 1..N /\ k # i
        BY <1>2, <3>1, <3>2
      <4> QED
        BY <1>2, <1>4, <3>1, <3>2, <4>1
    <3>3. CASE k = i
      <4>1. k <= i
        BY <3>1, <3>3
      <4> QED
        BY <1>2, <3>3, <4>1
    <3>4. CASE k = i + 1
      <4>1. ~(k <= i) /\ k - 1 = i
        BY <3>1, <3>4
      <4> QED
        BY <1>2, <3>4, <4>1
    <3>5. CASE k > i + 1
      <4>1. ~(k <= i) /\ ~(k < i) /\ k # i /\ k # i + 1 /\ k - 1 \in 1..N /\ k - 1 # i
        BY <1>2, <3>1, <3>5
      <4> QED
        BY <1>2, <1>4, <3>1, <4>1
    <3>6. k < i \/ k = i \/ k = i + 1 \/ k > i + 1
      BY <3>1
    <3> QED
      BY <3>2, <3>3, <3>4, <3>5, <3>6
  <2>3. ASSUME NEW j \in DOMAIN t, j # i
        PROVE  \E k \in DOMAIN u : k # i /\ k # i + 1 /\ old(k) = j /\ u[k] = t[j]
    <3>1. j \in 1..N /\ j \in Int /\ i \in Int /\ N \in Int
      BY <1>2
    <3>2. CASE j < i
      <4>1. j \in DOMAIN u /\ j # i + 1 /\ j <= i
        BY <1>2, <1>4, <3>1, <3>2
      <4>2. u[j] = t[j]
        BY <1>4, <3>2, <4>1
      <4> QED
        BY <2>3, <4>1, <4>2
    <3>3. CASE j > i
      <4>1. /\ j + 1 \in 1..(N + 1) /\ ~(j + 1 < i) /\ j + 1 # i /\ j + 1 # i + 1
            /\ ~(j + 1 <= i) /\ (j + 1) - 1 = j
        BY <1>2, <3>1, <3>3
      <4>2. u[j + 1] = t[j] /\ old(j + 1) = j
        BY <1>4, <4>1
      <4> QED
        BY <1>4, <4>1, <4>2
    <3>4. j < i \/ j > i
      BY <2>3, <3>1
    <3> QED
      BY <3>2, <3>3, <3>4
  <2>4. ASSUME NEW k \in DOMAIN u, NEW l \in DOMAIN u,
               k # i /\ k # i + 1 /\ l # i /\ l # i + 1 /\ old(k) = old(l)
        PROVE  k = l
    <3>1. k \in Int /\ l \in Int /\ i \in Int
      BY <1>2, <1>4
    <3> QED
      BY <2>4, <3>1
  <2> HIDE DEF old
  <2> QED
    BY <2>1, <2>2, <2>3, <2>4
<1> HIDE DEF N, old
<1>6. Typed(u)
  <2>1. u # <<>> /\ Len(u) <= MaxBuckets
    BY <1>2, <1>4
  <2>2. ASSUME NEW k \in DOMAIN u
        PROVE  Len(u[k].nodes) <= KSize /\ Len(u[k].prefix) < N + 1
    <3>1. \A j \in DOMAIN t : Len(t[j].prefix) \in Nat /\ Len(t[j].prefix) < N
      BY <1>1, TableParts DEF N
    <3>2. CASE k = i \/ k = i + 1
      <4>1. u[k] = f \/ u[k] = m
        BY <1>5, <3>2
      <4>2. Len(u[k].nodes) <= KSize /\ Len(u[k].prefix) = Len(t[i].prefix) + 1
        BY <1>3, <4>1 DEF SplitsInto
      <4>3. Len(t[i].prefix) \in Nat /\ Len(t[i].prefix) < N
        BY <3>1
      <4> DEFINE x == Len(u[k].prefix)
                 y == Len(t[i].prefix)
      <4>4. N \in Nat /\ y \in Nat /\ y < N /\ x = y + 1
        BY <1>2, <4>2, <4>3
      <4> HIDE DEF x, y
      <4>5. x < N + 1
        BY <4>4
      <4> QED
        BY <4>2, <4>5 DEF x
    <3>3. CASE k # i /\ k # i + 1
      <4>1. u[k] = t[old(k)] /\ old(k) \in DOMAIN t
        BY <1>5, <3>3
      <4>2. Len(u[k].nodes) <= KSize
        BY <1>1, <4>1 DEF Typed
      <4> DEFINE x == Len(u[k].prefix)
      <4>3. N \in Nat /\ x \in Nat /\ x < N
        BY <1>2, <3>1, <4>1
      <4> HIDE DEF x
      <4>4. x < N + 1
        BY <4>3
      <4> QED
        BY <4>2, <4>4 DEF x
    <3> QED
      BY <3>2, <3>3
  <2> QED
    BY <1>4, <2>1, <2>2 DEF Typed
<1>7. /\ \A id \in Key : CanHold(t[i], id) <=> CanHold(f, id) \/ CanHold(m, id)
      /\ \A id \in Key : ~(CanHold(f, id) /\ CanHold(m, id))
      /\ CanHold(t[i], MyId) => CanHold(m, MyId)
  BY <1>3 DEF SplitsInto
<1>8. ASSUME NEW id \in Key
      PROVE  \E k \in DOMAIN u : Holder(u, id, k)
  <2>1. PICK j \in DOMAIN t : Holder(t, id, j)
    BY <1>1 DEF Partition
  <2>2. \A l \in DOMAIN u : CanHold(u[l], id) =>
            IF l = i \/ l = i + 1 THEN j = i ELSE old(l) = j
    <3> SUFFICES ASSUME NEW l \in DOMAIN u, CanHold(u[l], id)
                 PROVE  IF l = i \/ l = i + 1 THEN j = i ELSE old(l) = j
      OBVIOUS
    <3>1. CASE l = i \/ l = i + 1
      <4>1. CanHold(t[i], id)
        BY <1>5, <1>7, <3>1
      <4> QED
        BY <2>1, <3>1, <4>1 DEF Holder
    <3>2. CASE ~(l = i \/ l = i + 1)
      <4>1. CanHold(t[old(l)], id) /\ old(l) \in DOMAIN t
        BY <1>5, <3>2
      <4> QED
        BY <2>1, <3>2, <4>1 DEF Holder
    <3> QED
      BY <3>1, <3>2
  <2>3. CASE j = i
    <3>1. \A l \in DOMAIN u : CanHold(u[l], id) => l = i \/ l = i + 1
      BY <1>5, <2>2, <2>3
    <3>2. CanHold(t[i], id)
      BY <2>1, <2>3 DEF Holder
    <3>3. CASE CanHold(f, id)
      <4>1. ~CanHold(u[i + 1], id) /\ CanHold(u[i], id)
        BY <1>5, <1>7, <3>3
      <4>2. Holder(u, id, i)
        BY <1>5, <3>1, <4>1 DEF Holder
      <4> QED
        BY <1>5, <4>2
    <3>4. CASE ~CanHold(f, id)
      <4>1. CanHold(u[i + 1], id) /\ ~CanHold(u[i], id)
        BY <1>5, <1>7, <3>2, <3>4
      <4>2. Holder(u, id, i + 1)
        BY <1>5, <3>1, <4>1 DEF Holder
      <4> QED
        BY <1>5, <4>2
    <3> QED
      BY <3>3, <3>4
  <2>4. CASE j # i
    <3>1. PICK k \in DOMAIN u : k # i /\ k # i + 1 /\ old(k) = j /\ u[k] = t[j]
      BY <1>5, <2>4
    <3>2. ASSUME NEW l \in DOMAIN u, CanHold(u[l], id)
          PROVE  l = k
      BY <1>5, <2>2, <2>4, <3>1, <3>2
    <3>3. CanHold(u[k], id)
      BY <2>1, <3>1 DEF Holder
    <3>4. Holder(u, id, k)
      BY <3>2, <3>3 DEF Holder
    <3> QED
      BY <3>4
  <2> QED
    BY <2>3, <2>4
<1>9. CanHold(u[Len(u)], MyId)
  <2>1. CanHold(t[N], MyId)
    BY <1>1 DEF Partition, N
  <2>2. CASE i = N
    <3>1. u[N + 1] = m
      BY <1>5, <2>2
    <3> QED
      BY <1>4, <1>7, <2>1, <2>2, <3>1
  <2>3. CASE i # N
    <3>1. N + 1 \in 1..(N + 1) /\ ~(N + 1 < i) /\ N + 1 # i /\ N + 1 # i + 1 /\ (N + 1) - 1 = N
      BY <1>2, <2>3
    <3>2. u[N + 1] = t[N]
      BY <1>4, <3>1
    <3> QED
      BY <1>4, <2>1, <3>2
  <2> QED
    BY <2>2, <2>3
<1>10. Members(c) \subseteq Peers
  BY <1>3, BucketParts
<1>11. InPlace(u)
  <2> SUFFICES ASSUME NEW k \in DOMAIN u, NEW p \in Members(u[k])
               PROVE  CanHold(u[k], p.id)
    BY DEF InPlace
  <2>1. CASE k = i
    BY <1>5, <2>1 DEF SplitsInto
  <2>2. CASE k = i + 1
    <3>1. p \in Members(c) /\ ~CanHold(f, p.id) /\ u[k] = m
      BY <1>5, <2>2 DEF SplitsInto
    <3>2. p.id \in Key /\ CanHold(t[i], p.id)
      BY <1>3, <1>10, <3>1, Keys
    <3> QED
      BY <1>7, <3>1, <3>2
  <2>3. CASE k # i /\ k # i + 1
    <3>1. u[k] = t[old(k)] /\ old(k) \in DOMAIN t
      BY <1>5, <2>3
    <3> QED
      BY <1>1, <3>1 DEF InPlace
  <2> QED
    BY <2>1, <2>2, <2>3
<1>12. ASSUME NEW p \in Known(t) \ Known(u)
       PROVE  p \in Members(t[i]) \ Members(c)
  <2>1. PICK j \in DOMAIN t : p \in Members(t[j])
    BY KnownMeans
  <2>2. \A k \in DOMAIN u : p \notin Members(u[k])
    BY KnownMeans
  <2>3. j = i
    BY <1>5, <2>1, <2>2
  <2>4. p \notin Members(f) /\ p \notin Members(m)
    BY <1>5, <2>2
  <2> QED
    BY <2>1, <2>3, <2>4 DEF SplitsInto
<1>13. Partition(u)
  BY <1>8, <1>9 DEF Partition
<1> QED
  BY <1>6, <1>11, <1>12, <1>13 DEF TableOK, Becomes

-----------------------------------------------------------------------------
(* addPeer loses no peer and keeps the table in order.                     *)
LEMMA PeerAdded ==
    ASSUME NEW t, TableOK(t), NEW p \in Peers
    PROVE  TableOK(WithPeer(t, p)) /\ Known(t) \subseteq Known(WithPeer(t, p))
<1> DEFINE i == BucketFor(t, p.id)
           b == t[i]
           c == AddNode(b, p)
<1>1. i \in DOMAIN t /\ CanHold(b, p.id)
  BY BucketForKey, Keys
<1>2. /\ b \in Bucket /\ Len(b.nodes) <= KSize
      /\ Len(b.prefix) \in Nat /\ Len(b.prefix) < Len(t)
      /\ Len(t) \in Nat /\ Len(t) <= KeyBits /\ KeyBits \in Nat
  BY <1>1, TableParts DEF TableOK
<1> HIDE DEF i
<1>3. /\ c \in Bucket /\ c.prefix = b.prefix /\ Len(c.nodes) <= KSize
      /\ Members(c) = Members(b) \cup {p}
  <2> HIDE DEF b
  <2> QED
    BY <1>2, AddedNode
<1>4. Replaces(c, b)
  <2>1. \A q \in Members(b) : CanHold(b, q.id)
    BY <1>1 DEF TableOK, InPlace
  <2> HIDE DEF b, c
  <2> QED
    BY <1>1, <1>3, <2>1 DEF Replaces
<1>5. \A q : q \notin Members(b) \ Members(c)
  BY <1>3
<1> DEFINE u == WithPeer(t, p)
<1>6. CASE Fits(b, p) \/ ~CanSplit(t, i)
  <2>1. u = [t EXCEPT ![i] = c]
    BY <1>6 DEF WithPeer, i
  <2>2. Becomes(t, [t EXCEPT ![i] = c], b, c)
    <3> HIDE DEF c
    <3> QED
      BY <1>1, <1>4, SetBucket
  <2> QED
    BY <1>5, <2>1, <2>2 DEF Becomes
<1>7. CASE ~Fits(b, p) /\ CanSplit(t, i)
  <2>1. u = SubSeq(t, 1, i - 1) \o Split(c) \o SubSeq(t, i + 1, Len(t))
    BY <1>7 DEF WithPeer, i
  <2>2. Len(t) < MaxBuckets
    BY <1>7 DEF CanSplit
  <2>3. Len(c.prefix) < KeyBits
    <3> DEFINE x == Len(b.prefix)
               y == Len(t)
    <3>1. x \in Nat /\ x < y /\ y \in Nat /\ y <= KeyBits /\ KeyBits \in Nat
      BY <1>2
    <3> HIDE DEF x, y
    <3>2. x < KeyBits
      BY <3>1
    <3> QED
      BY <1>3, <3>2 DEF x
  <2> HIDE DEF c
  <2>4. PICK f, m : Split(c) = <<f, m>> /\ SplitsInto(c, f, m)
    BY <1>3, <2>3, SplitBucket
  <2>5. u = SubSeq(t, 1, i - 1) \o <<f, m>> \o SubSeq(t, i + 1, Len(t))
    BY <2>1, <2>4
  <2> HIDE DEF u
  <2>6. Becomes(t, u, b, c)
    BY <1>1, <1>4, <2>2, <2>4, <2>5, SplitTable
  <2> QED
    BY <1>5, <2>6 DEF u, Becomes
<1> QED
  BY <1>6, <1>7

(* A bucket that has at most lost peers.                                   *)
Kept(c, b) ==
    /\ c \in Bucket /\ c.prefix = b.prefix /\ Len(c.nodes) <= KSize
    /\ Members(c) \subseteq Members(b)

LEMMA KeptBucket ==
    ASSUME NEW t, TableOK(t), NEW i \in DOMAIN t, NEW c, Kept(c, t[i])
    PROVE  Becomes(t, [t EXCEPT ![i] = c], t[i], c)
<1>1. Replaces(c, t[i])
  BY DEF Kept, Replaces, TableOK, InPlace
<1> QED
  BY <1>1, SetBucket

(* removeDeadNodes takes only peers whose channel is down.                 *)
LEMMA DeadRemoved ==
    ASSUME NEW b \in Bucket, Len(b.nodes) <= KSize
    PROVE  /\ Kept(WithoutDead(b), b)
           /\ \A p \in Members(b) \ Members(WithoutDead(b)) : p \notin ready
<1> DEFINE c == WithoutDead(b)
           ns == b.nodes
           K == {k \in DOMAIN ns : ns[k].peer \in ready}
           rest == Those(ns, K)
<1>1. /\ b.prefix \in Prefix /\ ns \in Seq(Node) /\ b.spare \in Seq(Peers)
      /\ b = [prefix |-> b.prefix, nodes |-> ns, spare |-> b.spare]
  BY BucketParts DEF Bucket
<1>2. c = [prefix |-> b.prefix, nodes |-> rest, spare |-> b.spare]
  BY <1>1 DEF WithoutDead
<1>3. /\ rest \in Seq(Node) /\ Len(rest) <= Len(ns)
      /\ Range(rest) = {ns[k] : k \in DOMAIN ns \cap K}
  <2> HIDE DEF ns, K
  <2> QED
    BY <1>1, ThoseOf
<1> HIDE DEF c, rest
<1>4. Range(rest) \subseteq Range(ns)
  BY <1>3 DEF Range
<1>5. \A n \in Range(ns) : n.peer \in ready => n \in Range(rest)
  BY <1>3 DEF Range
<1>6. c \in Bucket
  BY <1>1, <1>2, <1>3, IsBucket
<1>7. c.nodes = rest /\ c.spare = b.spare /\ c.prefix = b.prefix
  BY <1>2
<1>8. Len(rest) <= KSize
  <2>1. Len(rest) \in Nat /\ Len(ns) \in Nat /\ Len(ns) <= KSize /\ KSize \in Nat
    BY <1>1, <1>3, Keys
  <2> HIDE DEF ns
  <2> QED
    BY <1>3, <2>1
<1>9. Members(c) \subseteq Members(b)
  BY <1>4, <1>7 DEF Members, PeersOf
<1>10. \A p \in Members(b) \ Members(c) : p \notin ready
  BY <1>5, <1>7 DEF Members, PeersOf
<1> QED
  BY <1>6, <1>7, <1>8, <1>9, <1>10 DEF Kept, c

(* removeNode takes only the node's own peer.                              *)
LEMMA NodeEvicted ==
    ASSUME NEW b \in Bucket, Len(b.nodes) <= KSize, NEW j \in DOMAIN b.nodes
    PROVE  /\ Kept(Evict(b, j), b)
           /\ \A p \in Members(b) \ Members(Evict(b, j)) : p = b.nodes[j].peer
<1> DEFINE c == Evict(b, j)
           ns == b.nodes
           sp == b.spare
           rest == RemoveAt(ns, j)
<1>1. /\ b.prefix \in Prefix /\ ns \in Seq(Node) /\ sp \in Seq(Peers)
      /\ b = [prefix |-> b.prefix, nodes |-> ns, spare |-> sp]
  BY BucketParts DEF Bucket
<1>2. /\ rest \in Seq(Node) /\ Len(rest) = Len(ns) - 1
      /\ Range(rest) \subseteq Range(ns)
      /\ \A k \in DOMAIN ns : k # j => ns[k] \in Range(rest)
  <2> HIDE DEF ns
  <2> QED
    BY <1>1, RemovedAt, RemovedRange DEF ns
<1>3. Len(rest) \in Nat /\ Len(rest) + 1 <= KSize /\ KSize \in Nat
  <2>1. Len(ns) \in Nat /\ Len(ns) <= KSize /\ KSize \in Nat /\ Len(rest) \in Nat
    BY <1>1, <1>2, Keys
  <2> HIDE DEF ns, rest
  <2> QED
    BY <1>2, <2>1
<1>4. \A n \in Range(ns) : n \in Range(rest) \/ n = ns[j]
  BY <1>2 DEF Range
<1> HIDE DEF rest
<1>5. CASE sp = <<>>
  <2>1. c = [prefix |-> b.prefix, nodes |-> rest, spare |-> sp]
    BY <1>1, <1>5 DEF Evict, rest
  <2> HIDE DEF c
  <2>2. c \in Bucket
    BY <1>1, <1>2, <2>1, IsBucket
  <2>3. c.nodes = rest /\ c.spare = sp /\ c.prefix = b.prefix
    BY <2>1
  <2>4. Members(c) \subseteq Members(b)
    BY <1>2, <2>3 DEF Members, PeersOf
  <2>5. \A p \in Members(b) \ Members(c) : p = ns[j].peer
    BY <1>4, <2>3 DEF Members, PeersOf
  <2>6. Len(c.nodes) <= KSize
    BY <1>3, <2>3
  <2> QED
    BY <2>2, <2>3, <2>4, <2>5, <2>6 DEF Kept, c
<1>6. CASE sp # <<>>
  <2> DEFINE q == Last(sp)
             more == Append(rest, Fresh(q))
             less == Front(sp)
  <2>1. c = [prefix |-> b.prefix, nodes |-> more, spare |-> less]
    BY <1>1, <1>6 DEF Evict, rest
  <2>2. q \in Peers /\ less \in Seq(Peers) /\ Range(sp) = Range(less) \cup {q}
    <3> HIDE DEF sp
    <3> QED
      BY <1>1, <1>6, FrontAndLast
  <2> HIDE DEF q, less, c
  <2>3. Fresh(q) \in Node /\ Fresh(q).peer = q
    BY <2>2, Freshly
  <2> DEFINE x == Fresh(q)
  <2> HIDE DEF x
  <2>4. /\ more \in Seq(Node) /\ Len(more) = Len(rest) + 1
        /\ Range(more) = Range(rest) \cup {x}
    <3>1. x \in Node
      BY <2>3 DEF x
    <3>2. /\ Append(rest, x) \in Seq(Node) /\ Len(Append(rest, x)) = Len(rest) + 1
          /\ Range(Append(rest, x)) = Range(rest) \cup {x}
      BY <1>2, <3>1, RangeOfAppend, AppendProperties
    <3> QED
      BY <3>2 DEF x
  <2> HIDE DEF more
  <2>5. c \in Bucket
    BY <1>1, <2>1, <2>2, <2>4, IsBucket
  <2>6. c.nodes = more /\ c.spare = less /\ c.prefix = b.prefix
    BY <2>1
  <2>7. PeersOf(c) = {n.peer : n \in Range(rest)} \cup {q}
    BY <2>3, <2>4, <2>6 DEF PeersOf, x
  <2>8. Members(c) \subseteq Members(b)
    BY <1>2, <2>2, <2>6, <2>7 DEF Members, PeersOf
  <2>9. \A p \in Members(b) \ Members(c) : p = ns[j].peer
    BY <1>4, <2>2, <2>6, <2>7 DEF Members, PeersOf
  <2>10. Len(c.nodes) <= KSize
    BY <1>3, <2>4, <2>6
  <2> QED
    BY <2>5, <2>6, <2>8, <2>9, <2>10 DEF Kept, c
<1> QED
  BY <1>5, <1>6

(* One more failure for a node that is not stale.                          *)
LEMMA FailureCounted ==
    ASSUME NEW b \in Bucket, Len(b.nodes) <= KSize, NEW j \in DOMAIN b.nodes,
           b.nodes[j].fails # Stale
    PROVE  LET c == [b EXCEPT !.nodes[j].fails = @ + 1]
           IN  Kept(c, b) /\ Members(c) = Members(b)
<1> DEFINE ns == b.nodes
           n == [ns[j] EXCEPT !.fails = @ + 1]
           more == [ns EXCEPT ![j] = n]
           c == [b EXCEPT !.nodes[j].fails = @ + 1]
<1>1. /\ b.prefix \in Prefix /\ ns \in Seq(Node) /\ b.spare \in Seq(Peers)
      /\ b = [prefix |-> b.prefix, nodes |-> ns, spare |-> b.spare]
  BY BucketParts DEF Bucket
<1>2. c = [prefix |-> b.prefix, nodes |-> more, spare |-> b.spare]
  <2>1. c = [b EXCEPT !.nodes = more]
    OBVIOUS
  <2> HIDE DEF c, more, ns
  <2> QED
    BY <1>1, <2>1
<1>3. ns[j] \in Node /\ ns[j].fails # Stale
  BY <1>1
<1>4. n \in Node /\ n.peer = ns[j].peer
  BY <1>3, Keys DEF Node
<1> HIDE DEF ns, n, c
<1>5. /\ more \in Seq(Node) /\ Len(more) = Len(ns) /\ DOMAIN more = DOMAIN ns
      /\ \A k \in DOMAIN ns : more[k].peer = ns[k].peer
  <2>1. j \in DOMAIN ns
    BY DEF ns
  <2> QED
    BY <1>1, <1>4, <2>1
<1> HIDE DEF more
<1>6. c \in Bucket
  BY <1>1, <1>2, <1>5, IsBucket
<1>7. c.nodes = more /\ c.spare = b.spare /\ c.prefix = b.prefix
  BY <1>2
<1>8. PeersOf(c) = {more[k].peer : k \in DOMAIN more}
  BY <1>7 DEF PeersOf, Range
<1>9. PeersOf(b) = {ns[k].peer : k \in DOMAIN ns}
  BY DEF PeersOf, Range, ns
<1>10. Members(c) = Members(b)
  BY <1>5, <1>7, <1>8, <1>9 DEF Members
<1>11. Len(c.nodes) <= KSize
  BY <1>5, <1>7 DEF ns
<1> QED
  BY <1>6, <1>7, <1>10, <1>11 DEF c, Kept

(* peerTimedOut takes only peers with that key.                            *)
LEMMA PeerTimedOut ==
    ASSUME NEW t, TableOK(t), NEW p
    PROVE  /\ TableOK(TimedOut(t, p))
           /\ \A q \in Known(t) \ Known(TimedOut(t, p)) : q.id = p.id
<1> DEFINE with(k) == {j \in DOMAIN t[k].nodes : t[k].nodes[j].peer.id = p.id}
           hits == {k \in DOMAIN t : with(k) # {}}
           i == Max(hits)
           j == Min(with(i))
           b == t[i]
           u == TimedOut(t, p)
<1>1. CASE hits = {}
  BY <1>1 DEF TimedOut
<1>2. CASE hits # {}
  <2>1. i \in DOMAIN t /\ with(i) # {}
    <3>1. hits \in SUBSET (1..Len(t)) /\ Len(t) \in Nat
      BY TableParts DEF TableOK
    <3> HIDE DEF hits
    <3>2. i \in hits
      BY <1>2, <3>1, MaxIsGreatest
    <3> QED
      BY <3>2 DEF hits
  <2> HIDE DEF i
  <2>2. b \in Bucket /\ Len(b.nodes) <= KSize
    BY <2>1, TableParts DEF TableOK
  <2>3. j \in with(i)
    <3>1. DOMAIN b.nodes = 1..Len(b.nodes)
      BY <2>2, BucketParts
    <3>2. with(i) \in SUBSET Nat
      BY <3>1
    <3> DEFINE S == with(i)
    <3>3. S \in SUBSET Nat /\ S # {}
      BY <2>1, <3>2
    <3> HIDE DEF S
    <3>4. Min(S) \in S
      BY <3>3, MinIsLeast
    <3> QED
      BY <3>4 DEF S
  <2>4. u = IF b.nodes[j].fails = Stale
            THEN [t EXCEPT ![i] = Evict(@, j)]
            ELSE [t EXCEPT ![i].nodes[j].fails = @ + 1]
    BY <1>2 DEF TimedOut, i
  <2>5. j \in DOMAIN b.nodes /\ b.nodes[j].peer.id = p.id
    BY <2>3
  <2> HIDE DEF j, with, hits, u
  <2>6. CASE b.nodes[j].fails = Stale
    <3> DEFINE c == Evict(b, j)
    <3>1. Kept(c, b) /\ \A q \in Members(b) \ Members(c) : q = b.nodes[j].peer
      <4> HIDE DEF b
      <4> QED
        BY <2>2, <2>5, NodeEvicted
    <3>2. u = [t EXCEPT ![i] = c]
      BY <2>4, <2>6
    <3> HIDE DEF c
    <3>3. Becomes(t, [t EXCEPT ![i] = c], b, c)
      BY <2>1, <3>1, KeptBucket
    <3> QED
      BY <2>5, <3>1, <3>2, <3>3 DEF u, Becomes
  <2>7. CASE b.nodes[j].fails # Stale
    <3> DEFINE c == [b EXCEPT !.nodes[j].fails = @ + 1]
    <3>1. Kept(c, b) /\ Members(c) = Members(b)
      <4> HIDE DEF b
      <4> QED
        BY <2>2, <2>5, <2>7, FailureCounted
    <3>2. u = [t EXCEPT ![i] = c]
      BY <2>4, <2>7
    <3> HIDE DEF c
    <3>3. Becomes(t, [t EXCEPT ![i] = c], b, c)
      BY <2>1, <3>1, KeptBucket
    <3> QED
      BY <3>1, <3>2, <3>3 DEF u, Becomes
  <2> QED
    BY <2>6, <2>7
<1> QED
  BY <1>1, <1>2

-----------------------------------------------------------------------------
(* What a step may take from the table.                                    *)
Excused(p) == p \notin ready \/ (ask # <<>> /\ Head(ask).id = p.id)

LosesOnlyExcused == \A p \in Known(buckets) \ Known(buckets') : Excused(p)

LEMMA RtInvStarts == RtInit => RtInv
<1> DEFINE b == [prefix |-> <<>>, nodes |-> <<>>, spare |-> <<>>]
           t == <<b>>
<1> SUFFICES ASSUME RtInit PROVE RtInv
  OBVIOUS
<1>0. KSize \in Nat /\ MaxBuckets \in Nat \ {0}
  BY Keys
<1>1. buckets = t /\ RoundOK
  <2>1. 0 \in 0..(MaxBuckets + 1)
    BY <1>0
  <2>2. buckets = t
    BY DEF RtInit
  <2>3. /\ ready \subseteq Peers /\ at = 0 /\ torn \in BOOLEAN
        /\ ask = <<>> /\ found = <<>>
    BY DEF RtInit
  <2>4. ask \in Seq(Peers) /\ found \in Seq(Peers)
    BY <2>3
  <2> QED
    BY <2>1, <2>2, <2>3, <2>4 DEF RoundOK
<1>2. b \in Bucket
  <2>1. <<>> \in Prefix /\ <<>> \in Seq(Node) /\ <<>> \in Seq(Peers)
    BY DEF Prefix
  <2> QED
    BY <2>1, IsBucket
<1>3. Len(b.nodes) = 0 /\ Len(b.prefix) = 0 /\ Members(b) = {}
  BY DEF Members, PeersOf, Range
<1>4. \A id : CanHold(b, id)
  BY DEF CanHold, IsPrefix
<1> HIDE DEF b
<1>5. t \in Seq(Bucket) /\ Len(t) = 1 /\ DOMAIN t = {1} /\ t[1] = b
  BY <1>2
<1> HIDE DEF t
<1>6. Typed(t)
  <2>1. t # <<>> /\ Len(t) <= MaxBuckets
    BY <1>0, <1>5
  <2>2. Len(b.nodes) <= KSize /\ Len(b.prefix) < 1
    BY <1>0, <1>3
  <2> QED
    BY <1>5, <2>1, <2>2 DEF Typed
<1>7. Partition(t)
  BY <1>4, <1>5 DEF Partition, Holder
<1>8. InPlace(t)
  BY <1>3, <1>5 DEF InPlace
<1> QED
  BY <1>1, <1>6, <1>7, <1>8 DEF TableOK, RtInv

(* An added peer, whoever names it.                                        *)
LEMMA AddKeeps ==
    ASSUME RtInv, NEW p \in Peers, Add(p)
    PROVE  TableOK(buckets') /\ LosesOnlyExcused /\ ready' = ready /\ torn' \in BOOLEAN
<1>1. TableOK(buckets) /\ buckets' = WithPeer(buckets, p) /\ ready' = ready
  BY DEF RtInv, Add
<1>2. TableOK(buckets') /\ Known(buckets) \subseteq Known(buckets')
  BY <1>1, PeerAdded
<1>3. torn' \in BOOLEAN
  BY DEF RtInv, RoundOK, Add
<1> QED
  BY <1>1, <1>2, <1>3 DEF LosesOnlyExcused

LEMMA RefreshKeeps ==
    ASSUME RtInv, RefreshBucket
    PROVE  RtInv' /\ LosesOnlyExcused
<1>1. PICK i \in DOMAIN buckets :
          /\ buckets' = [buckets EXCEPT ![i] = WithoutDead(@)]
          /\ ask' = [j \in DOMAIN buckets'[i].nodes |-> buckets'[i].nodes[j].peer]
          /\ at' = i + 1
  BY DEF RefreshBucket
<1>2. /\ TableOK(buckets) /\ ready \subseteq Peers /\ ready' = ready
      /\ torn' \in BOOLEAN /\ found' \in Seq(Peers)
  BY DEF RtInv, RoundOK, RefreshBucket
<1> DEFINE b == buckets[i]
           c == WithoutDead(b)
<1>3. b \in Bucket /\ Len(b.nodes) <= KSize /\ i \in 1..Len(buckets)
      /\ Len(buckets) <= MaxBuckets /\ Len(buckets) \in Nat /\ MaxBuckets \in Nat
  BY <1>2, TableParts, Keys DEF TableOK
<1>4. Kept(c, b) /\ \A p \in Members(b) \ Members(c) : p \notin ready
  <2> HIDE DEF b
  <2> QED
    BY <1>3, DeadRemoved
<1>5. buckets' = [buckets EXCEPT ![i] = c]
  BY <1>1
<1> HIDE DEF c
<1>6. Becomes(buckets, [buckets EXCEPT ![i] = c], b, c)
  BY <1>2, <1>4, KeptBucket
<1>7. TableOK(buckets') /\ LosesOnlyExcused
  BY <1>4, <1>5, <1>6 DEF Becomes, LosesOnlyExcused, Excused
<1>8. ask' \in Seq(Peers)
  <2>1. buckets'[i] = c
    BY <1>2, <1>5 DEF TableOK, Typed
  <2>2. c.nodes \in Seq(Node)
    BY <1>4, BucketParts DEF Kept
  <2> DEFINE ns == c.nodes
             n == Len(ns)
  <2>3. n \in Nat /\ DOMAIN ns = 1..n /\ \A j \in 1..n : ns[j].peer \in Peers
    <3> HIDE DEF ns
    <3>1. ns \in Seq(Node)
      BY <2>2 DEF ns
    <3>2. n \in Nat /\ DOMAIN ns = 1..n /\ \A j \in 1..n : ns[j] \in Node
      BY <3>1, SeqIsFunction
    <3> QED
      BY <3>2 DEF Node
  <2>4. ask' = [j \in DOMAIN ns |-> ns[j].peer]
    BY <1>1, <2>1
  <2> HIDE DEF ns, n
  <2>5. ask' \in [1..n -> Peers]
    BY <2>3, <2>4
  <2> QED
    BY <2>3, <2>5, FunctionIsSeq
<1>9. at' \in 0..(MaxBuckets + 1)
  BY <1>1, <1>3
<1>10. ready' \subseteq Peers
  BY <1>2
<1> QED
  BY <1>2, <1>7, <1>8, <1>9, <1>10 DEF RtInv, RoundOK

LEMMA TimesOutKeeps ==
    ASSUME RtInv, TimesOut
    PROVE  RtInv' /\ LosesOnlyExcused
<1>1. /\ TableOK(buckets) /\ buckets' = TimedOut(buckets, Head(ask)) /\ ask # <<>>
      /\ ask \in Seq(Peers) /\ ask' = Tail(ask)
      /\ UNCHANGED <<ready, at, torn, found>>
  BY DEF RtInv, RoundOK, TimesOut
<1> DEFINE p == Head(ask)
<1>2. TableOK(buckets') /\ \A q \in Known(buckets) \ Known(buckets') : q.id = p.id
  <2> HIDE DEF p
  <2>1. buckets' = TimedOut(buckets, p)
    BY <1>1 DEF p
  <2> QED
    BY <1>1, <2>1, PeerTimedOut
<1>3. ask' \in Seq(Peers)
  BY <1>1
<1>4. LosesOnlyExcused
  BY <1>1, <1>2 DEF LosesOnlyExcused, Excused
<1> QED
  BY <1>1, <1>2, <1>3, <1>4 DEF RtInv, RoundOK

LEMMA AddNeighborKeeps ==
    ASSUME RtInv, AddNeighbor
    PROVE  RtInv' /\ LosesOnlyExcused
<1> DEFINE p == Head(found)
<1>1. /\ found # <<>> /\ found \in Seq(Peers) /\ found' = Tail(found)
      /\ at' = at /\ ask' = ask
      /\ TableOK(buckets) /\ RoundOK
  BY DEF RtInv, RoundOK, AddNeighbor
<1>2. p \in Peers /\ found' \in Seq(Peers)
  BY <1>1
<1>3. CASE Add(p)
  <2> HIDE DEF p
  <2>1. TableOK(buckets') /\ LosesOnlyExcused /\ ready' = ready /\ torn' \in BOOLEAN
    BY <1>2, <1>3, AddKeeps
  <2> QED
    BY <1>1, <1>2, <2>1 DEF RtInv, RoundOK
<1>4. CASE UNCHANGED <<table, torn>>
  <2>1. buckets' = buckets /\ ready' = ready /\ torn' = torn
    BY <1>4 DEF table
  <2>2. TableOK(buckets') /\ LosesOnlyExcused
    BY <1>1, <2>1 DEF LosesOnlyExcused
  <2> QED
    BY <1>1, <1>2, <2>1, <2>2 DEF RtInv, RoundOK
<1> QED
  BY <1>3, <1>4 DEF AddNeighbor

(* The steps that leave the table alone.                                   *)
LEMMA TableUntouched ==
    ASSUME RtInv, UNCHANGED buckets, RoundOK'
    PROVE  RtInv' /\ LosesOnlyExcused
BY DEF RtInv, LosesOnlyExcused

LEMMA RtStep ==
    ASSUME RtInv, [RtNext]_rtVars
    PROVE  RtInv' /\ LosesOnlyExcused
<1>1. ASSUME NEW p \in Peers, Announce(p)
      PROVE  RtInv' /\ LosesOnlyExcused
  <2>1. TableOK(buckets') /\ LosesOnlyExcused /\ ready' = ready /\ torn' \in BOOLEAN
    BY <1>1, AddKeeps DEF Announce
  <2>2. RoundOK'
    BY <1>1, <2>1 DEF RtInv, RoundOK, Announce
  <2> QED
    BY <2>1, <2>2 DEF RtInv
<1>2. ASSUME NEW p \in Flaky, ChannelChanges(p)
      PROVE  RtInv' /\ LosesOnlyExcused
  <2>1. buckets' = buckets /\ UNCHANGED <<at, torn, ask, found>>
    BY <1>2 DEF ChannelChanges, round
  <2>2. ready' \subseteq Peers
    BY <1>2, PeersAssumption DEF ChannelChanges, RtInv, RoundOK
  <2>3. RoundOK'
    BY <2>1, <2>2 DEF RtInv, RoundOK
  <2> QED
    BY <2>1, <2>3, TableUntouched
<1>3. CASE StartRound
  <2>1. 1 \in 0..(MaxBuckets + 1)
    BY Keys
  <2>2. buckets' = buckets /\ RoundOK'
    BY <1>3, <2>1 DEF StartRound, table, RtInv, RoundOK
  <2> QED
    BY <2>2, TableUntouched
<1>4. CASE EndRound
  <2>1. buckets' = buckets /\ RoundOK'
    BY <1>4, Keys DEF EndRound, table, RtInv, RoundOK
  <2> QED
    BY <2>1, TableUntouched
<1>5. CASE Answers
  <2>1. /\ buckets' = buckets /\ ready' = ready /\ at' = at /\ torn' = torn
        /\ ask' = Tail(ask) /\ ask \in Seq(Peers) /\ ask # <<>>
    BY <1>5 DEF Answers, table, RtInv, RoundOK
  <2>2. ask' \in Seq(Peers)
    BY <2>1
  <2>3. PICK n \in 0..Alpha : found' \in [1..n -> Peers]
    BY <1>5 DEF Answers
  <2>4. found' \in Seq(Peers)
    <3>1. n \in Nat
      BY <2>3, SizesAssumption
    <3> QED
      BY <2>3, <3>1, FunctionIsSeq
  <2>5. RoundOK'
    BY <2>1, <2>2, <2>4 DEF RtInv, RoundOK
  <2> QED
    BY <2>1, <2>5, TableUntouched
<1>6. CASE UNCHANGED rtVars
  <2>1. buckets' = buckets /\ RoundOK'
    BY <1>6 DEF rtVars, table, round, RtInv, RoundOK
  <2> QED
    BY <2>1, TableUntouched
<1> QED
  BY <1>1, <1>2, <1>3, <1>4, <1>5, <1>6, RefreshKeeps, TimesOutKeeps, AddNeighborKeeps
     DEF RtNext, RoundStep

(* The inductive invariant of the routing table.                           *)
THEOREM RtInvHolds == RtSpec => []RtInv
<1>1. RtInv /\ [RtNext]_rtVars => RtInv'
  BY RtStep
<1> QED
  BY RtInvStarts, <1>1, PTL DEF RtSpec

(* Types: buckets within their size, failures within what makes stale.     *)
THEOREM TableTypeCorrect == RtSpec => []RtTypeOK
<1>1. RtInv => RtTypeOK
  BY DEF RtInv, TableOK, Typed, RoundOK, RtTypeOK
<1> QED
  BY RtInvHolds, <1>1, PTL

(* After any splits, every key of any length has exactly one bucket, mine  *)
(* the last, and no prefix is as long as a key (KBucket::split, addPeer).  *)
THEOREM AlwaysOneBucketPerKey == RtSpec => []OneBucketPerKey
<1>1. RtInv => OneBucketPerKey
  <2> SUFFICES ASSUME RtInv PROVE OneBucketPerKey
    OBVIOUS
  <2>1. TableOK(buckets)
    BY DEF RtInv
  <2>2. ASSUME NEW id \in Key
        PROVE  \E i \in DOMAIN buckets :
                   {i} = {j \in DOMAIN buckets : CanHold(buckets[j], id)}
    <3>1. PICK i \in DOMAIN buckets : Holder(buckets, id, i)
      BY <2>1 DEF TableOK, Partition
    <3>2. {i} = {j \in DOMAIN buckets : CanHold(buckets[j], id)}
      BY <3>1 DEF Holder
    <3> QED
      BY <3>2
  <2>3. CanHold(Last(buckets), MyId)
    BY <2>1 DEF TableOK, Partition, Last
  <2>4. ASSUME NEW i \in DOMAIN buckets
        PROVE  Len(buckets[i].prefix) < KeyBits
    <3> DEFINE x == Len(buckets[i].prefix)
               y == Len(buckets)
    <3>1. x \in Nat /\ x < y /\ y \in Nat /\ y <= KeyBits /\ KeyBits \in Nat
      BY <2>1, TableParts DEF TableOK
    <3> HIDE DEF x, y
    <3>2. x < KeyBits
      BY <3>1
    <3> QED
      BY <3>2 DEF x
  <2> QED
    BY <2>2, <2>3, <2>4 DEF OneBucketPerKey
<1> QED
  BY RtInvHolds, <1>1, PTL

(* A peer is always in the bucket its key is looked up in, whatever was    *)
(* split since it was added (getBucketIndexFor, KBucket::split).           *)
THEOREM AlwaysInTheirBucket == RtSpec => []PeersInTheirBucket
<1>1. RtInv => PeersInTheirBucket
  <2> SUFFICES ASSUME RtInv, NEW i \in DOMAIN buckets, NEW p \in Members(buckets[i])
               PROVE  BucketFor(buckets, p.id) = i
    BY DEF PeersInTheirBucket, Members
  <2>1. TableOK(buckets)
    BY DEF RtInv
  <2>2. p.id \in Key
    <3>1. buckets[i] \in Bucket
      BY <2>1, TableParts DEF TableOK
    <3> QED
      BY <3>1, BucketParts, Keys
  <2>3. PICK j \in DOMAIN buckets : Holder(buckets, p.id, j)
    BY <2>1, <2>2 DEF TableOK, Partition
  <2>4. j = i
    BY <2>1, <2>3 DEF TableOK, InPlace, Holder
  <2> QED
    BY <2>1, <2>3, <2>4, BucketForHolds DEF TableOK
<1> QED
  BY RtInvHolds, <1>1, PTL

(* addPeer and split never lose a peer: only a channel that is down or a   *)
(* request that timed out does (removeDeadNodes, peerTimedOut).            *)
THEOREM OnlyFailuresRemove == RtSpec => OnlyFailuresRemovePeers
<1>1. RtInv /\ [RtNext]_rtVars =>
          [\A p \in Known(buckets) \ Known(buckets') :
               p \notin ready \/ (ask # <<>> /\ Head(ask).id = p.id)]_rtVars
  BY RtStep DEF LosesOnlyExcused, Excused
<1> QED
  BY RtInvHolds, <1>1, PTL DEF RtSpec, OnlyFailuresRemovePeers

-----------------------------------------------------------------------------
(* No two places of s hold the same.                                       *)
Distinct(s) == \A i, j \in DOMAIN s : s[i] = s[j] => i = j

(* What a walk over L buckets knows on its way, and its next step.         *)
Way(L) ==
    [seen : Seq(1..L), left : 1..L, right : 1..(L + 1), useLeft : BOOLEAN]

WalkStart(b) == [seen |-> <<b>>, left |-> b, right |-> b + 1, useLeft |-> TRUE]

ToLeft(s) ==
    [s EXCEPT !.seen = Append(@, s.left - 1), !.left = @ - 1, !.useLeft = FALSE]
ToRight(s) ==
    [s EXCEPT !.seen = Append(@, s.right), !.right = @ + 1, !.useLeft = TRUE]

WalkStep(L, s) ==
    IF s.left # 1 /\ (s.useLeft \/ s.right = L + 1) THEN ToLeft(s)
    ELSE IF s.right # L + 1 THEN ToRight(s) ELSE s

(* The walk has seen all buckets from left to before right, each once, and *)
(* began with b.                                                           *)
Walked(L, b, s) ==
    /\ s \in Way(L) /\ s.left < s.right
    /\ Len(s.seen) = s.right - s.left /\ s.seen[1] = b /\ Distinct(s.seen)
    /\ \A x : x \in Range(s.seen) <=> x \in s.left..(s.right - 1)

Complete(L, s) == s.left = 1 /\ s.right = L + 1

(* One more place that holds something new.                                *)
LEMMA OneMorePlace ==
    ASSUME NEW S, NEW s \in Seq(S), NEW x \in S, x \notin Range(s),
           Distinct(s), Len(s) # 0
    PROVE  /\ Append(s, x) \in Seq(S) /\ Len(Append(s, x)) = Len(s) + 1
           /\ Append(s, x)[1] = s[1] /\ Distinct(Append(s, x))
           /\ \A y : y \in Range(Append(s, x)) <=> y \in Range(s) \/ y = x
<1> DEFINE r == Append(s, x)
           n == Len(s)
<1>1. /\ n \in Nat \ {0} /\ DOMAIN s = 1..n
      /\ r \in Seq(S) /\ Len(r) = n + 1 /\ DOMAIN r = 1..(n + 1)
      /\ r[n + 1] = x /\ \A k \in 1..n : r[k] = s[k]
  OBVIOUS
<1>2. \A y : y \in Range(r) <=> y \in Range(s) \/ y = x
  BY RangeOfAppend
<1> HIDE DEF r, n
<1>3. \A k \in 1..(n + 1) : k \in 1..n \/ k = n + 1
  BY <1>1
<1>4. \A k \in 1..n : s[k] # x
  BY <1>1 DEF Range
<1>5. Distinct(r)
  BY <1>1, <1>3, <1>4 DEF Distinct
<1>6. r[1] = s[1]
  BY <1>1
<1> QED
  BY <1>1, <1>2, <1>5, <1>6 DEF r, n

(* Each step sees the next bucket on one side, if there is one.            *)
LEMMA WalkGoesOn ==
    ASSUME NEW L \in Nat \ {0}, NEW b \in 1..L, NEW s, Walked(L, b, s)
    PROVE  LET r == WalkStep(L, s)
           IN  /\ Walked(L, b, r)
               /\ Complete(L, r) \/ r.right - r.left = s.right - s.left + 1
<1> DEFINE q == s.seen
           m == s.left
           n == s.right
           r == WalkStep(L, s)
<1>1. /\ s \in Way(L) /\ q \in Seq(1..L) /\ m \in 1..L /\ n \in 1..(L + 1) /\ m < n
      /\ Len(q) = n - m /\ q[1] = b /\ Distinct(q)
      /\ \A x : x \in Range(q) <=> x \in m..(n - 1)
  BY DEF Walked, Way
<1>2. Len(q) # 0
  <2> HIDE DEF q, m, n
  <2> QED
    BY <1>1
<1>3. CASE m # 1 /\ (s.useLeft \/ n = L + 1)
  <2> DEFINE x == m - 1
  <2>1. r = [seen |-> Append(q, x), left |-> x, right |-> n, useLeft |-> FALSE]
    BY <1>1, <1>3 DEF WalkStep, ToLeft, Way
  <2>2. x \in 1..L /\ x \notin m..(n - 1) /\ x < n /\ n - x = n - m + 1
        /\ \A y : y \in x..(n - 1) <=> y \in m..(n - 1) \/ y = x
    <3>1. L \in Nat /\ m \in Int /\ n \in Int /\ 1 <= m /\ m <= L /\ m < n /\ m # 1
      BY <1>1, <1>3
    <3> HIDE DEF m, n
    <3> QED
      BY ONLY <3>1
  <2>3. x \notin Range(q)
    BY <1>1, <2>2
  <2> HIDE DEF r, q, m, n, x
  <2>4. /\ Append(q, x) \in Seq(1..L) /\ Len(Append(q, x)) = Len(q) + 1
        /\ Append(q, x)[1] = q[1] /\ Distinct(Append(q, x))
        /\ \A y : y \in Range(Append(q, x)) <=> y \in Range(q) \/ y = x
    <3> DEFINE S == 1..L
    <3>1. q \in Seq(S) /\ x \in S
      BY <1>1, <2>2
    <3> HIDE DEF S
    <3>2. /\ Append(q, x) \in Seq(S) /\ Len(Append(q, x)) = Len(q) + 1
          /\ Append(q, x)[1] = q[1] /\ Distinct(Append(q, x))
          /\ \A y : y \in Range(Append(q, x)) <=> y \in Range(q) \/ y = x
      BY <1>1, <1>2, <2>3, <3>1, OneMorePlace
    <3> QED
      BY <3>2 DEF S
  <2>5. r \in Way(L) /\ r.seen = Append(q, x) /\ r.left = x /\ r.right = n
    BY <1>1, <2>1, <2>2, <2>4 DEF Way
  <2>6. Len(Append(q, x)) = n - x
    BY <1>1, <2>2, <2>4
  <2>7. \A y : y \in Range(Append(q, x)) <=> y \in x..(n - 1)
    BY <1>1, <2>2, <2>4
  <2>8. Walked(L, b, r)
    BY <1>1, <2>2, <2>4, <2>5, <2>6, <2>7 DEF Walked
  <2>9. r.right - r.left = n - m + 1
    BY <2>2, <2>5
  <2> QED
    BY <2>8, <2>9 DEF r, m, n
<1>4. CASE ~(m # 1 /\ (s.useLeft \/ n = L + 1)) /\ n # L + 1
  <2> DEFINE x == n
  <2>1. r = [seen |-> Append(q, x), left |-> m, right |-> x + 1, useLeft |-> TRUE]
    BY <1>1, <1>4 DEF WalkStep, ToRight, Way
  <2>2. /\ x \in 1..L /\ x \notin m..(n - 1) /\ m < x + 1 /\ (x + 1) - m = n - m + 1
        /\ x + 1 \in 1..(L + 1) /\ (x + 1) - 1 = x
        /\ \A y : y \in m..x <=> y \in m..(n - 1) \/ y = x
    <3>1. L \in Nat /\ m \in Int /\ n \in Int /\ 1 <= m /\ m < n /\ n <= L
      BY <1>1, <1>4
    <3> HIDE DEF m, n
    <3> QED
      BY ONLY <3>1
  <2>3. x \notin Range(q)
    BY <1>1, <2>2
  <2> HIDE DEF r, q, m, n, x
  <2>4. /\ Append(q, x) \in Seq(1..L) /\ Len(Append(q, x)) = Len(q) + 1
        /\ Append(q, x)[1] = q[1] /\ Distinct(Append(q, x))
        /\ \A y : y \in Range(Append(q, x)) <=> y \in Range(q) \/ y = x
    <3> DEFINE S == 1..L
    <3>1. q \in Seq(S) /\ x \in S
      BY <1>1, <2>2
    <3> HIDE DEF S
    <3>2. /\ Append(q, x) \in Seq(S) /\ Len(Append(q, x)) = Len(q) + 1
          /\ Append(q, x)[1] = q[1] /\ Distinct(Append(q, x))
          /\ \A y : y \in Range(Append(q, x)) <=> y \in Range(q) \/ y = x
      BY <1>1, <1>2, <2>3, <3>1, OneMorePlace
    <3> QED
      BY <3>2 DEF S
  <2>5. r \in Way(L) /\ r.seen = Append(q, x) /\ r.left = m /\ r.right = x + 1
    BY <1>1, <2>1, <2>2, <2>4 DEF Way
  <2>6. Len(Append(q, x)) = (x + 1) - m
    BY <1>1, <2>2, <2>4
  <2>7. \A y : y \in Range(Append(q, x)) <=> y \in m..((x + 1) - 1)
    BY <1>1, <2>2, <2>4
  <2>8. Walked(L, b, r)
    BY <1>1, <2>2, <2>4, <2>5, <2>6, <2>7 DEF Walked
  <2>9. r.right - r.left = n - m + 1
    BY <2>2, <2>5
  <2> QED
    BY <2>8, <2>9 DEF r, m, n
<1>5. CASE ~(m # 1 /\ (s.useLeft \/ n = L + 1)) /\ n = L + 1
  <2>1. r = s /\ Complete(L, s)
    BY <1>5 DEF WalkStep, Complete
  <2> QED
    BY <2>1
<1> QED
  BY <1>3, <1>4, <1>5

(* A permutation of 1..L that begins with b.                               *)
Permutes(L, b, w) ==
    /\ w \in Seq(1..L) /\ Len(w) = L /\ w[1] = b /\ Distinct(w)
    /\ \A x : x \in Range(w) <=> x \in 1..L

(* findNeighbors goes through every bucket once, the key's own first.      *)
LEMMA WalkSeesAll ==
    ASSUME NEW t, Len(t) \in Nat \ {0}, NEW b \in 1..Len(t)
    PROVE  Permutes(Len(t), b, Walk(t, b))
<1> DEFINE L == Len(t)
           N == 2 * L
           IsWalk(f) ==
               f = [n \in 0..(2 * Len(t)) |->
                      IF n = 0 THEN WalkStart(b) ELSE WalkStep(Len(t), f[n - 1])]
           step == CHOOSE f : IsWalk(f)
           V == Way(L)
           G == [q \in (1..N) \X V |-> WalkStep(L, q[2])]
<1>1. L \in Nat \ {0} /\ N \in Nat /\ N >= L /\ b \in 1..L
  OBVIOUS
<1>2. Walk(t, b) = step[N].seen
  BY DEF Walk, WalkStart, WalkStep, ToLeft, ToRight
<1>3. WalkStart(b) \in V
  <2>1. <<b>> \in Seq(1..L) /\ b + 1 \in 1..(L + 1)
    BY <1>1
  <2> QED
    BY <1>1, <2>1 DEF WalkStart, Way
<1>4. ASSUME NEW s \in V
      PROVE  WalkStep(L, s) \in V
  <2>1. /\ s.seen \in Seq(1..L) /\ s.left \in 1..L /\ s.right \in 1..(L + 1)
        /\ s = [seen |-> s.seen, left |-> s.left, right |-> s.right,
                useLeft |-> s.useLeft]
    BY DEF Way
  <2>2. CASE s.left # 1
    <3>1. s.left - 1 \in 1..L
      BY <1>1, <2>1, <2>2
    <3>2. Append(s.seen, s.left - 1) \in Seq(1..L)
      BY <2>1, <3>1
    <3>3. ToLeft(s) \in V
      BY <2>1, <3>1, <3>2 DEF ToLeft, Way
    <3>4. s.right # L + 1 => ToRight(s) \in V
      <4> SUFFICES ASSUME s.right # L + 1
                   PROVE  ToRight(s) \in V
        OBVIOUS
      <4>1. s.right \in 1..L /\ s.right + 1 \in 1..(L + 1)
        BY <1>1, <2>1
      <4>2. Append(s.seen, s.right) \in Seq(1..L)
        BY <2>1, <4>1
      <4> QED
        BY <2>1, <4>1, <4>2 DEF ToRight, Way
    <3> QED
      BY <3>3, <3>4 DEF WalkStep
  <2>3. CASE s.left = 1
    <3>1. s.right # L + 1 => ToRight(s) \in V
      <4> SUFFICES ASSUME s.right # L + 1
                   PROVE  ToRight(s) \in V
        OBVIOUS
      <4>1. s.right \in 1..L /\ s.right + 1 \in 1..(L + 1)
        BY <1>1, <2>1
      <4>2. Append(s.seen, s.right) \in Seq(1..L)
        BY <2>1, <4>1
      <4> QED
        BY <2>1, <4>1, <4>2 DEF ToRight, Way
    <3> QED
      BY <2>3, <3>1 DEF WalkStep
  <2> QED
    BY <2>2, <2>3
<1>5. \A i \in 1..N : \A s \in V : G[<<i, s>>] = WalkStep(L, s)
  OBVIOUS
<1> HIDE DEF V, G
<1>6. PICK f : BuiltBy(G, N, V, WalkStart(b), f)
  <2> DEFINE start == WalkStart(b)
  <2>1. StepsIn(G, N, V) /\ start \in V
    BY <1>3, <1>4, <1>5 DEF StepsIn
  <2> HIDE DEF start, N
  <2>2. \E f : BuiltBy(G, N, V, start, f)
    BY <1>1, <2>1, Recursion
  <2> QED
    BY <2>2 DEF start
<1>7. IsWalk(f)
  <2> HIDE DEF N
  <2>1. /\ f \in [0..N -> V] /\ f[0] = WalkStart(b)
        /\ \A k \in 1..N : f[k] = G[<<k, f[k - 1]>>]
    BY <1>6 DEF BuiltBy
  <2>2. \A k \in 1..N : f[k - 1] \in V
    BY <1>1, <2>1
  <2>3. \A k \in 1..N : f[k] = WalkStep(L, f[k - 1])
    BY <1>5, <2>1, <2>2
  <2>4. \A k \in 0..N : k = 0 \/ k \in 1..N
    BY <1>1
  <2>5. DOMAIN f = 0..N /\ f = [k \in 0..N |-> f[k]]
    BY <2>1
  <2>6. f = [k \in 0..N |-> IF k = 0 THEN WalkStart(b) ELSE WalkStep(L, f[k - 1])]
    <3> HIDE DEF L
    <3>1. ASSUME NEW k \in 0..N
          PROVE  f[k] = IF k = 0 THEN WalkStart(b) ELSE WalkStep(L, f[k - 1])
      BY <2>1, <2>3, <2>4
    <3> QED
      BY <2>5, <3>1
  <2> QED
    BY <2>6 DEF N
<1>8. IsWalk(step)
  BY <1>7
<1> HIDE DEF step
<1>9. /\ step[0] = WalkStart(b)
      /\ \A k \in 1..N : step[k] = WalkStep(L, step[k - 1])
  <2>1. \A k \in 1..N : k \in 0..N /\ k # 0
    BY <1>1
  <2>2. 0 \in 0..N
    BY <1>1
  <2> QED
    BY <1>8, <2>1, <2>2
<1> HIDE DEF L, N
<1> DEFINE Far(k) == /\ Walked(L, b, step[k])
                     /\ Complete(L, step[k]) \/ step[k].right - step[k].left > k
           T == {k \in Nat : k <= N => Far(k)}
<1>10. 0 \in T
  <2> DEFINE s == WalkStart(b)
  <2>1. s.seen = <<b>> /\ s.left = b /\ s.right = b + 1
    BY DEF WalkStart
  <2>2. b < b + 1 /\ (b + 1) - b = 1 /\ b..((b + 1) - 1) = {b}
    BY <1>1
  <2>3. Len(<<b>>) = 1 /\ <<b>>[1] = b /\ Distinct(<<b>>) /\ Range(<<b>>) = {b}
    BY DEF Distinct, Range
  <2> HIDE DEF s
  <2>4. Walked(L, b, s)
    <3>1. s \in Way(L)
      BY <1>3 DEF s, V
    <3> QED
      BY <2>1, <2>2, <2>3, <3>1 DEF Walked
  <2>5. Far(0)
    BY <1>9, <2>1, <2>2, <2>4 DEF s
  <2> QED
    BY <2>5
<1>11. ASSUME NEW k \in T
       PROVE  k + 1 \in T
  <2> SUFFICES ASSUME k + 1 <= N
               PROVE  Far(k + 1)
    OBVIOUS
  <2> DEFINE s == step[k]
             r == step[k + 1]
  <2>1. k \in Nat /\ k + 1 \in 1..N /\ (k + 1) - 1 = k /\ Far(k)
    BY <1>1
  <2>2. r = WalkStep(L, s)
    BY <1>9, <2>1
  <2>3. Walked(L, b, s) /\ (Complete(L, s) \/ s.right - s.left > k)
    BY <2>1
  <2> HIDE DEF s, r
  <2>4. /\ Walked(L, b, r)
        /\ Complete(L, r) \/ r.right - r.left = s.right - s.left + 1
    BY <1>1, <2>2, <2>3, WalkGoesOn
  <2>5. CASE Complete(L, s)
    <3>1. r = s
      BY <2>2, <2>5 DEF WalkStep, Complete
    <3> QED
      BY <2>4, <2>5, <3>1 DEF r
  <2>6. CASE s.right - s.left > k
    <3> DEFINE x == s.right - s.left
    <3>1. x \in Int
      BY <1>1, <2>3 DEF Walked, Way
    <3>2. x + 1 > k + 1
      <4> HIDE DEF x
      <4> QED
        BY <2>1, <2>6, <3>1 DEF x
    <3> QED
      BY <2>4, <3>2 DEF r
  <2> QED
    BY <2>3, <2>5, <2>6
<1>12. T = Nat
  <2> HIDE DEF T
  <2>1. T \in SUBSET Nat
    BY DEF T
  <2> QED
    BY <1>10, <1>11, <2>1, InductionOnSets
<1>13. Far(N)
  <2> HIDE DEF T
  <2>1. N \in T /\ N <= N
    BY <1>1, <1>12
  <2> QED
    BY <2>1 DEF T
<1> DEFINE s == step[N]
<1>14. Walked(L, b, s) /\ (Complete(L, s) \/ s.right - s.left > N)
  BY <1>13
<1> HIDE DEF s
<1>15. Complete(L, s)
  <2> DEFINE m == s.left
             n == s.right
  <2>1. m \in 1..L /\ n \in 1..(L + 1)
    BY <1>14 DEF Walked, Way
  <2> HIDE DEF m, n
  <2>2. ~(n - m > N)
    BY <1>1, <2>1
  <2> QED
    BY <1>14, <2>2 DEF m, n
<1>16. s.left = 1 /\ s.right = L + 1
  BY <1>15 DEF Complete
<1>17. (L + 1) - 1 = L
  BY <1>1
<1>18. Permutes(L, b, s.seen)
  BY <1>14, <1>16, <1>17 DEF Walked, Way, Permutes
<1> QED
  BY <1>2, <1>18 DEF s, L

(* The nodes of a bucket that are not the one looked for.                  *)
OtherPlaces(b, id) == {j \in DOMAIN b.nodes : b.nodes[j].peer.id # id}
Others(b, id) == Those(b.nodes, OtherPlaces(b, id))

LEMMA OthersOf ==
    ASSUME NEW b \in Bucket, NEW id
    PROVE  /\ Others(b, id) \in Seq(Node)
           /\ Len(Others(b, id)) = Cardinality(OtherPlaces(b, id))
           /\ \A n \in Range(Others(b, id)) : n.peer.id # id /\ n.peer \in PeersOf(b)
<1> DEFINE ns == b.nodes
           K == OtherPlaces(b, id)
<1>1. ns \in Seq(Node)
  BY BucketParts
<1>2. K \subseteq DOMAIN ns /\ \A j \in K : ns[j].peer.id # id
  BY DEF OtherPlaces
<1>3. \A j \in DOMAIN ns : ns[j].peer \in PeersOf(b)
  BY DEF PeersOf, Range
<1> HIDE DEF ns, K
<1>4. /\ Those(ns, K) \in Seq(Node)
      /\ Len(Those(ns, K)) = Cardinality(DOMAIN ns \cap K)
      /\ Range(Those(ns, K)) = {ns[k] : k \in DOMAIN ns \cap K}
  BY <1>1, ThoseOf
<1>5. DOMAIN ns \cap K = K
  BY <1>2
<1>6. \A n \in Range(Those(ns, K)) : n.peer.id # id /\ n.peer \in PeersOf(b)
  BY <1>2, <1>3, <1>4
<1> QED
  BY <1>4, <1>5, <1>6 DEF Others, ns, K

(* What findNeighbors promises of a table, of a key and of a number.       *)
AnswerOK(t, id, max) ==
    LET others(i) == Cardinality(OtherPlaces(t[i], id))
        total == SumFunctionOnSet([i \in DOMAIN t |-> others(i)], DOMAIN t)
        own == BucketFor(t, id)
        answer == FindNeighbors(t, id, max)
    IN  /\ Len(answer) = Min({max, total})
        /\ \A k \in DOMAIN answer : answer[k].peer.id # id
        /\ \A k \in DOMAIN answer :
              k <= others(own) => answer[k].peer \in PeersOf(t[own])

LEMMA AnswerIsComplete ==
    ASSUME NEW t, TableOK(t), NEW id \in Key, NEW max \in Nat
    PROVE  AnswerOK(t, id, max)
<1> DEFINE L == Len(t)
           own == BucketFor(t, id)
           w == Walk(t, own)
           seqs == [k \in DOMAIN w |-> Others(t[w[k]], id)]
           all == FlattenSeq(seqs)
           counts == [i \in DOMAIN t |-> Cardinality(OtherPlaces(t[i], id))]
           lens == [k \in 1..L |-> counts[w[k]]]
           m == Min({max, Len(all)})
           answer == FindNeighbors(t, id, max)
<1>1. /\ L \in Nat \ {0} /\ DOMAIN t = 1..L /\ own \in 1..L
      /\ \A i \in 1..L : t[i] \in Bucket
  BY TableParts, BucketForKey DEF TableOK
<1>2. answer = SubSeq(all, 1, m)
  BY DEF FindNeighbors, Others, OtherPlaces
<1>3. Permutes(L, own, w)
  BY <1>1, WalkSeesAll
<1> HIDE DEF L, own, w
<1>4. /\ DOMAIN w = 1..L /\ w[1] = own
      /\ \A k \in 1..L : w[k] \in 1..L
      /\ \A k, l \in 1..L : w[k] = w[l] => k = l
      /\ \A x : x \in 1..L <=> \E k \in 1..L : x = w[k]
  <2>1. w \in Seq(1..L) /\ Len(w) = L
    BY <1>3 DEF Permutes
  <2>2. DOMAIN w = 1..L /\ \A k \in 1..L : w[k] \in 1..L
    BY <2>1
  <2>3. \A x : x \in 1..L <=> x \in Range(w)
    BY <1>3 DEF Permutes
  <2>4. w[1] = own /\ \A k, l \in 1..L : w[k] = w[l] => k = l
    BY <1>3, <2>2 DEF Permutes, Distinct
  <2>5. \A x : x \in Range(w) <=> \E k \in 1..L : x = w[k]
    BY <2>2 DEF Range
  <2> QED
    BY <2>2, <2>3, <2>4, <2>5
<1>5. ASSUME NEW i \in 1..L
      PROVE  /\ Others(t[i], id) \in Seq(Node)
             /\ Len(Others(t[i], id)) = counts[i] /\ counts[i] \in Nat
             /\ \A n \in Range(Others(t[i], id)) :
                    n.peer.id # id /\ n.peer \in PeersOf(t[i])
  <2> DEFINE o == Others(t[i], id)
  <2>1. /\ o \in Seq(Node) /\ Len(o) = counts[i]
        /\ \A n \in Range(o) : n.peer.id # id /\ n.peer \in PeersOf(t[i])
    BY <1>1, OthersOf
  <2>2. Len(o) \in Nat
    <3> HIDE DEF o
    <3> QED
      BY <2>1
  <2> QED
    BY <2>1, <2>2
<1>6. /\ DOMAIN seqs = 1..L
      /\ \A k \in 1..L : seqs[k] = Others(t[w[k]], id)
      /\ \A k \in 1..L : lens[k] = counts[w[k]]
  BY <1>4
<1> HIDE DEF counts, seqs, lens
<1>7. ASSUME NEW k \in 1..L
       PROVE  /\ seqs[k] \in Seq(Node) /\ Len(seqs[k]) = lens[k]
              /\ lens[k] = counts[w[k]] /\ lens[k] \in Nat
              /\ \A n \in Range(seqs[k]) : n.peer.id # id
  <2>1. PICK i \in 1..L : i = w[k]
    BY <1>4
  <2>2. seqs[k] = Others(t[i], id) /\ lens[k] = counts[i]
    BY <1>6, <2>1
  <2> QED
    BY <1>5, <2>1, <2>2
<1>8. seqs \in Seq(Seq(Node)) /\ Len(seqs) = L
  <2> DEFINE S == Seq(Node)
  <2>1. \A k \in 1..L : seqs[k] \in S
    BY <1>7
  <2> HIDE DEF S
  <2>2. seqs \in [1..L -> S]
    <3>1. seqs = [k \in 1..L |-> seqs[k]]
      BY <1>6 DEF seqs
    <3> QED
      BY <2>1, <3>1
  <2>3. seqs \in Seq(S) /\ Len(seqs) = L
    BY <1>1, <2>2, FunctionIsSeq
  <2> QED
    BY <2>3 DEF S
<1>9. \A k \in DOMAIN seqs : lens[k] = Len(seqs[k])
  BY <1>6, <1>7
<1>10. /\ all \in Seq(Node) /\ Len(all) = SumFunctionOnSet(lens, 1..L)
      /\ Begins(all, seqs[1])
      /\ Range(all) = UNION {Range(seqs[k]) : k \in 1..L}
  <2>1. Len(seqs) # 0
    BY <1>1, <1>8
  <2>2. /\ all \in Seq(Node) /\ Len(all) = SumFunctionOnSet(lens, DOMAIN seqs)
        /\ Begins(all, seqs[1])
    BY <1>8, <1>9, <2>1, FlattenedLength
  <2>3. Range(all) = UNION {Range(seqs[k]) : k \in DOMAIN seqs}
    BY <1>8, FlattenedSeq
  <2> QED
    BY <1>6, <2>2, <2>3
<1>11. SumFunctionOnSet(counts, 1..L) = SumFunctionOnSet(lens, 1..L)
  <2> DEFINE D == 1..L
  <2>1. IsFiniteSet(D)
    BY <1>1, FS_Interval
  <2>2. \A k \in D : lens[k] = counts[w[k]] /\ lens[k] \in Int
    BY <1>7
  <2>3. Reorders(counts, D, lens, D, w)
    BY <1>4, <2>1, <2>2 DEF Reorders
  <2> HIDE DEF D
  <2>4. SumFunctionOnSet(counts, D) = SumFunctionOnSet(lens, D)
    BY <2>3, SumReordered
  <2> QED
    BY <2>4 DEF D
<1> HIDE DEF all
<1>12. m \in Nat /\ m <= Len(all) /\ Len(all) \in Nat
  <2> DEFINE len == Len(all)
  <2>1. len \in Nat
    BY <1>10
  <2> HIDE DEF len
  <2>2. {max, len} \in SUBSET Nat /\ {max, len} # {} /\ len \in {max, len}
    BY <2>1
  <2>3. Min({max, len}) \in {max, len} /\ Min({max, len}) <= len
    BY <2>2, MinIsLeast
  <2> QED
    BY <2>1, <2>3 DEF len
<1> HIDE DEF m, answer
<1>13. Len(answer) = m /\ DOMAIN answer = 1..m /\ \A k \in 1..m : answer[k] = all[k]
  <2>1. all \in Seq(Node)
    BY <1>10
  <2>2. SubSeq(all, 1, m) = [k \in 1..m |-> all[k]]
    BY <1>12, <2>1
  <2>3. \A k \in 1..m : all[k] \in Node
    BY <1>12, <2>1
  <2>4. SubSeq(all, 1, m) \in [1..m -> Node]
    BY <2>2, <2>3
  <2> QED
    BY <1>2, <1>12, <2>2, <2>4, FunctionIsSeq
<1>14. m = Min({max, SumFunctionOnSet(counts, 1..L)})
  BY <1>10, <1>11 DEF m
<1>15. ASSUME NEW k \in 1..m
       PROVE  answer[k].peer.id # id
  <2>1. k \in DOMAIN all
    BY <1>10, <1>12
  <2>2. all[k] \in Range(all)
    BY <2>1 DEF Range
  <2>3. PICK l \in 1..L : all[k] \in Range(seqs[l])
    BY <1>10, <2>2
  <2>4. all[k].peer.id # id
    BY <1>7, <2>3
  <2> QED
    BY <1>13, <2>4
<1>16. ASSUME NEW k \in 1..m, k <= counts[own]
       PROVE  answer[k].peer \in PeersOf(t[own])
  <2> DEFINE o == Others(t[own], id)
  <2>1. own \in 1..L /\ 1 \in 1..L
    BY <1>1
  <2>2. seqs[1] = o
    BY <1>4, <1>6, <2>1
  <2>3. /\ o \in Seq(Node) /\ Len(o) = counts[own] /\ counts[own] \in Nat
        /\ \A n \in Range(o) : n.peer \in PeersOf(t[own])
    BY <1>5, <2>1
  <2> HIDE DEF o
  <2>4. k \in 1..Len(o) /\ k \in DOMAIN o
    BY <1>12, <1>16, <2>3
  <2>5. all[k] = o[k]
    BY <1>10, <2>2, <2>4 DEF Begins
  <2>6. o[k] \in Range(o)
    BY <2>4 DEF Range
  <2> QED
    BY <1>13, <2>3, <2>5, <2>6
<1>17. /\ counts = [i \in DOMAIN t |-> Cardinality(OtherPlaces(t[i], id))]
       /\ counts[own] = Cardinality(OtherPlaces(t[own], id))
  BY <1>1 DEF counts
<1> QED
  BY <1>1, <1>13, <1>14, <1>15, <1>16, <1>17 DEF AnswerOK, answer, own

(* Whatever was added, split and evicted before, findNeighbors returns as  *)
(* many nodes as asked for if the table has them, none with the key looked *)
(* for, and those of the key's own bucket first.                           *)
THEOREM NeighborsAlwaysComplete == RtSpec => []NeighborsComplete
<1>1. RtInv => NeighborsComplete
  <2> SUFFICES ASSUME TableOK(buckets), NEW p \in Peers,
                      NEW max \in 1..(KSize * MaxBuckets + 1)
               PROVE  AnswerOK(buckets, p.id, max)
    BY DEF RtInv, NeighborsComplete, AnswerOK, OtherPlaces
  <2>1. p.id \in Key
    BY Keys
  <2>2. max \in Nat
    <3> DEFINE most == KSize * MaxBuckets
    <3>1. most \in Nat
      <4>1. KSize \in Nat /\ MaxBuckets \in Nat
        BY Keys
      <4> QED
        BY <4>1
    <3> HIDE DEF most
    <3>2. max \in 1..(most + 1)
      BY DEF most
    <3> QED
      BY <3>1, <3>2
  <2> QED
    BY <2>1, <2>2, AnswerIsComplete
<1> QED
  BY <1>1, RtInvHolds, PTL

=============================================================================
