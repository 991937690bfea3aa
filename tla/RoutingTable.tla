---------------------------- MODULE RoutingTable ----------------------------
(***************************************************************************)
(* The Kademlia table of a merger (plugins/net_plugin/kademlia) and its    *)
(* refresh every CONNECTION_CHECK_PERIOD (net_plugin.cpp): which peers it  *)
(* knows, how a full bucket splits, and how peers that no longer answer    *)
(* leave it.  Peers are added by the refresh on the io thread, by FindNode *)
(* requests there, and by the tracker's list on the main thread.           *)
(*                                                                         *)
(* A key is a sequence of bits, the code's bit KEYSIZE_BITS - 1 first; a   *)
(* bucket's prefix is such a sequence too and its length is both           *)
(* m_prefix_size and m_depth, which grow together.  Buckets and nodes are  *)
(* counted from 1.                                                         *)
(***************************************************************************)
EXTENDS Integers, Sequences, FiniteSets, SequencesExt

CONSTANTS
    MyId,        \* the key of m_my_node
    Peers,       \* the peers there are: [id, end], a key and an endpoint
    KSize,       \* KBUCKET_SIZE
    MaxBuckets,  \* the 160 of addPeer, which is KEYSIZE_BITS
    DepthB,      \* DEPTH_B
    Alpha,       \* PARALLELISM_ALPHA, neighbours in an answer
    Stale,       \* NODE_FAILED_COMMS_BEFORE_STALE
    Flaky,       \* bound: the peers whose channel may come and go
    MaxSpare     \* bound: replacement nodes in a bucket

KeyBits == Len(MyId)
Key == [1..KeyBits -> {0, 1}]

ASSUME KeyAssumption == MyId \in Seq({0, 1}) \ {<<>>} /\ MaxBuckets = KeyBits
ASSUME PeersAssumption ==
    Flaky \subseteq Peers /\ Peers \subseteq [id : Key, end : STRING]
ASSUME SizesAssumption ==
    {KSize, Alpha, Stale} \subseteq Nat \ {0} /\ {DepthB, MaxSpare} \subseteq Nat

VARIABLES
    buckets,  \* m_buckets: each [prefix, nodes, spare]
    ready,    \* the peers whose channel is ready (isAlive)
    at,       \* the bucket refreshBuckets is at, 0 when no round is under way
    torn,     \* a split invalidated the round's iterator
    ask,      \* the nodes findNeighbors has still to ask
    found     \* the neighbours of an answer still to be added

table == <<buckets, ready>>
round == <<at, torn, ask, found>>
rtVars == <<table, round>>

PeersOf(b) == {n.peer : n \in Range(b.nodes)}
Known(t) == UNION {PeersOf(b) \cup Range(b.spare) : b \in Range(t)}
Fresh(p) == [peer |-> p, fails |-> 0]
WithinBound(t) == \A b \in Range(t) : Len(b.spare) <= MaxSpare

-----------------------------------------------------------------------------
(* canHoldNode compares the bits of the prefix with the key's.             *)
CanHold(b, id) == IsPrefix(b.prefix, id)

(* getBucketIndexFor: the first bucket that can hold the key, or the last. *)
BucketFor(t, id) ==
    LET hits == {i \in DOMAIN t : CanHold(t[i], id)}
    IN  IF hits = {} THEN Len(t) ELSE Min(hits)

(* KBucket::addNode: a known peer moves to the back with no failures, one  *)
(* that does not fit goes to the replacement nodes, however often.         *)
Holds(b, p) == p \in PeersOf(b)
Fits(b, p) == Holds(b, p) \/ Len(b.nodes) # KSize

AddNode(b, p) ==
    IF Holds(b, p)
    THEN LET j == SelectInSeq(b.nodes, LAMBDA n : n.peer = p)
         IN  [b EXCEPT !.nodes = Append(RemoveAt(@, j), Fresh(p))]
    ELSE IF Len(b.nodes) # KSize
    THEN [b EXCEPT !.nodes = Append(@, Fresh(p))]
    ELSE [b EXCEPT !.spare = Append(@, p)]

(* What is left of s when a loop goes through it and keeps the elements at *)
(* the places K.                                                           *)
Those(s, K) ==
    LET those[k \in 0..Len(s)] ==
            IF k = 0 THEN <<>>
            ELSE IF k \in K THEN Append(those[k - 1], s[k])
            ELSE those[k - 1]
    IN  those[Len(s)]

(* Mutant of Split: the nodes go to the half that cannot hold them.        *)
SplitCrossed(b) ==
    LET bit == MyId[Len(b.prefix) + 1]
        far == [b EXCEPT !.prefix = Append(@, 1 - bit)]
        half(prefix, isFar) ==
            [prefix |-> prefix, spare |-> b.spare,
             nodes |-> Those(b.nodes, {k \in DOMAIN b.nodes :
                                  CanHold(far, b.nodes[k].peer.id) # isFar})]
    IN  << half(far.prefix, TRUE), half(Append(b.prefix, bit), FALSE) >>

(* Mutant of Split: my half starts without replacement nodes.              *)
SplitForgets(b) ==
    LET bit == MyId[Len(b.prefix) + 1]
        far == [b EXCEPT !.prefix = Append(@, 1 - bit)]
        mine == [b EXCEPT !.prefix = Append(@, bit), !.spare = <<>>]
        part(c) == [c EXCEPT !.nodes = Those(@, {k \in DOMAIN @ :
                                                   CanHold(c, @[k].peer.id)})]
    IN  << part([far EXCEPT !.spare = Those(@, {k \in DOMAIN @ :
                                                  CanHold(far, @[k].id)})]),
           part(mine) >>

(* KBucket::split: first the half away from my key, then the half towards  *)
(* it; nodes and replacement nodes go to the half that can hold them.      *)
Split(b) ==
    LET bit == MyId[Len(b.prefix) + 1]
        far == [b EXCEPT !.prefix = Append(@, 1 - bit)]
        half(prefix, isFar) ==
            [prefix |-> prefix,
             nodes |-> Those(b.nodes, {k \in DOMAIN b.nodes :
                                  CanHold(far, b.nodes[k].peer.id) <=> isFar}),
             spare |-> Those(b.spare, {k \in DOMAIN b.spare :
                                  CanHold(far, b.spare[k].id) <=> isFar})]
    IN  << half(far.prefix, TRUE), half(Append(b.prefix, bit), FALSE) >>

(* Mutant of CanSplit: one bucket too many.                                *)
CanSplitLate(t, i) ==
    /\ i = Len(t) \/ (Len(t[i].prefix) < DepthB /\ Len(t[i].prefix) % DepthB # 0)
    /\ Len(t) <= MaxBuckets
    /\ ~(Len(t) > 1 /\ i = 1)

(* The last bucket, my own, splits, and so do those between; not the first.*)
CanSplit(t, i) ==
    /\ i = Len(t) \/ (Len(t[i].prefix) < DepthB /\ Len(t[i].prefix) % DepthB # 0)
    /\ Len(t) < MaxBuckets
    /\ ~(Len(t) > 1 /\ i = 1)

(* RoutingTable::addPeer of a peer other than myself.  A split makes no    *)
(* second attempt: the peer stays among the replacement nodes.             *)
WithPeer(t, p) ==
    LET i == BucketFor(t, p.id)
        b == AddNode(t[i], p)
    IN  IF Fits(t[i], p) \/ ~CanSplit(t, i)
        THEN [t EXCEPT ![i] = b]
        ELSE SubSeq(t, 1, i - 1) \o Split(b) \o SubSeq(t, i + 1, Len(t))

(* KBucket::removeNode: the youngest replacement node takes the place.     *)
Evict(b, j) ==
    IF b.spare = <<>> THEN [b EXCEPT !.nodes = RemoveAt(@, j)]
    ELSE [b EXCEPT !.nodes = Append(RemoveAt(@, j), Fresh(Last(b.spare))),
                   !.spare = Front(b.spare)]

(* peerTimedOut: one more failure for the first node with the peer's key,  *)
(* from the last bucket, or its eviction if it is stale.                   *)
TimedOut(t, p) ==
    LET with(i) == {j \in DOMAIN t[i].nodes : t[i].nodes[j].peer.id = p.id}
        hits == {i \in DOMAIN t : with(i) # {}}
        i == Max(hits)
        j == Min(with(i))
    IN  IF hits = {} THEN t
        ELSE IF t[i].nodes[j].fails = Stale
        THEN [t EXCEPT ![i] = Evict(@, j)]
        ELSE [t EXCEPT ![i].nodes[j].fails = @ + 1]

(* Mutant of WithoutDead: the first node of a bucket is always kept.       *)
WithoutLaterDead(b) ==
    [b EXCEPT !.nodes = Those(@, {k \in DOMAIN @ : k = 1
                                                    \/ @[k].peer \in ready})]

(* removeDeadNodes, which promotes no replacement node.                    *)
WithoutDead(b) ==
    [b EXCEPT !.nodes = Those(@, {k \in DOMAIN @ : @[k].peer \in ready})]

-----------------------------------------------------------------------------
(* Mutant of Walk: the right hand side is forgotten once the left is done. *)
WalkLeft(t, b) ==
    LET step[n \in 0..(2 * Len(t))] ==
            IF n = 0 THEN [seen |-> <<b>>, left |-> b]
            ELSE LET s == step[n - 1]
                 IN  IF s.left = 1 THEN s
                     ELSE [seen |-> Append(s.seen, s.left - 1),
                           left |-> s.left - 1]
    IN  step[2 * Len(t)].seen

(* The buckets findNeighbors goes through from bucket b on: one to the     *)
(* left, one to the right, and what is left of the longer side.            *)
Walk(t, b) ==
    LET step[n \in 0..(2 * Len(t))] ==
            IF n = 0
            THEN [seen |-> <<b>>, left |-> b, right |-> b + 1, useLeft |-> TRUE]
            ELSE LET s == step[n - 1]
                     useLeft == s.useLeft \/ s.right = Len(t) + 1
                 IN  IF s.left # 1 /\ useLeft
                     THEN [s EXCEPT !.seen = Append(@, s.left - 1),
                                    !.left = @ - 1, !.useLeft = FALSE]
                     ELSE IF s.right # Len(t) + 1
                     THEN [s EXCEPT !.seen = Append(@, s.right),
                                    !.right = @ + 1, !.useLeft = TRUE]
                     ELSE s
    IN  step[2 * Len(t)].seen

(* RoutingTable::findNeighbors.                                            *)
FindNeighbors(t, id, max) ==
    LET bucket(i) == Those(t[i].nodes, {j \in DOMAIN t[i].nodes :
                                            t[i].nodes[j].peer.id # id})
        walk == Walk(t, BucketFor(t, id))
        all == FlattenSeq([k \in DOMAIN walk |-> bucket(walk[k])])
    IN  SubSeq(all, 1, Min({max, Len(all)}))

-----------------------------------------------------------------------------
RtInit ==
    /\ buckets = << [prefix |-> <<>>, nodes |-> <<>>, spare |-> <<>>] >>
    /\ ready = Peers
    /\ at = 0 /\ torn = FALSE /\ ask = <<>> /\ found = <<>>

(* Inserting into the deque invalidates the iterator of a round.           *)
Add(p) ==
    /\ buckets' = WithPeer(buckets, p)
    /\ WithinBound(buckets')
    /\ torn' = (torn \/ (at > 0 /\ Len(buckets') # Len(buckets)))
    /\ UNCHANGED ready

(* A peer of the tracker's list, or the sender of a FindNode request.      *)
Announce(p) == Add(p) /\ UNCHANGED <<at, ask, found>>

(* gRPC: a channel becomes ready or is lost.                               *)
ChannelChanges(p) ==
    /\ ready' = IF p \in ready THEN ready \ {p} ELSE ready \cup {p}
    /\ UNCHANGED <<buckets, round>>

(* The timer fires: refreshBuckets.                                        *)
StartRound ==
    /\ at = 0
    /\ at' = 1 /\ torn' = FALSE
    /\ UNCHANGED <<table, ask, found>>

(* The next bucket loses its dead nodes and the others are to be asked.    *)
(* The iterator of a torn round has skipped any number of buckets.         *)
RefreshBucket ==
    /\ at > 0 /\ ask = <<>> /\ found = <<>>
    /\ \E i \in DOMAIN buckets :
          /\ i = at \/ (torn /\ i > at)
          /\ buckets' = [buckets EXCEPT ![i] = WithoutDead(@)]
          /\ ask' = [j \in DOMAIN buckets'[i].nodes |-> buckets'[i].nodes[j].peer]
          /\ at' = i + 1
    /\ UNCHANGED <<ready, torn, found>>

EndRound ==
    /\ at > 0 /\ ask = <<>> /\ found = <<>>
    /\ torn \/ at > Len(buckets)
    /\ at' = 0
    /\ UNCHANGED <<table, torn, ask, found>>

(* findNeighbors: the next node answers, or the deadline passes.           *)
Answers ==
    /\ ask # <<>> /\ found = <<>>
    /\ Head(ask) \in ready
    /\ ask' = Tail(ask)
    /\ \E n \in 0..Alpha : found' \in [1..n -> Peers]
    /\ UNCHANGED <<table, at, torn>>

TimesOut ==
    /\ ask # <<>> /\ found = <<>>
    /\ ask' = Tail(ask)
    /\ buckets' = TimedOut(buckets, Head(ask))
    /\ UNCHANGED <<ready, at, torn, found>>

(* A neighbour of the answer is added.  At the bound MaxSpare the answer   *)
(* is taken not to have named it.                                          *)
AddNeighbor ==
    /\ found # <<>>
    /\ found' = Tail(found)
    /\ \/ Add(Head(found))
       \/ /\ ~WithinBound(WithPeer(buckets, Head(found)))
          /\ UNCHANGED <<table, torn>>
    /\ UNCHANGED <<at, ask>>

RoundStep ==
    \/ StartRound \/ RefreshBucket \/ EndRound
    \/ Answers \/ TimesOut \/ AddNeighbor

RtNext ==
    \/ RoundStep
    \/ \E p \in Peers : Announce(p)
    \/ \E p \in Flaky : ChannelChanges(p)

(* The timer is set again after every round and every request of a round   *)
(* has a deadline: the round goes on.                                      *)
RtSpec == RtInit /\ [][RtNext]_rtVars /\ WF_rtVars(RoundStep)

-----------------------------------------------------------------------------
Bucket ==
    [prefix : Seq({0, 1}), nodes : Seq([peer : Peers, fails : 0..Stale]),
     spare : Seq(Peers)]

(* Buckets are never over their size, and no node has more failures than   *)
(* make it stale: isStale compares for equality.                           *)
RtTypeOK ==
    /\ buckets \in Seq(Bucket) /\ buckets # <<>>
    /\ \A i \in DOMAIN buckets : Len(buckets[i].nodes) <= KSize
    /\ ready \subseteq Peers
    /\ at \in 0..(MaxBuckets + 1) /\ torn \in BOOLEAN
    /\ ask \in Seq(Peers) /\ found \in Seq(Peers)

(* Every key has exactly one bucket, mine is the last, and no prefix is as *)
(* long as a key: split and canHoldNode would go past its lowest bit.      *)
OneBucketPerKey ==
    /\ \A id \in Key : \E i \in DOMAIN buckets :
          {i} = {j \in DOMAIN buckets : CanHold(buckets[j], id)}
    /\ CanHold(Last(buckets), MyId)
    /\ \A i \in DOMAIN buckets : Len(buckets[i].prefix) < KeyBits

(* Every node and replacement node is in the bucket its key is looked up   *)
(* in: findNode and the eviction find a peer whatever was split meanwhile. *)
PeersInTheirBucket ==
    \A i \in DOMAIN buckets :
        \A p \in PeersOf(buckets[i]) \cup Range(buckets[i].spare) :
            BucketFor(buckets, p.id) = i

(* findNeighbors returns as many nodes as asked for, if the table has them,*)
(* without the one looked for, and those of its own bucket first.          *)
NeighborsComplete ==
    \A id \in {p.id : p \in Peers} :
        LET others(i) == Cardinality({j \in DOMAIN buckets[i].nodes :
                                         buckets[i].nodes[j].peer.id # id})
            total == SumFunctionOnSet([i \in DOMAIN buckets |-> others(i)],
                                      DOMAIN buckets)
            own == BucketFor(buckets, id)
        IN  \A max \in 1..(KSize * MaxBuckets + 1) :
                LET answer == FindNeighbors(buckets, id, max)
                IN  /\ Len(answer) = Min({max, total})
                    /\ \A k \in DOMAIN answer : answer[k].peer.id # id
                    /\ \A k \in DOMAIN answer :
                          k <= others(own) =>
                              answer[k].peer \in PeersOf(buckets[own])

(* The table forgets a peer only because its channel is down or because a  *)
(* request to its key timed out: no add and no split loses one.            *)
OnlyFailuresRemovePeers ==
    [][\A p \in Known(buckets) \ Known(buckets') :
           p \notin ready \/ (ask # <<>> /\ Head(ask).id = p.id)]_rtVars

(* A peer that stays down does not stay among the nodes for ever, however  *)
(* often others name it.                                                   *)
DeadPeersLeave ==
    \A p \in Flaky :
        <>[](p \notin ready) =>
            []<>(p \notin UNION {PeersOf(b) : b \in Range(buckets)})

=============================================================================
