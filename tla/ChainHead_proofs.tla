-------------------------- MODULE ChainHead_proofs --------------------------
(***************************************************************************)
(* What ChainHead promises for any blocks, any seeds and any confirm       *)
(* level, whatever the undefined reads return.                             *)
(*                                                                         *)
(* The entry the timer writes back may have an old link, so the pool's     *)
(* links are not exact here.  They are (Links) for the blocks that were    *)
(* picked without a guess, because a link that was there when the entry    *)
(* was copied is the same until the entry is in bin 1.                     *)
(***************************************************************************)
EXTENDS ChainHead, UnresolvedBlockPool_proofs

PoolBase(p, c) == p \in Pools /\ c \in Tips /\ ByHeight(p, c)

(* Entries keep their index and move down s bins; the new ones are in bins *)
(* that are there, and what is processed stays so.                         *)
Kept(p, q, s) ==
    \A i \in DOMAIN p : i - s >= 1 =>
        /\ i - s \in DOMAIN q
        /\ \A j \in DOMAIN p[i] :
              /\ j \in DOMAIN q[i - s]
              /\ q[i - s][j].blk = p[i][j].blk
              /\ p[i][j].processed => q[i - s][j].processed

(* Nothing is processed in q that was not in p, apart from the blocks done.*)
ProcessedFrom(p, q, done) ==
    \A m \in DOMAIN q : \A j \in DOMAIN q[m] : q[m][j].processed =>
        \/ q[m][j].blk \in done
        \/ \E i \in DOMAIN p : \E k \in DOMAIN p[i] :
              p[i][k].blk = q[m][j].blk /\ p[i][k].processed

(* Above bin 1, the blocks not in out point at the first entry of the bin  *)
(* below with their parent's id, if there is one.                          *)
Links(p, out) ==
    \A i \in DOMAIN p \ {1} : \A j \in DOMAIN p[i] :
        p[i][j].blk.id \notin out =>
            p[i][j].prev = IndexOfId(p[i - 1], p[i][j].blk.prev)

-----------------------------------------------------------------------------
LEMMA GrownBase ==
    ASSUME NEW p, NEW c, PoolBase(p, c), NEW n \in Nat, NEW out, Links(p, out)
    PROVE  LET q == Grown(p, n)
           IN  /\ PoolBase(q, c) /\ Kept(p, q, 0) /\ ProcessedFrom(p, q, {})
               /\ Links(q, out)
<1> DEFINE q == Grown(p, n)
<1>1. /\ p \in Pools /\ c \in Tips /\ ByHeight(p, c)
      /\ Len(p) \in Nat /\ DOMAIN p = 1..Len(p)
  BY BinsOfPool DEF PoolBase
<1>2. q \in Pools /\ DOMAIN q = 1..Len(q) /\ Len(q) \in Nat
  BY <1>1, GrownPool, BinsOfPool
<1>3. /\ DOMAIN p \subseteq DOMAIN q
      /\ \A i \in DOMAIN p : q[i] = p[i]
      /\ \A i \in DOMAIN q \ DOMAIN p : q[i] = <<>>
  BY <1>1, GrownEntries
<1> HIDE DEF q
<1>4. \A i \in DOMAIN q : \A j \in DOMAIN q[i] : i \in DOMAIN p /\ q[i] = p[i]
  <2>1. DOMAIN <<>> = {}
    OBVIOUS
  <2> QED BY <1>3, <2>1
<1>5. ByHeight(q, c)
  BY <1>1, <1>4 DEF ByHeight
<1>6. Kept(p, q, 0)
  <2> SUFFICES ASSUME NEW i \in DOMAIN p
               PROVE  i - 0 \in DOMAIN q /\ q[i - 0] = p[i]
    BY DEF Kept
  <2>1. i - 0 = i
    BY <1>1
  <2> QED BY <1>3, <2>1
<1>7. ProcessedFrom(p, q, {})
  BY <1>4 DEF ProcessedFrom
<1>8. Links(q, out)
  <2> SUFFICES ASSUME NEW i \in DOMAIN q \ {1}, NEW j \in DOMAIN q[i],
                      q[i][j].blk.id \notin out
               PROVE  q[i][j].prev = IndexOfId(q[i - 1], q[i][j].blk.prev)
    BY DEF Links
  <2>1. i \in DOMAIN p \ {1} /\ q[i] = p[i]
    BY <1>4
  <2>2. i - 1 \in DOMAIN p
    BY <1>1, <2>1
  <2> QED BY <1>3, <2>1, <2>2 DEF Links
<1> QED BY <1>1, <1>2, <1>5, <1>6, <1>7, <1>8 DEF PoolBase, q

LEMMA InsertedBase ==
    ASSUME NEW p, NEW c, PoolBase(p, c), NEW b \in Blocks,
           BinOf(c, b) \in 1..Len(p), NEW out, Links(p, out)
    PROVE  LET q == Inserted(p, c, b)
           IN  /\ PoolBase(q, c) /\ Kept(p, q, 0) /\ ProcessedFrom(p, q, {})
               /\ Links(q, out)
<1> DEFINE q == Inserted(p, c, b)
           n == BinOf(c, b)
           e == [blk |-> b, prev |-> ParentIndex(p, c, b), processed |-> FALSE]
<1>1. /\ p \in Pools /\ c \in Tips /\ ByHeight(p, c)
      /\ Len(p) \in Nat /\ DOMAIN p = 1..Len(p)
      /\ \A i \in DOMAIN p : p[i] \in Bin /\ Len(p[i]) \in Nat
                             /\ DOMAIN p[i] = 1..Len(p[i])
                             /\ \A j \in DOMAIN p[i] : p[i][j] \in Entry
  BY BinsOfPool DEF PoolBase
<1>2. n \in DOMAIN p /\ n \in Nat
  BY <1>1
<1>3. /\ q \in Pools /\ Len(q) = Len(p) /\ e \in Entry
      /\ q[n] = Append(p[n], e)
      /\ n + 1 \in 1..Len(p) => q[n + 1] = Adopt(p[n + 1], b.id, Len(p[n]) + 1)
      /\ \A i \in 1..Len(p) : i # n /\ i # n + 1 => q[i] = p[i]
  BY <1>1, InsertedPool
<1>4. /\ DOMAIN q = DOMAIN p
      /\ \A i \in DOMAIN p : \A j \in DOMAIN p[i] :
            j \in DOMAIN q[i] /\ SameEntry(p[i][j], q[i][j])
      /\ \A i \in DOMAIN q : \A j \in DOMAIN q[i] \ DOMAIN p[i] :
            i = n /\ q[i][j].blk = b /\ ~q[i][j].processed
  BY <1>1, InsertedEntries
<1>5. b.height = c.height + n
  BY BlockFields DEF BinOf, PoolBase, Tips
<1>6. e.blk = b /\ e.prev = ParentIndex(p, c, b)
  OBVIOUS
<1> HIDE DEF q, n, e
<1>7. PoolBase(q, c)
  <2> SUFFICES ASSUME NEW i \in DOMAIN q, NEW j \in DOMAIN q[i]
               PROVE  q[i][j].blk.height = c.height + i
    BY <1>1, <1>3 DEF PoolBase, ByHeight
  <2>1. CASE j \in DOMAIN p[i]
    BY <1>1, <1>4, <2>1 DEF ByHeight, SameEntry
  <2>2. CASE j \notin DOMAIN p[i]
    BY <1>4, <1>5, <2>2
  <2> QED BY <2>1, <2>2
<1>8. Kept(p, q, 0)
  <2> SUFFICES ASSUME NEW i \in DOMAIN p
               PROVE  /\ i - 0 \in DOMAIN q
                      /\ \A j \in DOMAIN p[i] :
                            /\ j \in DOMAIN q[i - 0]
                            /\ SameEntry(p[i][j], q[i - 0][j])
    BY DEF Kept, SameEntry
  <2>1. i - 0 = i
    BY <1>1
  <2> QED BY <1>4, <2>1
<1>9. ProcessedFrom(p, q, {})
  <2> SUFFICES ASSUME NEW i \in DOMAIN q, NEW j \in DOMAIN q[i],
                      q[i][j].processed
               PROVE  /\ i \in DOMAIN p /\ j \in DOMAIN p[i]
                      /\ p[i][j].blk = q[i][j].blk /\ p[i][j].processed
    BY DEF ProcessedFrom
  <2> QED BY <1>4 DEF SameEntry
<1>10. Links(q, out)
  <2> SUFFICES ASSUME NEW i \in DOMAIN q \ {1}, NEW j \in DOMAIN q[i],
                      q[i][j].blk.id \notin out
               PROVE  q[i][j].prev = IndexOfId(q[i - 1], q[i][j].blk.prev)
    BY DEF Links
  <2>1. i \in DOMAIN p /\ i \in 1..Len(p) /\ i - 1 \in DOMAIN p /\ i - 1 \in 1..Len(p)
    BY <1>1, <1>4
  <2>2. ASSUME j \in DOMAIN p[i]
        PROVE  /\ q[i][j].blk = p[i][j].blk
               /\ p[i][j].prev = IndexOfId(p[i - 1], q[i][j].blk.prev)
    BY <1>4, <2>1, <2>2 DEF Links, SameEntry
  <2>3. CASE i # n /\ i # n + 1
    <3>1. q[i] = p[i]
      BY <1>3, <2>1, <2>3
    <3>2. i - 1 # n
      BY <1>2, <2>1, <2>3
    <3>3. CASE i - 1 = n + 1
      <4>1. q[i - 1] = Adopt(p[i - 1], b.id, Len(p[n]) + 1)
        BY <1>3, <2>1, <3>3
      <4>2. p[i - 1] \in Bin /\ Len(p[n]) + 1 \in Nat
        BY <1>1, <1>2, <2>1
      <4>3. IndexOfId(q[i - 1], q[i][j].blk.prev) = IndexOfId(p[i - 1], q[i][j].blk.prev)
        BY <4>1, <4>2, AdoptedBin, IndexDependsOnIds
      <4> QED BY <2>2, <3>1, <4>3
    <3>4. CASE i - 1 # n + 1
      BY <1>3, <2>1, <2>2, <3>1, <3>2, <3>4
    <3> QED BY <3>3, <3>4
  <2>4. CASE i = n
    <3>1. q[i - 1] = p[i - 1]
      BY <1>2, <1>3, <2>1, <2>4
    <3>2. CASE j \in DOMAIN p[i]
      <4>1. q[i][j] = p[i][j]
        BY <1>1, <1>2, <1>3, <2>4, <3>2, AppendedBin
      <4> QED BY <2>2, <3>1, <3>2, <4>1
    <3>3. CASE j \notin DOMAIN p[i]
      <4>1. q[i][j] = e
        <5>0. q[n] \in Bin
          BY <1>2, <1>3, <1>4, BinsOfPool
        <5>1. /\ Len(q[n]) = Len(p[n]) + 1 /\ q[n][Len(p[n]) + 1] = e
              /\ q[n] \in Bin
          BY <1>1, <1>2, <1>3, <5>0, AppendedBin
        <5>2. DOMAIN q[n] = 1..(Len(p[n]) + 1) /\ DOMAIN p[n] = 1..Len(p[n])
              /\ Len(p[n]) \in Nat
          BY <1>1, <1>2, <5>1 DEF Bin
        <5> QED BY <2>4, <3>3, <5>1, <5>2
      <4>2. ParentIndex(p, c, b) = IndexOfId(p[i - 1], b.prev)
        BY <2>4 DEF ParentIndex, n
      <4> QED BY <1>6, <3>1, <4>1, <4>2
    <3> QED BY <3>2, <3>3
  <2>5. CASE i = n + 1
    <3> DEFINE k == Len(p[n]) + 1
               old == p[i][j]
    <3>1. i - 1 = n /\ p[n] \in Bin /\ k \in Nat /\ k # 0 /\ p[i] \in Bin
      BY <1>1, <1>2, <2>1, <2>5
    <3>2. q[i] = Adopt(p[i], b.id, k) /\ q[i - 1] = Append(p[n], e)
      BY <1>3, <2>1, <2>5, <3>1
    <3>3. j \in DOMAIN p[i] /\ j \in 1..Len(p[i])
      BY <1>1, <1>2, <1>4, <2>1, <2>5
    <3>4. /\ q[i][j].blk = old.blk
          /\ q[i][j].prev = IF old.blk.prev = b.id /\ old.prev = 0
                            THEN k ELSE old.prev
      BY <3>1, <3>2, <3>3, AdoptedBin
    <3>5. old.prev = IndexOfId(p[n], old.blk.prev)
      BY <2>2, <3>1, <3>3, <3>4
    <3>6. IndexOfId(q[i - 1], old.blk.prev) =
             IF old.prev = 0 /\ b.id = old.blk.prev THEN k ELSE old.prev
      BY <1>3, <1>6, <3>1, <3>2, <3>5, IndexAfterAppend
    <3> HIDE DEF k, old
    <3> QED BY <3>4, <3>6
  <2> QED BY <2>3, <2>4, <2>5
<1> QED BY <1>7, <1>8, <1>9, <1>10 DEF q

LEMMA PoppedBase ==
    ASSUME NEW p, NEW c, PoolBase(p, c), Len(p) >= 2, NEW w \in DOMAIN p[1],
           NEW out, Links(p, out)
    PROVE  LET q == Popped(p, w)
               d == ConfirmedBy(p, c, w)
           IN  /\ PoolBase(q, d) /\ Kept(p, q, 1) /\ ProcessedFrom(p, q, {})
               /\ Links(q, out) /\ d.height = c.height + 1
<1> DEFINE q == Popped(p, w)
           d == ConfirmedBy(p, c, w)
<1>1. /\ p \in Pools /\ c \in Tips /\ ByHeight(p, c)
      /\ Len(p) \in Nat /\ DOMAIN p = 1..Len(p)
      /\ \A i \in DOMAIN p : p[i] \in Bin /\ Len(p[i]) \in Nat
                             /\ DOMAIN p[i] = 1..Len(p[i])
                             /\ \A j \in DOMAIN p[i] : p[i][j] \in Entry
  BY BinsOfPool DEF PoolBase
<1>2. 1 \in DOMAIN p /\ w \in 1..Len(p[1])
  BY <1>1
<1>3. p[1][w].blk \in Blocks /\ p[1][w].blk.height = c.height + 1
  <2>1. p[1][w] \in Entry
    BY <1>1, <1>2
  <2> QED BY <1>1, <1>2, <2>1 DEF Entry, ByHeight
<1>4. d \in Tips /\ d.height = c.height + 1 /\ c.height \in Nat
  <2>1. c.id \in BlockIds /\ c.height \in Nat
    BY <1>1 DEF Tips
  <2>2. p[1][w].blk.height \in Nat /\ p[1][w].blk.id \in BlockIds
    BY <1>3, BlockFields
  <2> QED BY <1>3, <2>1, <2>2 DEF ConfirmedBy, Tips
<1>5. /\ q \in Pools /\ Len(q) = Len(p) - 1
      /\ q[1] = Relinked(p[2], p[1][w].blk.id)
      /\ \A i \in 2..Len(q) : q[i] = p[i + 1]
  BY <1>1, <1>2, PoppedPool
<1>6. /\ DOMAIN q = 1..(Len(p) - 1)
      /\ \A i \in DOMAIN q :
            /\ i + 1 \in DOMAIN p
            /\ DOMAIN q[i] = DOMAIN p[i + 1]
            /\ \A j \in DOMAIN q[i] : SameEntry(p[i + 1][j], q[i][j])
  BY <1>1, <1>2, PoppedEntries
<1> HIDE DEF q, d
<1>7. PoolBase(q, d)
  <2> SUFFICES ASSUME NEW i \in DOMAIN q, NEW j \in DOMAIN q[i]
               PROVE  q[i][j].blk.height = d.height + i
    BY <1>4, <1>5 DEF PoolBase, ByHeight
  <2> DEFINE x == c.height
             y == d.height
             z == q[i][j].blk.height
  <2>1. z = x + (i + 1)
    BY <1>1, <1>6 DEF ByHeight, SameEntry
  <2>2. i \in Nat
    BY <1>1, <1>6
  <2>3. x \in Nat /\ y = x + 1
    BY <1>4
  <2> HIDE DEF x, y, z
  <2>4. z = y + i
    BY <2>1, <2>2, <2>3
  <2> QED BY <2>4 DEF y, z
<1>8. Kept(p, q, 1)
  <2> SUFFICES ASSUME NEW i \in DOMAIN p, i - 1 >= 1
               PROVE  /\ i - 1 \in DOMAIN q
                      /\ \A j \in DOMAIN p[i] :
                            /\ j \in DOMAIN q[i - 1]
                            /\ SameEntry(p[i][j], q[i - 1][j])
    BY DEF Kept, SameEntry
  <2>1. i - 1 \in DOMAIN q /\ (i - 1) + 1 = i
    BY <1>1, <1>6
  <2> QED BY <1>6, <2>1
<1>9. ProcessedFrom(p, q, {})
  <2> SUFFICES ASSUME NEW i \in DOMAIN q, NEW j \in DOMAIN q[i],
                      q[i][j].processed
               PROVE  /\ i + 1 \in DOMAIN p /\ j \in DOMAIN p[i + 1]
                      /\ p[i + 1][j].blk = q[i][j].blk /\ p[i + 1][j].processed
    BY DEF ProcessedFrom
  <2> QED BY <1>6 DEF SameEntry
<1>10. Links(q, out)
  <2> SUFFICES ASSUME NEW i \in DOMAIN q \ {1}, NEW j \in DOMAIN q[i],
                      q[i][j].blk.id \notin out
               PROVE  q[i][j].prev = IndexOfId(q[i - 1], q[i][j].blk.prev)
    BY DEF Links
  <2>1. /\ i \in 2..Len(q) /\ i + 1 \in DOMAIN p \ {1} /\ i \in DOMAIN p
        /\ (i + 1) - 1 = i
    BY <1>1, <1>5, <1>6
  <2>2. q[i] = p[i + 1]
    BY <1>5, <2>1
  <2>3. q[i][j].prev = IndexOfId(p[i], q[i][j].blk.prev)
    BY <2>1, <2>2 DEF Links
  <2>4. CASE i = 2
    <3>1. q[i - 1] = Relinked(p[i], p[1][w].blk.id) /\ p[i] \in Bin
      BY <1>1, <1>5, <2>1, <2>4
    <3>2. IndexOfId(q[i - 1], q[i][j].blk.prev) = IndexOfId(p[i], q[i][j].blk.prev)
      BY <3>1, RelinkedBin, IndexDependsOnIds
    <3> QED BY <2>3, <3>2
  <2>5. CASE i # 2
    <3>1. i - 1 \in 2..Len(q) /\ (i - 1) + 1 = i
      BY <1>1, <1>5, <2>1, <2>5
    <3> QED BY <1>5, <2>3, <3>1
  <2> QED BY <2>4, <2>5
<1> QED BY <1>4, <1>7, <1>8, <1>9, <1>10 DEF q, d

-----------------------------------------------------------------------------
(* The block's parent is in the bin below and processed, unless the block  *)
(* is in bin 1 or out of the pool.                                         *)
ParentDone(p, c, b) ==
    LET bin == BinOf(c, b)
        k == IndexOfId(p[bin - 1], b.prev)
    IN  bin >= 2 => bin - 1 \in DOMAIN p /\ k # 0 /\ p[bin - 1][k].processed

ParentsFirst(p, c, out) ==
    \A i \in DOMAIN p : \A j \in DOMAIN p[i] :
        p[i][j].processed /\ p[i][j].blk.id \notin out =>
            ParentDone(p, c, p[i][j].blk)

(* The block that procBlock works on, and the entry processTxResult has    *)
(* copied, with its index.                                                 *)
PickedIn(p, c, out, b) ==
    /\ b \in Blocks
    /\ BinOf(c, b) >= 1 =>
          BinOf(c, b) \in DOMAIN p /\ IndexOfId(p[BinOf(c, b)], b.id) # 0
    /\ b.id \notin out => ParentDone(p, c, b)

CopiedFrom(p, c, out, e, vec) ==
    LET bin == BinOf(c, e.blk)
    IN  /\ e \in Entry /\ vec \in Nat \ {0}
        /\ bin >= 1 =>
              bin \in DOMAIN p /\ vec \in DOMAIN p[bin] /\ p[bin][vec].blk = e.blk
        /\ e.blk.id \notin out =>
              /\ ParentDone(p, c, e.blk)
              /\ bin >= 2 => e.prev = IndexOfId(p[bin - 1], e.blk.prev)

JobIn(p, c, out, j) ==
    \/ j = Idle
    \/ j.at = "procBlock" /\ PickedIn(p, c, out, j.blk)
    \/ j.at = "results" /\ CopiedFrom(p, c, out, j.entry, j.vec)

(* The bins of two pools, one of which is kept in the other.               *)
Moved(p, c, q, d) ==
    /\ PoolBase(p, c) /\ PoolBase(q, d)
    /\ d.height - c.height \in Nat
    /\ Kept(p, q, d.height - c.height)

LEMMA BinsMove ==
    ASSUME NEW p, NEW c, NEW q, NEW d, Moved(p, c, q, d), NEW b \in Blocks
    PROVE  /\ BinOf(c, b) \in Int
           /\ BinOf(d, b) = BinOf(c, b) - (d.height - c.height)
           /\ BinOf(d, b) <= BinOf(c, b)
<1>1. c.height \in Nat /\ d.height \in Nat
  BY DEF Moved, PoolBase, Tips
<1> QED BY <1>1, BlockFields DEF BinOf, Moved

LEMMA FirstKept ==
    ASSUME NEW p \in Pools, NEW q \in Pools, NEW s \in Nat, Kept(p, q, s),
           NEW i \in DOMAIN p, i - s >= 1, NEW id, IndexOfId(p[i], id) # 0
    PROVE  /\ i - s \in DOMAIN q
           /\ IndexOfId(q[i - s], id) = IndexOfId(p[i], id)
           /\ IndexOfId(p[i], id) \in DOMAIN p[i]
<1> DEFINE k == IndexOfId(p[i], id)
           m == i - s
<1>1. /\ m \in DOMAIN q
      /\ \A j \in DOMAIN p[i] : j \in DOMAIN q[m] /\ q[m][j].blk = p[i][j].blk
  BY DEF Kept
<1>2. /\ p[i] \in Bin /\ DOMAIN p[i] = 1..Len(p[i]) /\ Len(p[i]) \in Nat
      /\ q[m] \in Bin /\ DOMAIN q[m] = 1..Len(q[m]) /\ Len(q[m]) \in Nat
  BY <1>1, BinsOfPool
<1>3. FirstWithId(p[i], id, k)
  BY <1>2, IndexOfIdIsFirst
<1>4. FirstWithId(q[m], id, IndexOfId(q[m], id))
  BY <1>2, IndexOfIdIsFirst
<1>5. k # 0
  OBVIOUS
<1> HIDE DEF k, m
<1>6. k \in DOMAIN p[i] /\ k \in DOMAIN q[m]
  BY <1>1, <1>2, <1>3, <1>5 DEF FirstWithId
<1>7. FirstWithId(q[m], id, k)
  <2>1. k \in 0..Len(q[m]) /\ k \in 1..Len(p[i])
    BY <1>2, <1>6
  <2>2. \A j \in 1..Len(q[m]) : j < k => q[m][j].blk.id # id
    <3> SUFFICES ASSUME NEW j \in 1..Len(q[m]), j < k
                 PROVE  q[m][j].blk.id # id
      OBVIOUS
    <3>1. j \in 1..Len(p[i])
      BY <1>2, <2>1
    <3> QED BY <1>1, <1>2, <1>3, <3>1 DEF FirstWithId
  <2>3. q[m][k].blk.id = id
    BY <1>1, <1>2, <1>3, <1>6 DEF FirstWithId
  <2> QED BY <1>5, <2>1, <2>2, <2>3 DEF FirstWithId
<1>8. IndexOfId(q[m], id) = k
  BY <1>2, <1>4, <1>7, FirstWithIdIsUnique
<1> QED BY <1>1, <1>6, <1>8 DEF k, m

LEMMA DoneKept ==
    ASSUME NEW p, NEW c, NEW q, NEW d, Moved(p, c, q, d),
           NEW b \in Blocks, ParentDone(p, c, b)
    PROVE  ParentDone(q, d, b)
<1> SUFFICES ASSUME BinOf(d, b) >= 2
             PROVE  ParentDone(q, d, b)
  BY DEF ParentDone
<1> DEFINE s == d.height - c.height
           i == BinOf(c, b) - 1
           k == IndexOfId(p[i], b.prev)
<1>1. /\ p \in Pools /\ q \in Pools /\ s \in Nat /\ Kept(p, q, s)
      /\ i \in Int /\ i - s = BinOf(d, b) - 1 /\ i - s >= 1 /\ i >= 1
      /\ i = BinOf(c, b) - 1
  BY BinsMove DEF Moved, PoolBase
<1>2. BinOf(c, b) >= 2
  BY <1>1, BinsMove
<1>3. i \in DOMAIN p /\ k # 0 /\ p[i][k].processed
  BY <1>2 DEF ParentDone
<1> HIDE DEF s, i
<1>4. /\ i - s \in DOMAIN q /\ IndexOfId(q[i - s], b.prev) = k
      /\ k \in DOMAIN p[i]
  BY <1>1, <1>3, FirstKept
<1>5. q[i - s][k].processed
  BY <1>1, <1>3, <1>4 DEF Kept
<1> QED BY <1>1, <1>3, <1>4, <1>5 DEF ParentDone

LEMMA ParentsFirstKept ==
    ASSUME NEW p, NEW c, NEW q, NEW d, Moved(p, c, q, d),
           NEW out, ParentsFirst(p, c, out),
           NEW done \in SUBSET Blocks, ProcessedFrom(p, q, done),
           \A b \in done : b.id \notin out => ParentDone(p, c, b)
    PROVE  ParentsFirst(q, d, out)
<1> SUFFICES ASSUME NEW m \in DOMAIN q, NEW j \in DOMAIN q[m],
                    q[m][j].processed, q[m][j].blk.id \notin out
             PROVE  ParentDone(q, d, q[m][j].blk)
  BY DEF ParentsFirst
<1> DEFINE b == q[m][j].blk
<1>1. b \in Blocks
  <2>1. q[m][j] \in Entry
    BY BinsOfPool DEF Moved, PoolBase
  <2> QED BY <2>1 DEF Entry
<1>2. ParentDone(p, c, b)
  <2>1. CASE b \in done
    BY <2>1
  <2>2. CASE \E i \in DOMAIN p : \E k \in DOMAIN p[i] :
                p[i][k].blk = b /\ p[i][k].processed
    BY <2>2 DEF ParentsFirst
  <2> QED BY <2>1, <2>2 DEF ProcessedFrom
<1> QED BY <1>1, <1>2, DoneKept

LEMMA JobKept ==
    ASSUME NEW p, NEW c, NEW q, NEW d, Moved(p, c, q, d),
           NEW out, NEW j, JobIn(p, c, out, j)
    PROVE  JobIn(q, d, out, j)
<1> DEFINE s == d.height - c.height
<1>1. p \in Pools /\ q \in Pools /\ s \in Nat /\ Kept(p, q, s)
  BY DEF Moved, PoolBase
<1>2. ASSUME NEW b, PickedIn(p, c, out, b)
      PROVE  PickedIn(q, d, out, b)
  <2>1. b \in Blocks
    BY <1>2 DEF PickedIn
  <2>2. b.id \notin out => ParentDone(q, d, b)
    BY <1>2, <2>1, DoneKept DEF PickedIn
  <2>3. ASSUME BinOf(d, b) >= 1
        PROVE  BinOf(d, b) \in DOMAIN q /\ IndexOfId(q[BinOf(d, b)], b.id) # 0
    <3> DEFINE i == BinOf(c, b)
    <3>1. i \in Int /\ BinOf(d, b) = i - s /\ i >= 1
      BY <1>1, <2>1, <2>3, BinsMove
    <3>2. i \in DOMAIN p /\ IndexOfId(p[i], b.id) # 0
      BY <1>2, <3>1 DEF PickedIn
    <3> HIDE DEF i, s
    <3> QED BY <1>1, <2>3, <3>1, <3>2, FirstKept
  <2> QED BY <2>1, <2>2, <2>3 DEF PickedIn
<1>3. ASSUME NEW e, NEW vec, CopiedFrom(p, c, out, e, vec)
      PROVE  CopiedFrom(q, d, out, e, vec)
  <2> DEFINE b == e.blk
             i == BinOf(c, b)
  <2>1. e \in Entry /\ b \in Blocks /\ vec \in Nat \ {0}
    BY <1>3 DEF CopiedFrom, Entry
  <2>2. i \in Int /\ BinOf(d, b) = i - s /\ BinOf(d, b) <= i
    BY <2>1, BinsMove
  <2>3. b.id \notin out => ParentDone(q, d, b)
    BY <1>3, <2>1, DoneKept DEF CopiedFrom
  <2>4. ASSUME i - s >= 1
        PROVE  /\ i - s \in DOMAIN q /\ vec \in DOMAIN q[i - s]
               /\ q[i - s][vec].blk = b
    <3>1. i >= 1
      BY <1>1, <2>2, <2>4
    <3>2. i \in DOMAIN p /\ vec \in DOMAIN p[i] /\ p[i][vec].blk = b
      BY <1>3, <3>1 DEF CopiedFrom
    <3> HIDE DEF i, s
    <3> QED BY <1>1, <2>4, <3>2 DEF Kept
  <2>5. ASSUME b.id \notin out, i - s >= 2
        PROVE  e.prev = IndexOfId(q[(i - s) - 1], b.prev)
    <3>1. i >= 2 /\ (i - s) - 1 = (i - 1) - s /\ (i - 1) - s >= 1
      BY <1>1, <2>2, <2>5
    <3>2. /\ e.prev = IndexOfId(p[i - 1], b.prev)
          /\ i - 1 \in DOMAIN p /\ IndexOfId(p[i - 1], b.prev) # 0
      BY <1>3, <2>5, <3>1 DEF CopiedFrom, ParentDone
    <3> HIDE DEF s
    <3>3. IndexOfId(q[(i - 1) - s], b.prev) = IndexOfId(p[i - 1], b.prev)
      BY <1>1, <3>1, <3>2, FirstKept
    <3> QED BY <3>1, <3>2, <3>3
  <2> HIDE DEF i, s, b
  <2> QED BY <2>1, <2>2, <2>3, <2>4, <2>5 DEF CopiedFrom, b
<1> QED BY <1>2, <1>3 DEF JobIn

-----------------------------------------------------------------------------
(* The end of the longest chain is in the pool and no bin above it has an  *)
(* entry; while there is none, no bin has.                                 *)
EndsIn(p, c, l) ==
    LET bin == l.height - c.height
    IN  /\ bin \in DOMAIN p /\ l.vec + 1 \in DOMAIN p[bin]
        /\ p[bin][l.vec + 1].blk.id = l.id
        /\ \A i \in DOMAIN p : p[i] # <<>> => i <= bin

LongestIn(p, c, l) ==
    IF l = Nowhere THEN \A i \in DOMAIN p : p[i] = <<>>
    ELSE l \in Info /\ EndsIn(p, c, l)

LEMMA BinNotEmpty ==
    ASSUME NEW bin \in Bin, bin # <<>>
    PROVE  DOMAIN bin # {}
<1>1. bin \in Seq(Entry) /\ DOMAIN bin = 1..Len(bin) /\ Len(bin) \in Nat
  BY SeqIsFunction DEF Bin
<1>2. Len(bin) # 0
  BY <1>1
<1>3. 1 \in 1..Len(bin)
  BY <1>1, <1>2
<1> QED BY <1>1, <1>3

LEMMA LongestGrown ==
    ASSUME NEW p, NEW c, PoolBase(p, c), NEW n \in Nat, NEW l, LongestIn(p, c, l)
    PROVE  LongestIn(Grown(p, n), c, l)
<1> DEFINE q == Grown(p, n)
<1>1. /\ DOMAIN p \subseteq DOMAIN q
      /\ \A i \in DOMAIN p : q[i] = p[i]
      /\ \A i \in DOMAIN q \ DOMAIN p : q[i] = <<>>
  BY GrownEntries DEF PoolBase
<1> HIDE DEF q
<1>2. CASE l = Nowhere
  BY <1>1, <1>2 DEF LongestIn, q
<1>3. CASE l # Nowhere
  <2>1. l \in Info /\ EndsIn(p, c, l)
    BY <1>3 DEF LongestIn
  <2>2. EndsIn(q, c, l)
    BY <1>1, <2>1 DEF EndsIn
  <2> QED BY <1>3, <2>1, <2>2 DEF LongestIn, q
<1> QED BY <1>2, <1>3

LEMMA LongestInserted ==
    ASSUME NEW p, NEW c, PoolBase(p, c), NEW b \in Blocks,
           BinOf(c, b) \in 1..Len(p), NEW l, LongestIn(p, c, l)
    PROVE  LET q == Inserted(p, c, b)
           IN  LongestIn(q, c, Longer(l, q, c, b)) /\ Longer(l, q, c, b) # Nowhere
<1> DEFINE q == Inserted(p, c, b)
           n == BinOf(c, b)
           r == Longer(l, q, c, b)
<1>1. /\ p \in Pools /\ c.height \in Nat /\ b.height \in Nat
      /\ b.height = c.height + n /\ n \in Nat \ {0} /\ n \in DOMAIN p
      /\ DOMAIN p = 1..Len(p) /\ Len(p) \in Nat
      /\ DOMAIN p[n] = 1..Len(p[n]) /\ Len(p[n]) \in Nat
  BY BinsOfPool, BlockFields DEF PoolBase, Tips, BinOf
<1>2. /\ DOMAIN q = DOMAIN p
      /\ \A i \in DOMAIN p : \A j \in DOMAIN p[i] :
            j \in DOMAIN q[i] /\ SameEntry(p[i][j], q[i][j])
      /\ \A i \in DOMAIN q : \A j \in DOMAIN q[i] \ DOMAIN p[i] :
            i = n /\ q[i][j].blk = b /\ ~q[i][j].processed
      /\ DOMAIN q[n] = 1..(Len(p[n]) + 1)
      /\ q[n][Len(p[n]) + 1].blk = b
  BY InsertedEntries DEF PoolBase
<1>3. q \in Pools
  BY InsertedPool DEF PoolBase
<1>4. Len(q[n]) = Len(p[n]) + 1
  <2>1. DOMAIN q[n] = 1..Len(q[n]) /\ Len(q[n]) \in Nat
    BY <1>1, <1>2, <1>3, BinsOfPool
  <2>2. Len(p[n]) + 1 \in DOMAIN q[n]
    BY <1>1, <1>2
  <2> DEFINE x == Len(q[n])
             y == Len(p[n])
  <2>3. x \in Nat /\ y \in Nat /\ 1..x = 1..(y + 1)
    BY <1>1, <1>2, <2>1
  <2> HIDE DEF x, y
  <2>4. x = y + 1
    <3>1. y + 1 \in 1..(y + 1)
      BY <2>3
    <3>2. y + 1 \in 1..x
      BY <2>3, <3>1
    <3>3. x # 0 => x \in 1..x
      BY <2>3
    <3> QED BY <2>3, <3>2, <3>3
  <2> QED BY <2>4 DEF x, y
<1>5. \A i \in DOMAIN q : q[i] # <<>> => i = n \/ p[i] # <<>>
  <2> SUFFICES ASSUME NEW i \in DOMAIN q, q[i] # <<>>, i # n
               PROVE  p[i] # <<>>
    OBVIOUS
  <2>1. DOMAIN q[i] \subseteq DOMAIN p[i]
    BY <1>2
  <2>2. DOMAIN q[i] # {}
    <3>1. q[i] \in Bin
      BY <1>2, <1>3, BinsOfPool
    <3> QED BY <3>1, BinNotEmpty
  <2>3. DOMAIN <<>> = {}
    OBVIOUS
  <2> QED BY <2>1, <2>2, <2>3
<1>6. l \in Info /\ l.height \in Nat
  BY DEF LongestIn, Nowhere, Info
<1>7. /\ l.height < b.height => r = [id |-> b.id, height |-> b.height,
                                     deq |-> n - 1, vec |-> Len(q[n]) - 1]
      /\ ~(l.height < b.height) => r = l
  BY DEF Longer
<1> HIDE DEF q, n, r
<1>8. ASSUME l # Nowhere, NEW i \in DOMAIN p, p[i] # <<>>
      PROVE  i <= l.height - c.height
  BY <1>8 DEF LongestIn, EndsIn
<1>9. CASE l.height < b.height
  <2>1. /\ r.id = b.id /\ r.height = b.height /\ r.deq = n - 1
        /\ r.vec + 1 = Len(p[n]) + 1
    BY <1>1, <1>4, <1>7, <1>9
  <2>2. r \in Info /\ r # Nowhere
    <3>1. b.id \in BlockIds /\ n - 1 \in Int /\ Len(q[n]) - 1 \in Int /\ b.height # 0
      BY <1>1, <1>4, BlockFields
    <3>2. r.height # 0
      BY <2>1, <3>1
    <3> QED BY <1>1, <1>7, <1>9, <3>1, <3>2 DEF Info, Nowhere
  <2>3. r.height - c.height = n
    BY <1>1, <2>1
  <2>4. \A i \in DOMAIN q : q[i] # <<>> => i <= n
    <3> SUFFICES ASSUME NEW i \in DOMAIN q, q[i] # <<>>, i # n
                 PROVE  i <= n
      BY <1>1
    <3>1. i \in DOMAIN p /\ p[i] # <<>> /\ i \in Nat
      BY <1>1, <1>2, <1>5
    <3>2. l # Nowhere
      BY <3>1 DEF LongestIn
    <3>3. i <= l.height - c.height
      BY <1>8, <3>1, <3>2
    <3> QED BY <1>1, <1>6, <1>9, <3>1, <3>3
  <2>5. n \in DOMAIN q /\ r.vec + 1 \in DOMAIN q[n] /\ q[n][r.vec + 1].blk.id = r.id
    BY <1>1, <1>2, <2>1
  <2>6. EndsIn(q, c, r)
    BY <2>3, <2>4, <2>5 DEF EndsIn
  <2> QED BY <2>2, <2>6 DEF LongestIn, q, r
<1>10. CASE ~(l.height < b.height)
  <2>1. r = l /\ l # Nowhere
    <3>1. l.height # 0
      BY <1>1, <1>6, <1>10
    <3> QED BY <1>7, <1>10, <3>1 DEF Nowhere
  <2> DEFINE m == l.height - c.height
  <2>2. /\ m \in DOMAIN p /\ l.vec + 1 \in DOMAIN p[m]
        /\ p[m][l.vec + 1].blk.id = l.id
    BY <2>1 DEF LongestIn, EndsIn
  <2>3. /\ m \in DOMAIN q /\ l.vec + 1 \in DOMAIN q[m]
        /\ q[m][l.vec + 1].blk.id = l.id
    BY <1>2, <2>2 DEF SameEntry
  <2>4. n <= m
    BY <1>1, <1>6, <1>10
  <2>5. \A i \in DOMAIN q : q[i] # <<>> => i <= m
    BY <1>2, <1>5, <1>8, <2>1, <2>4
  <2>6. EndsIn(q, c, l)
    BY <2>3, <2>5 DEF EndsIn
  <2> QED BY <1>6, <2>1, <2>6 DEF LongestIn, q, r
<1> QED BY <1>9, <1>10

(* The block that is confirmed has a child, so the longest chain ends      *)
(* above it.                                                               *)
LEMMA LongestPopped ==
    ASSUME NEW p, NEW c, PoolBase(p, c), Len(p) >= 2, NEW w \in DOMAIN p[1],
           DOMAIN p[2] # {}, NEW l, l # Nowhere, LongestIn(p, c, l)
    PROVE  LongestIn(Popped(p, w), ConfirmedBy(p, c, w), l)
<1> DEFINE q == Popped(p, w)
           d == ConfirmedBy(p, c, w)
           m == l.height - c.height
<1>1. p \in Pools /\ DOMAIN p = 1..Len(p) /\ Len(p) \in Nat /\ w \in 1..Len(p[1])
  BY BinsOfPool DEF PoolBase
<1>2. /\ DOMAIN q = 1..(Len(p) - 1)
      /\ \A i \in DOMAIN q :
            /\ i + 1 \in DOMAIN p
            /\ DOMAIN q[i] = DOMAIN p[i + 1]
            /\ \A j \in DOMAIN q[i] : SameEntry(p[i + 1][j], q[i][j])
  BY <1>1, PoppedEntries
<1>3. /\ l \in Info /\ m \in DOMAIN p /\ l.vec + 1 \in DOMAIN p[m]
      /\ p[m][l.vec + 1].blk.id = l.id
      /\ \A i \in DOMAIN p : p[i] # <<>> => i <= m
  BY DEF LongestIn, EndsIn
<1>4. d.height = c.height + 1 /\ c.height \in Nat /\ l.height \in Nat
  <2>1. Links(p, {x.id : x \in Blocks} \cup BlockIds)
    <3>1. \A i \in DOMAIN p : \A j \in DOMAIN p[i] : p[i][j].blk.id \in BlockIds
      <4> SUFFICES ASSUME NEW i \in DOMAIN p, NEW j \in DOMAIN p[i]
                   PROVE  p[i][j].blk.id \in BlockIds
        OBVIOUS
      <4>1. p[i][j] \in Entry
        BY <1>1, BinsOfPool
      <4> QED BY <4>1, BlockFields DEF Entry
    <3> QED BY <3>1 DEF Links
  <2> QED BY <1>3, <2>1, PoppedBase DEF PoolBase, Tips, Info
<1> HIDE DEF q, d
<1>5. 2 <= m
  <2>1. DOMAIN <<>> = {}
    OBVIOUS
  <2>2. 2 \in DOMAIN p /\ p[2] # <<>>
    BY <1>1, <2>1
  <2> QED BY <1>3, <2>2
<1>6. l.height - d.height = m - 1 /\ m - 1 \in DOMAIN q /\ (m - 1) + 1 = m
  BY <1>1, <1>2, <1>3, <1>4, <1>5
<1>7. l.vec + 1 \in DOMAIN q[m - 1] /\ q[m - 1][l.vec + 1].blk.id = l.id
  BY <1>2, <1>3, <1>6 DEF SameEntry
<1>8. \A i \in DOMAIN q : q[i] # <<>> => i <= m - 1
  <2> SUFFICES ASSUME NEW i \in DOMAIN q, q[i] # <<>>
               PROVE  i <= m - 1
    OBVIOUS
  <2>1. i + 1 \in DOMAIN p /\ DOMAIN q[i] = DOMAIN p[i + 1] /\ i \in Nat
    BY <1>1, <1>2
  <2>2. DOMAIN q[i] # {}
    <3>1. q \in Pools
      BY <1>1, PoppedPool DEF q
    <3>2. q[i] \in Bin
      BY <3>1, BinsOfPool
    <3> QED BY <3>2, BinNotEmpty
  <2>3. DOMAIN <<>> = {}
    OBVIOUS
  <2>4. i + 1 <= m
    BY <1>3, <2>1, <2>2, <2>3
  <2> HIDE DEF m
  <2>5. m \in Int
    BY <1>1, <1>3
  <2> QED BY <2>1, <2>4, <2>5
<1>9. EndsIn(q, d, l)
  BY <1>6, <1>7, <1>8 DEF EndsIn
<1> QED BY <1>3, <1>9 DEF LongestIn, q, d

-----------------------------------------------------------------------------
(* The inductive invariant, apart from the head, on which nothing rests.   *)
Good(p, c, out, j) ==
    /\ PoolBase(p, c)
    /\ Links(p, out)
    /\ ParentsFirst(p, c, out)
    /\ JobIn(p, c, out, j)

ChainInv ==
    /\ Good(pool, confirmed, guessed, job)
    /\ LongestIn(pool, confirmed, longest)
    /\ slots = MaxSlots
    /\ seeded \in 0..Len(Seeds)
    /\ guessed \subseteq BlockIds

LEMMA GoodMoved ==
    ASSUME NEW p, NEW c, NEW out, NEW j, Good(p, c, out, j), NEW q, NEW d,
           PoolBase(q, d), d.height - c.height \in Nat,
           Kept(p, q, d.height - c.height), ProcessedFrom(p, q, {}), Links(q, out)
    PROVE  Good(q, d, out, j)
<1>1. Moved(p, c, q, d)
  BY DEF Moved, Good
<1>2. ParentsFirst(q, d, out)
  <2>1. ParentsFirst(p, c, out)
    BY DEF Good
  <2>2. {} \in SUBSET Blocks /\ \A b \in {} : b.id \notin out => ParentDone(p, c, b)
    OBVIOUS
  <2> QED BY <1>1, <2>1, <2>2, ParentsFirstKept
<1>3. JobIn(q, d, out, j)
  BY <1>1, JobKept DEF Good
<1> QED BY <1>2, <1>3 DEF Good

LEMMA GoodGrown ==
    ASSUME NEW p, NEW c, NEW out, NEW j, Good(p, c, out, j), NEW n \in Nat
    PROVE  Good(Grown(p, n), c, out, j)
<1> DEFINE q == Grown(p, n)
<1>1. PoolBase(p, c) /\ Links(p, out) /\ c.height - c.height = 0 /\ 0 \in Nat
  BY DEF Good, PoolBase, Tips
<1>2. PoolBase(q, c) /\ Kept(p, q, 0) /\ ProcessedFrom(p, q, {}) /\ Links(q, out)
  BY <1>1, GrownBase
<1> HIDE DEF q
<1>3. Good(q, c, out, j)
  BY <1>1, <1>2, GoodMoved
<1> QED BY <1>3 DEF q

LEMMA GoodInserted ==
    ASSUME NEW p, NEW c, NEW out, NEW j, Good(p, c, out, j), NEW b \in Blocks,
           BinOf(c, b) \in 1..Len(p)
    PROVE  Good(Inserted(p, c, b), c, out, j)
<1> DEFINE q == Inserted(p, c, b)
<1>1. PoolBase(p, c) /\ Links(p, out) /\ c.height - c.height = 0 /\ 0 \in Nat
  BY DEF Good, PoolBase, Tips
<1>2. PoolBase(q, c) /\ Kept(p, q, 0) /\ ProcessedFrom(p, q, {}) /\ Links(q, out)
  BY <1>1, InsertedBase
<1> HIDE DEF q
<1>3. Good(q, c, out, j)
  BY <1>1, <1>2, GoodMoved
<1> QED BY <1>3 DEF q

LEMMA GoodPopped ==
    ASSUME NEW p, NEW c, NEW out, NEW j, Good(p, c, out, j), Len(p) >= 2,
           NEW w \in DOMAIN p[1]
    PROVE  Good(Popped(p, w), ConfirmedBy(p, c, w), out, j)
<1> DEFINE q == Popped(p, w)
           d == ConfirmedBy(p, c, w)
<1>1. PoolBase(p, c) /\ Links(p, out) /\ c.height \in Nat
  BY DEF Good, PoolBase, Tips
<1>2. /\ PoolBase(q, d) /\ Kept(p, q, 1) /\ ProcessedFrom(p, q, {})
      /\ Links(q, out) /\ d.height = c.height + 1
  BY <1>1, PoppedBase
<1> HIDE DEF q, d
<1>3. d.height - c.height = 1 /\ 1 \in Nat
  BY <1>1, <1>2
<1>4. Good(q, d, out, j)
  BY <1>2, <1>3, GoodMoved
<1> QED BY <1>4 DEF q, d

(* The bin of a block that prepareDeque admits is in the pool grown for it.*)
LEMMA AdmittedBin ==
    ASSUME NEW p, NEW c, PoolBase(p, c), NEW s, NEW b \in Blocks, Admitted(c, s, b)
    PROVE  BinOf(c, b) \in Nat /\ BinOf(c, b) \in 1..Len(Grown(p, BinOf(c, b)))
<1>1. c.height \in Nat /\ b.height \in Nat /\ p \in Pools
  BY BlockFields DEF PoolBase, Tips
<1>2. BinOf(c, b) \in Nat /\ BinOf(c, b) >= 1
  BY <1>1 DEF BinOf, Admitted
<1>3. /\ Len(Grown(p, BinOf(c, b))) >= BinOf(c, b)
      /\ Len(Grown(p, BinOf(c, b))) \in Nat
  BY <1>1, <1>2, GrownPool, BinsOfPool
<1> QED BY <1>2, <1>3

LEMMA AcceptedGood ==
    ASSUME ChainInv, NEW b \in Blocks, Accepted(b)
    PROVE  LET q == WithBlock(b)
               l == Longer(longest, q, confirmed, b)
           IN  /\ Good(q, confirmed, guessed, job)
               /\ LongestIn(q, confirmed, l) /\ l # Nowhere
<1> DEFINE n == BinOf(confirmed, b)
           g == Grown(pool, n)
<1>1. Good(pool, confirmed, guessed, job) /\ PoolBase(pool, confirmed)
  BY DEF ChainInv, Good
<1>2. n \in Nat /\ n \in 1..Len(g)
  BY <1>1, AdmittedBin DEF Accepted
<1> HIDE DEF n
<1>3. Good(g, confirmed, guessed, job) /\ LongestIn(g, confirmed, longest)
  BY <1>1, <1>2, GoodGrown, LongestGrown DEF ChainInv
<1>4. WithBlock(b) = Inserted(g, confirmed, b)
  BY DEF WithBlock, n
<1>5. BinOf(confirmed, b) \in 1..Len(g)
  BY <1>2 DEF n
<1> HIDE DEF g
<1>6. PoolBase(g, confirmed)
  BY <1>3 DEF Good
<1> QED BY <1>3, <1>4, <1>5, <1>6, GoodInserted, LongestInserted

LEMMA PushBlockInv ==
    ASSUME ChainInv, NEW b \in Blocks, PushBlock(b)
    PROVE  /\ Good(pool, confirmed, guessed, job)'
           /\ LongestIn(pool, confirmed, longest)'
           /\ UNCHANGED <<slots, guessed>>
<1> DEFINE q == WithBlock(b)
           l == Longer(longest, q, confirmed, b)
<1>1. guessed' = guessed /\ job' = job /\ longest' = l
  BY DEF PushBlock
<1>2. Accepted(b) /\ slots' = slots
  BY DEF PushBlock, Push, PushAndResolve
<1>3. Good(q, confirmed, guessed, job) /\ LongestIn(q, confirmed, l) /\ l # Nowhere
  BY <1>2, AcceptedGood
<1>4. CASE Push(b)
  <2>1. pool' = q /\ confirmed' = confirmed
    BY <1>4 DEF Push
  <2> HIDE DEF q, l
  <2> QED BY <1>1, <1>2, <1>3, <2>1
<1>5. CASE PushAndResolve(b)
  <2>1. PICK w \in DOMAIN q[1] :
           /\ Resolves(q, confirmed, b, w)
           /\ pool' = Popped(q, w)
           /\ confirmed' = ConfirmedBy(q, confirmed, w)
    BY <1>5 DEF PushAndResolve
  <2>2. Len(q) >= 2 /\ DOMAIN q[2] # {}
    BY <2>1 DEF Resolves
  <2> HIDE DEF q, l
  <2>3. PoolBase(q, confirmed)
    BY <1>3 DEF Good
  <2>4. Good(Popped(q, w), ConfirmedBy(q, confirmed, w), guessed, job)
    BY <1>3, <2>2, GoodPopped
  <2>5. LongestIn(Popped(q, w), ConfirmedBy(q, confirmed, w), l)
    BY <1>3, <2>2, <2>3, LongestPopped
  <2> QED BY <1>1, <1>2, <2>1, <2>4, <2>5
<1> QED BY <1>4, <1>5 DEF PushBlock

LEMMA DropInv ==
    ASSUME ChainInv, NEW b \in Blocks, Reject(b) \/ Drop(b),
           UNCHANGED <<longest, job, guessed>>
    PROVE  /\ Good(pool, confirmed, guessed, job)'
           /\ LongestIn(pool, confirmed, longest)'
           /\ slots' = slots
<1>1. /\ Good(pool, confirmed, guessed, job) /\ PoolBase(pool, confirmed)
      /\ LongestIn(pool, confirmed, longest)
  BY DEF ChainInv, Good
<1>2. CASE Reject(b)
  BY <1>1, <1>2 DEF Reject, vars
<1>3. CASE Drop(b)
  <2> DEFINE n == BinOf(confirmed, b)
             q == Grown(pool, n)
  <2>1. n \in Nat
    BY <1>1, <1>3, AdmittedBin DEF Drop
  <2>2. pool' = q /\ confirmed' = confirmed /\ slots' = slots
    BY <1>3 DEF Drop
  <2> HIDE DEF n
  <2>3. Good(q, confirmed, guessed, job) /\ LongestIn(q, confirmed, longest)
    BY <1>1, <2>1, GoodGrown, LongestGrown
  <2> HIDE DEF q
  <2> QED BY <2>2, <2>3
<1> QED BY <1>2, <1>3

-----------------------------------------------------------------------------
(* Going down, every index is an integer, whatever is read on the way.     *)
LEMMA ReadsPrev ==
    ASSUME NEW p \in Pools, NEW o \in Outside, NEW d, NEW v
    PROVE  Read(p, o, d, v).prev \in Nat
<1>1. CASE Inside(p, d, v)
  <2>1. p[d + 1][v + 1] \in Entry
    BY <1>1, BinsOfPool DEF Inside
  <2> QED BY <1>1, <2>1 DEF Read, Entry
<1>2. CASE ~Inside(p, d, v)
  BY <1>2 DEF Read, Outside
<1> QED BY <1>1, <1>2

LEMMA DownIs ==
    ASSUME NEW p \in Pools, NEW o \in Outside, NEW d \in Int, NEW v \in Int,
           NEW n \in Nat
    PROVE  LET vec == Down(p, o, d, v, n)
           IN  /\ vec[0] = v
               /\ \A k \in 0..n : vec[k] \in Int
               /\ \A k \in 1..n : vec[k] = Read(p, o, d - k + 1, vec[k - 1]).prev - 1
<1> DEFINE Step(k, x) == Read(p, o, d - k + 1, x).prev - 1
           IsDown(f) == f = [k \in 0..n |-> IF k = 0 THEN v
                                ELSE Read(p, o, d - k + 1, f[k - 1]).prev - 1]
           vec == CHOOSE f : IsDown(f)
           G == [q \in (1..n) \X Int |-> Step(q[1], q[2])]
<1>1. Down(p, o, d, v, n) = vec
  BY DEF Down
<1>2. \A k \in 1..n : \A x \in Int : Step(k, x) \in Int /\ G[<<k, x>>] = Step(k, x)
  BY ReadsPrev
<1> HIDE DEF G
<1>3. PICK f : BuiltBy(G, n, Int, v, f)
  <2>1. StepsIn(G, n, Int)
    BY <1>2 DEF StepsIn
  <2> QED BY <2>1, Recursion
<1>4. IsDown(f)
  <2>1. /\ f \in [0..n -> Int] /\ f[0] = v
        /\ \A k \in 1..n : f[k] = G[<<k, f[k - 1]>>]
    BY <1>3 DEF BuiltBy
  <2>2. \A k \in 1..n : f[k - 1] \in Int
    BY <2>1
  <2> HIDE DEF Step
  <2>3. \A k \in 1..n : f[k] = Step(k, f[k - 1])
    BY <1>2, <2>1, <2>2
  <2>4. \A k \in 0..n : k = 0 \/ k \in 1..n
    OBVIOUS
  <2>5. \A k \in 0..n : f[k] = IF k = 0 THEN v ELSE Step(k, f[k - 1])
    BY <2>1, <2>3, <2>4
  <2> QED BY <2>1, <2>5 DEF Step
<1>5. IsDown(vec)
  BY <1>4
<1> HIDE DEF vec
<1>6. vec[0] = v /\ \A k \in 1..n : vec[k] = Step(k, vec[k - 1])
  <2>1. 0 \in 0..n /\ \A k \in 1..n : k \in 0..n /\ k # 0
    OBVIOUS
  <2> QED BY <1>5, <2>1
<1>7. \A k \in 0..n : vec[k] \in Int
  <2> DEFINE S == {k \in Nat : k <= n => vec[k] \in Int}
  <2>1. 0 \in S
    BY <1>6
  <2>2. ASSUME NEW k \in S
        PROVE  k + 1 \in S
    <3> SUFFICES ASSUME k + 1 <= n
                 PROVE  vec[k + 1] \in Int
      OBVIOUS
    <3>1. k \in Nat /\ k + 1 \in 1..n /\ (k + 1) - 1 = k /\ vec[k] \in Int
      OBVIOUS
    <3> HIDE DEF S, Step
    <3>2. vec[k + 1] = Step(k + 1, vec[k])
      BY <1>6, <3>1
    <3> QED BY <1>2, <3>1, <3>2
  <2>3. S \in SUBSET Nat
    OBVIOUS
  <2> HIDE DEF S
  <2>4. S = Nat
    BY <2>1, <2>2, <2>3, InductionOnSets
  <2> QED BY <2>4 DEF S
<1> QED BY <1>1, <1>6, <1>7

(* A block that was picked without a guess has its parent done.            *)
LEMMA PickedHasParent ==
    ASSUME NEW p, NEW c, NEW out, NEW j, Good(p, c, out, j), NEW o \in Outside,
           NEW l \in Info, NEW at, at = Lowest(p, o, l),
           Inside(p, at.deq, at.vec),
           ~Guesses(p, o, l),
           p[at.deq + 1][at.vec + 1].blk.id \notin out
    PROVE  ParentDone(p, c, p[at.deq + 1][at.vec + 1].blk)
<1> DEFINE b == p[at.deq + 1][at.vec + 1].blk
           vec == Down(p, o, l.deq, l.vec, NonNeg(l.deq))
           hits == {n \in 0..(l.deq - 1) :
                       /\ ~Read(p, o, l.deq - n, vec[n]).processed
                       /\ Read(p, o, l.deq - n - 1, vec[n + 1]).processed}
           n == Min(hits)
<1>1. p \in Pools /\ c.height \in Nat /\ ByHeight(p, c) /\ Links(p, out)
  BY DEF Good, PoolBase, Tips
<1>2. l.deq \in Int /\ l.vec \in Int /\ NonNeg(l.deq) \in Nat
  BY DEF Info, NonNeg
<1>3. \A k \in 1..NonNeg(l.deq) :
         vec[k] = Read(p, o, l.deq - k + 1, vec[k - 1]).prev - 1
  <2> DEFINE d == l.deq
             v == l.vec
             N == NonNeg(d)
             f == Down(p, o, d, v, N)
  <2>1. d \in Int /\ v \in Int /\ N \in Nat
    BY <1>2
  <2> HIDE DEF d, v, N
  <2>2. \A k \in 1..N : f[k] = Read(p, o, d - k + 1, f[k - 1]).prev - 1
    BY <1>1, <2>1, DownIs
  <2> QED BY <2>2 DEF d, v, N
<1>4. b.height = c.height + (at.deq + 1) /\ b \in Blocks /\ at.deq + 1 \in Nat
  <2>1. p[at.deq + 1][at.vec + 1] \in Entry /\ at.deq + 1 \in Nat
    BY <1>1, BinsOfPool DEF Inside
  <2> QED BY <1>1, <2>1 DEF ByHeight, Inside, Entry
<1>5. BinOf(c, b) = at.deq + 1
  BY <1>1, <1>4 DEF BinOf
<1>6. at = IF hits = {} THEN [deq |-> 0, vec |-> 0, down |-> l.deq]
           ELSE [deq |-> l.deq - n, vec |-> vec[n], down |-> n + 1]
  BY DEF Lowest
<1>7. \A k \in 0..at.down : Inside(p, l.deq - k, vec[k])
  <2>1. Guesses(p, o, l) <=>
            \E k \in 0..Lowest(p, o, l).down : ~Inside(p, l.deq - k, vec[k])
    BY ONLY DEF Guesses
  <2> HIDE DEF vec
  <2> QED BY <2>1
<1>8. hits \in SUBSET Nat
  OBVIOUS
<1>9. CASE hits = {}
  <2>1. at.deq = 0
    BY <1>6, <1>9
  <2> HIDE DEF b
  <2> QED BY <1>5, <2>1 DEF ParentDone, b
<1>10. CASE hits # {}
  <2>1. n \in hits
    BY <1>8, <1>10, MinIsLeast
  <2>2. /\ n \in 0..(l.deq - 1)
        /\ Read(p, o, l.deq - n - 1, vec[n + 1]).processed
    BY <2>1
  <2> HIDE DEF hits, n, vec
  <2>3. at.deq = l.deq - n /\ at.vec = vec[n] /\ at.down = n + 1
    <3>1. at = [deq |-> l.deq - n, vec |-> vec[n], down |-> n + 1]
      BY <1>6, <1>10
    <3> QED BY ONLY <3>1
  <2>4. /\ n + 1 \in 1..NonNeg(l.deq) /\ n + 1 \in 0..at.down
        /\ l.deq - (n + 1) = at.deq - 1 /\ l.deq - n - 1 = at.deq - 1
        /\ l.deq - (n + 1) + 1 = at.deq /\ (n + 1) - 1 = n
        /\ at.deq \in Int
    <3> DEFINE x == l.deq
               y == at.deq
    <3>1. x \in Int /\ n \in 0..(x - 1) /\ y = x - n
      BY <1>2, <2>2, <2>3
    <3>2. NonNeg(x) = x
      BY <3>1 DEF NonNeg
    <3> HIDE DEF x, y
    <3>3. /\ n + 1 \in 1..x /\ n + 1 \in 0..(n + 1)
          /\ x - (n + 1) = y - 1 /\ x - n - 1 = y - 1
          /\ x - (n + 1) + 1 = y /\ (n + 1) - 1 = n /\ y \in Int
      BY <3>1
    <3> QED BY <2>3, <3>2, <3>3 DEF x, y
  <2> DEFINE e == p[at.deq + 1][at.vec + 1]
  <2>5. vec[n + 1] = e.prev - 1 /\ e.prev \in Nat /\ e.blk = b
    <3>1. vec[n + 1] = Read(p, o, at.deq, at.vec).prev - 1
      BY <1>3, <2>3, <2>4
    <3>2. e \in Entry
      BY <1>1, BinsOfPool DEF Inside
    <3> QED BY <3>1, <3>2 DEF Read, Entry
  <2> HIDE DEF e
  <2>6. Inside(p, at.deq - 1, e.prev - 1)
    BY <1>7, <2>4, <2>5
  <2>7. (at.deq - 1) + 1 = at.deq /\ (e.prev - 1) + 1 = e.prev
    BY <2>4, <2>5
  <2>8. at.deq \in DOMAIN p /\ e.prev \in DOMAIN p[at.deq]
    BY <2>6, <2>7 DEF Inside
  <2>9. p[at.deq][e.prev].processed
    <3>1. Read(p, o, at.deq - 1, e.prev - 1).processed
      BY <2>2, <2>4, <2>5
    <3>2. Read(p, o, at.deq - 1, e.prev - 1) = p[(at.deq - 1) + 1][(e.prev - 1) + 1]
      BY <2>6 DEF Read
    <3> QED BY ONLY <2>7, <3>1, <3>2
  <2>10. at.deq >= 1 /\ e.prev # 0 /\ (at.deq + 1) - 1 = at.deq
    <3> DEFINE x == at.deq
               y == e.prev
    <3>1. x \in Int /\ x \in 1..Len(p)
      BY <1>1, <2>4, <2>8, BinsOfPool
    <3>2. y \in 1..Len(p[at.deq])
      BY <1>1, <2>8, BinsOfPool
    <3> HIDE DEF x, y
    <3>3. x >= 1 /\ (x + 1) - 1 = x
      BY <3>1
    <3>4. y # 0
      BY <3>2
    <3> QED BY <3>3, <3>4 DEF x, y
  <2>11. e.prev = IndexOfId(p[at.deq], b.prev)
    <3>1. at.deq + 1 \in DOMAIN p \ {1} /\ at.vec + 1 \in DOMAIN p[at.deq + 1]
      BY <2>4, <2>10 DEF Inside
    <3> QED BY <1>1, <2>5, <2>10, <3>1 DEF Links, e
  <2> HIDE DEF b
  <2> QED BY <1>5, <2>8, <2>9, <2>10, <2>11 DEF ParentDone, b
<1> QED BY <1>9, <1>10

-----------------------------------------------------------------------------
LEMMA MoreGuessed ==
    ASSUME NEW p, NEW c, NEW out, NEW more, Links(p, out), ParentsFirst(p, c, out)
    PROVE  Links(p, out \cup more) /\ ParentsFirst(p, c, out \cup more)
BY DEF Links, ParentsFirst

LEMMA MonitorGood ==
    ASSUME ChainInv, NEW o \in Outside, Monitor(o)
    PROVE  Good(pool, confirmed, guessed, job)' /\ guessed' \subseteq BlockIds
<1> DEFINE at == Lowest(pool, o, longest)
           bin == at.deq + 1
           b == pool[bin][at.vec + 1].blk
           more == IF Guesses(pool, o, longest) THEN {b.id} ELSE {}
<1>1. /\ PoolBase(pool, confirmed) /\ Links(pool, guessed)
      /\ ParentsFirst(pool, confirmed, guessed)
      /\ Good(pool, confirmed, guessed, job) /\ guessed \subseteq BlockIds
      /\ pool \in Pools /\ confirmed.height \in Nat /\ ByHeight(pool, confirmed)
  BY DEF ChainInv, Good, PoolBase, Tips
<1>2. longest \in Info
  <2>1. Nowhere \in Info
    BY DEF Nowhere, Info
  <2> QED BY <2>1 DEF ChainInv, LongestIn
<1>3. /\ Inside(pool, at.deq, at.vec)
      /\ job' = [at |-> "procBlock", blk |-> b]
      /\ pool' = pool /\ confirmed' = confirmed
  BY DEF Monitor, vars
<1>4. job'.at = "procBlock" /\ job'.blk = b
  BY <1>3
<1>5. guessed' = guessed \cup more
  <2>1. guessed' = guessed \cup
                     (IF Guesses(pool, o, longest) THEN {job'.blk.id} ELSE {})
    BY DEF Monitor
  <2> QED BY <1>4, <2>1
<1>6. /\ bin \in DOMAIN pool /\ at.vec + 1 \in DOMAIN pool[bin] /\ bin \in Nat
      /\ b \in Blocks /\ b.height = confirmed.height + bin
      /\ pool[bin] \in Bin /\ DOMAIN pool[bin] = 1..Len(pool[bin])
  <2>1. bin \in DOMAIN pool /\ at.vec + 1 \in DOMAIN pool[bin]
    BY <1>3 DEF Inside
  <2> HIDE DEF bin
  <2>2. pool[bin][at.vec + 1] \in Entry /\ bin \in Nat
    BY <1>1, <2>1, BinsOfPool
  <2> QED BY <1>1, <2>1, <2>2, BinsOfPool DEF ByHeight, Entry
<1>7. b.id \notin guessed' => ParentDone(pool, confirmed, b)
  <2> SUFFICES ASSUME b.id \notin guessed'
               PROVE  ParentDone(pool, confirmed, b)
    OBVIOUS
  <2>1. ~Guesses(pool, o, longest) /\ b.id \notin guessed
    BY <1>5
  <2> DEFINE x == at
  <2> HIDE DEF x
  <2>2. x = Lowest(pool, o, longest) /\ x = at
    BY DEF x
  <2>3. Inside(pool, x.deq, x.vec) /\ pool[x.deq + 1][x.vec + 1].blk = b
    BY <1>3, <2>2
  <2> HIDE DEF at, b
  <2>4. ParentDone(pool, confirmed, pool[x.deq + 1][x.vec + 1].blk)
    BY <1>1, <1>2, <2>1, <2>2, <2>3, PickedHasParent
  <2> QED BY <2>3, <2>4
<1> HIDE DEF at, bin, b, more
<1>8. BinOf(confirmed, b) = bin
  BY <1>1, <1>6 DEF BinOf
<1>9. IndexOfId(pool[bin], b.id) # 0
  <2>1. FirstWithId(pool[bin], b.id, IndexOfId(pool[bin], b.id))
    BY <1>6, IndexOfIdIsFirst
  <2>2. pool[bin][at.vec + 1].blk.id = b.id
    BY DEF b
  <2> QED BY <1>6, <2>1, <2>2 DEF FirstWithId
<1>10. PickedIn(pool, confirmed, guessed', b)
  BY <1>6, <1>7, <1>8, <1>9 DEF PickedIn
<1>11. JobIn(pool, confirmed, guessed', job')
  BY <1>4, <1>10 DEF JobIn
<1>12. Links(pool, guessed') /\ ParentsFirst(pool, confirmed, guessed')
  BY <1>1, <1>5, MoreGuessed
<1>13. guessed' \subseteq BlockIds
  <2>1. more \subseteq BlockIds
    BY <1>6, BlockFields DEF more
  <2> QED BY <1>1, <1>5, <2>1
<1> QED BY <1>1, <1>3, <1>11, <1>12, <1>13 DEF Good

(* Blocks of one id have one height and one parent: what holds of the      *)
(* block that was picked holds of the first block with its id.             *)
LEMMA SameIdSameParent ==
    ASSUME NEW p, NEW c, NEW b \in Blocks, NEW d \in Blocks, b.id = d.id
    PROVE  BinOf(c, b) = BinOf(c, d) /\ (ParentDone(p, c, b) <=> ParentDone(p, c, d))
<1>1. b.height = d.height /\ b.prev = d.prev
  BY BlocksAssumption
<1> QED BY <1>1 DEF BinOf, ParentDone

LEMMA CopyGood ==
    ASSUME ChainInv, NEW o \in Outside, CopyEntry(o)
    PROVE  Good(pool, confirmed, guessed, job)'
<1> DEFINE b == job.blk
           bin == BinOf(confirmed, b)
           vec == IndexOfId(pool[bin], b.id)
           e == pool[bin][vec]
<1>1. /\ PoolBase(pool, confirmed) /\ Links(pool, guessed)
      /\ ParentsFirst(pool, confirmed, guessed)
      /\ JobIn(pool, confirmed, guessed, job)
      /\ pool \in Pools /\ confirmed.height \in Nat
  BY DEF ChainInv, Good, PoolBase, Tips
<1>2. /\ job.at = "procBlock" /\ bin \in DOMAIN pool
      /\ job' = [at |-> "results", entry |-> e, vec |-> vec]
      /\ pool' = pool /\ confirmed' = confirmed /\ guessed' = guessed
  BY DEF CopyEntry, vars
<1>3. PickedIn(pool, confirmed, guessed, b)
  BY <1>1, <1>2 DEF JobIn, Idle
<1>4. b \in Blocks /\ bin \in Nat /\ bin >= 1 /\ vec # 0
      /\ (b.id \notin guessed => ParentDone(pool, confirmed, b))
  <2>1. bin \in Nat /\ bin >= 1
    BY <1>1, <1>2, BinsOfPool
  <2> QED BY <1>3, <2>1 DEF PickedIn
<1>5. /\ pool[bin] \in Bin /\ DOMAIN pool[bin] = 1..Len(pool[bin])
      /\ Len(pool[bin]) \in Nat
  BY <1>1, <1>2, BinsOfPool
<1>6. job'.at = "results" /\ job'.entry = e /\ job'.vec = vec
  BY <1>2
<1> HIDE DEF bin, b
<1>7. vec \in DOMAIN pool[bin] /\ vec \in Nat \ {0} /\ e.blk.id = b.id
  <2>1. FirstWithId(pool[bin], b.id, vec)
    BY <1>5, IndexOfIdIsFirst
  <2> HIDE DEF vec
  <2> QED BY <1>4, <1>5, <2>1 DEF FirstWithId
<1> HIDE DEF vec
<1>8. e \in Entry /\ e.blk \in Blocks
  <2>1. e \in Entry
    BY <1>1, <1>2, <1>7, BinsOfPool
  <2> QED BY <2>1 DEF Entry
<1> DEFINE d == e.blk
<1>9. BinOf(confirmed, d) = bin /\ (ParentDone(pool, confirmed, b) => ParentDone(pool, confirmed, d))
  BY <1>4, <1>7, <1>8, SameIdSameParent DEF bin
<1>10. bin >= 2 /\ d.id \notin guessed => e.prev = IndexOfId(pool[bin - 1], d.prev)
  <2> SUFFICES ASSUME bin >= 2, d.id \notin guessed
               PROVE  e.prev = IndexOfId(pool[bin - 1], d.prev)
    OBVIOUS
  <2>1. bin \in DOMAIN pool \ {1}
    BY <1>2
  <2> QED BY <1>1, <1>7, <2>1 DEF Links
<1>11. pool[bin][vec].blk = d
  OBVIOUS
<1>12. d.id = b.id
  BY <1>7
<1> HIDE DEF e
<1>13. CopiedFrom(pool, confirmed, guessed, e, vec)
  BY <1>2, <1>4, <1>7, <1>8, <1>9, <1>10, <1>11, <1>12 DEF CopiedFrom
<1>14. JobIn(pool, confirmed, guessed, job')
  BY <1>6, <1>13 DEF JobIn
<1> QED BY <1>1, <1>2, <1>14 DEF Good

-----------------------------------------------------------------------------
(* Putting the copied entry back.  Its link is the old one, which is right *)
(* unless the block was guessed; its block and its place are the same.     *)
LEMMA PutBackEntries ==
    ASSUME NEW p \in Pools, NEW m \in DOMAIN p, NEW k \in DOMAIN p[m],
           NEW e \in Entry, e.blk = p[m][k].blk, e.processed
    PROVE  LET q == [p EXCEPT ![m][k] = e]
           IN  /\ q \in Pools /\ DOMAIN q = DOMAIN p
               /\ \A i \in DOMAIN p : DOMAIN q[i] = DOMAIN p[i]
               /\ \A i \in DOMAIN p : \A j \in DOMAIN p[i] :
                     /\ q[i][j].blk = p[i][j].blk
                     /\ (i = m /\ j = k) => q[i][j] = e
                     /\ ~(i = m /\ j = k) => q[i][j] = p[i][j]
<1> DEFINE bin == [p[m] EXCEPT ![k] = e]
           q == [p EXCEPT ![m] = bin]
<1>1. [p EXCEPT ![m][k] = e] = q
  OBVIOUS
<1>2. p \in Seq(Bin) /\ p[m] \in Seq(Entry) /\ m \in 1..Len(p) /\ k \in 1..Len(p[m])
  BY BinsOfPool DEF Pools, Bin
<1>3. bin \in Bin /\ DOMAIN bin = DOMAIN p[m] /\ bin[k] = e
      /\ \A j \in DOMAIN p[m] : j # k => bin[j] = p[m][j]
  BY <1>2 DEF Bin
<1> HIDE DEF bin
<1>4. q \in Pools /\ DOMAIN q = DOMAIN p /\ q[m] = bin
      /\ \A i \in DOMAIN p : i # m => q[i] = p[i]
  BY <1>2, <1>3 DEF Pools
<1> HIDE DEF q
<1>5. \A i \in DOMAIN p : DOMAIN q[i] = DOMAIN p[i]
  BY <1>3, <1>4
<1>6. \A i \in DOMAIN p : \A j \in DOMAIN p[i] :
         /\ (i = m /\ j = k) => q[i][j] = e
         /\ ~(i = m /\ j = k) => q[i][j] = p[i][j]
  BY <1>3, <1>4
<1>7. \A i \in DOMAIN p : \A j \in DOMAIN p[i] : q[i][j].blk = p[i][j].blk
  BY <1>6
<1> QED BY <1>1, <1>4, <1>5, <1>6, <1>7

LEMMA PutBackGood ==
    ASSUME NEW p, NEW c, NEW out, NEW j, Good(p, c, out, j),
           NEW old, NEW vec, CopiedFrom(p, c, out, old, vec),
           BinOf(c, old.blk) >= 1, NEW e, e = [old EXCEPT !.processed = TRUE],
           NEW l, LongestIn(p, c, l)
    PROVE  LET q == [p EXCEPT ![BinOf(c, e.blk)][vec] = e]
           IN  Good(q, c, out, Idle) /\ LongestIn(q, c, l)
<1> DEFINE m == BinOf(c, e.blk)
           q == [p EXCEPT ![m][vec] = e]
           b == e.blk
<1>1. e \in Entry /\ e.blk = old.blk /\ e.prev = old.prev /\ e.processed /\ b \in Blocks
  <2>1. old \in Entry
    BY DEF CopiedFrom
  <2> QED BY <2>1 DEF Entry
<1>2. /\ p \in Pools /\ c \in Tips /\ ByHeight(p, c) /\ Links(p, out)
      /\ ParentsFirst(p, c, out) /\ PoolBase(p, c)
      /\ c.height - c.height = 0 /\ 0 \in Nat
  BY DEF Good, PoolBase, Tips
<1>3. /\ m \in DOMAIN p /\ vec \in DOMAIN p[m] /\ p[m][vec].blk = b
      /\ (b.id \notin out =>
            /\ ParentDone(p, c, b)
            /\ m >= 2 => e.prev = IndexOfId(p[m - 1], b.prev))
  BY <1>1 DEF CopiedFrom
<1> HIDE DEF m
<1>4. /\ q \in Pools /\ DOMAIN q = DOMAIN p
      /\ \A i \in DOMAIN p : DOMAIN q[i] = DOMAIN p[i]
      /\ \A i \in DOMAIN p : \A k \in DOMAIN p[i] :
            /\ q[i][k].blk = p[i][k].blk
            /\ (i = m /\ k = vec) => q[i][k] = e
            /\ ~(i = m /\ k = vec) => q[i][k] = p[i][k]
  BY <1>1, <1>2, <1>3, PutBackEntries
<1>5. DOMAIN p = 1..Len(p) /\ Len(p) \in Nat
      /\ \A i \in DOMAIN p : /\ p[i] \in Bin /\ q[i] \in Bin
                             /\ Len(p[i]) \in Nat /\ Len(q[i]) \in Nat
                             /\ DOMAIN p[i] = 1..Len(p[i])
                             /\ DOMAIN q[i] = 1..Len(q[i])
  <2>1. /\ DOMAIN p = 1..Len(p) /\ Len(p) \in Nat
        /\ \A i \in DOMAIN p : p[i] \in Bin /\ Len(p[i]) \in Nat
                               /\ DOMAIN p[i] = 1..Len(p[i])
    BY <1>2, BinsOfPool
  <2>2. \A i \in DOMAIN q : q[i] \in Bin /\ Len(q[i]) \in Nat
                             /\ DOMAIN q[i] = 1..Len(q[i])
    <3>1. q \in Pools
      BY <1>4
    <3> QED BY <3>1, BinsOfPool
  <2>3. DOMAIN q = DOMAIN p
    BY <1>4
  <2> QED BY <2>1, <2>2, <2>3
<1> HIDE DEF q
<1>6. PoolBase(q, c)
  BY <1>2, <1>4 DEF PoolBase, ByHeight
<1>7. Kept(p, q, 0)
  <2> SUFFICES ASSUME NEW i \in DOMAIN p
               PROVE  /\ i - 0 \in DOMAIN q
                      /\ \A k \in DOMAIN p[i] :
                            /\ k \in DOMAIN q[i - 0]
                            /\ q[i - 0][k].blk = p[i][k].blk
                            /\ p[i][k].processed => q[i - 0][k].processed
    BY DEF Kept
  <2>1. i - 0 = i
    BY <1>5
  <2>2. \A k \in DOMAIN p[i] : p[i][k].processed => q[i][k].processed
    BY <1>1, <1>4
  <2> QED BY <1>4, <2>1, <2>2
<1>8. ProcessedFrom(p, q, {b})
  <2> SUFFICES ASSUME NEW i \in DOMAIN q, NEW k \in DOMAIN q[i],
                      q[i][k].processed, q[i][k].blk # b
               PROVE  /\ i \in DOMAIN p /\ k \in DOMAIN p[i]
                      /\ p[i][k].blk = q[i][k].blk /\ p[i][k].processed
    BY DEF ProcessedFrom
  <2>1. i \in DOMAIN p /\ k \in DOMAIN p[i] /\ ~(i = m /\ k = vec)
    BY <1>4
  <2> QED BY <1>4, <2>1
<1>9. Links(q, out)
  <2> SUFFICES ASSUME NEW i \in DOMAIN q \ {1}, NEW k \in DOMAIN q[i],
                      q[i][k].blk.id \notin out
               PROVE  q[i][k].prev = IndexOfId(q[i - 1], q[i][k].blk.prev)
    BY DEF Links
  <2>1. i \in DOMAIN p \ {1} /\ k \in DOMAIN p[i] /\ i - 1 \in DOMAIN p /\ i >= 2
    BY <1>4, <1>5
  <2>2. IndexOfId(q[i - 1], q[i][k].blk.prev) = IndexOfId(p[i - 1], q[i][k].blk.prev)
    <3> DEFINE s == q[i - 1]
               t == p[i - 1]
    <3>1. s \in Bin /\ t \in Bin /\ DOMAIN s = DOMAIN t
          /\ \A x \in DOMAIN t : s[x].blk = t[x].blk
      BY <1>4, <1>5, <2>1
    <3>2. DOMAIN s = 1..Len(s) /\ DOMAIN t = 1..Len(t) /\ Len(s) \in Nat /\ Len(t) \in Nat
      BY <1>5, <2>1
    <3> HIDE DEF s, t
    <3>3. Len(s) = Len(t)
      <4> DEFINE x == Len(s)
                 y == Len(t)
      <4>1. x \in Nat /\ y \in Nat /\ 1..x = 1..y
        BY <3>1, <3>2
      <4> HIDE DEF x, y
      <4>2. (x # 0 => x \in 1..y) /\ (y # 0 => y \in 1..x)
        BY <4>1
      <4>3. x = y
        BY <4>1, <4>2
      <4> QED BY <4>3 DEF x, y
    <3>4. \A x \in 1..Len(s) : s[x].blk.id = t[x].blk.id
      BY <3>1, <3>2
    <3>5. IndexOfId(s, q[i][k].blk.prev) = IndexOfId(t, q[i][k].blk.prev)
      BY <3>1, <3>3, <3>4, IndexDependsOnIds
    <3> QED BY <3>5 DEF s, t
  <2>3. q[i][k].prev = IndexOfId(p[i - 1], q[i][k].blk.prev)
    <3>1. CASE i = m /\ k = vec
      <4>1. q[i][k] = e
        BY <1>4, <2>1, <3>1
      <4> QED BY <1>3, <2>1, <3>1, <4>1
    <3>2. CASE ~(i = m /\ k = vec)
      <4>1. q[i][k] = p[i][k]
        BY <1>4, <2>1, <3>2
      <4> QED BY <1>2, <2>1, <4>1 DEF Links
    <3> QED BY <3>1, <3>2
  <2> QED BY <2>2, <2>3
<1>10. ParentsFirst(q, c, out)
  <2>1. Moved(p, c, q, c)
    BY <1>2, <1>6, <1>7 DEF Moved
  <2>2. {b} \in SUBSET Blocks
    BY <1>1
  <2>3. \A d \in {b} : d.id \notin out => ParentDone(p, c, d)
    BY <1>3
  <2> QED BY <1>2, <1>8, <2>1, <2>2, <2>3, ParentsFirstKept
<1>11. LongestIn(q, c, l)
  <2>1. \A i \in DOMAIN q : q[i] # <<>> => p[i] # <<>>
    <3> SUFFICES ASSUME NEW i \in DOMAIN q, q[i] # <<>>
                 PROVE  p[i] # <<>>
      OBVIOUS
    <3>1. DOMAIN q[i] # {} /\ DOMAIN q[i] = DOMAIN p[i]
      BY <1>4, <1>5, BinNotEmpty
    <3>2. DOMAIN <<>> = {}
      OBVIOUS
    <3> QED BY <3>1, <3>2
  <2>2. CASE l = Nowhere
    BY <1>4, <2>1, <2>2 DEF LongestIn
  <2>3. CASE l # Nowhere
    <3>1. l \in Info /\ EndsIn(p, c, l)
      BY <2>3 DEF LongestIn
    <3>2. EndsIn(q, c, l)
      BY <1>4, <2>1, <3>1 DEF EndsIn
    <3> QED BY <2>3, <3>1, <3>2 DEF LongestIn
  <2> QED BY <2>2, <2>3
<1>12. Good(q, c, out, Idle)
  BY <1>6, <1>9, <1>10 DEF Good, JobIn
<1> QED BY <1>11, <1>12 DEF q, m

LEMMA StoreGood ==
    ASSUME ChainInv, NEW o \in Outside, StoreEntry(o)
    PROVE  Good(pool, confirmed, guessed, job)' /\ LongestIn(pool, confirmed, longest)'
<1> DEFINE old == job.entry
           vec == job.vec
           e == [job.entry EXCEPT !.processed = TRUE]
           m == BinOf(confirmed, e.blk)
<1>1. /\ Good(pool, confirmed, guessed, job) /\ LongestIn(pool, confirmed, longest)
      /\ JobIn(pool, confirmed, guessed, job) /\ confirmed.height \in Nat
  BY DEF ChainInv, Good, PoolBase, Tips
<1>2. /\ job.at = "results" /\ job' = Idle
      /\ pool' = IF m < 1 THEN pool ELSE [pool EXCEPT ![m][vec] = e]
      /\ confirmed' = confirmed /\ longest' = longest /\ guessed' = guessed
  BY DEF StoreEntry
<1>3. CopiedFrom(pool, confirmed, guessed, old, vec)
  BY <1>1, <1>2 DEF JobIn, Idle
<1>4. e.blk = old.blk /\ m \in Int
  <2>1. old \in Entry
    BY <1>3 DEF CopiedFrom
  <2>2. e.blk = old.blk /\ e.blk \in Blocks
    BY <2>1 DEF Entry
  <2> QED BY <1>1, <2>2, BlockFields DEF BinOf
<1>5. CASE m < 1
  <2>1. pool' = pool
    BY <1>2, <1>5
  <2>2. Good(pool, confirmed, guessed, Idle)
    BY <1>1 DEF Good, JobIn
  <2> QED BY <1>1, <1>2, <2>1, <2>2
<1>6. CASE ~(m < 1)
  <2>1. pool' = [pool EXCEPT ![m][vec] = e] /\ BinOf(confirmed, old.blk) >= 1
    BY <1>2, <1>4, <1>6
  <2> DEFINE x == e
  <2>2. x = [old EXCEPT !.processed = TRUE]
    OBVIOUS
  <2> HIDE DEF x, old, vec
  <2>3. LET q == [pool EXCEPT ![BinOf(confirmed, x.blk)][vec] = x]
        IN  Good(q, confirmed, guessed, Idle) /\ LongestIn(q, confirmed, longest)
    BY <1>1, <1>3, <2>1, <2>2, PutBackGood
  <2>4. pool' = [pool EXCEPT ![BinOf(confirmed, x.blk)][vec] = x]
    BY <2>1 DEF x
  <2> QED BY <1>2, <2>3, <2>4
<1> QED BY <1>5, <1>6

-----------------------------------------------------------------------------
LEMMA ChainInvInit == HeadInit => ChainInv
<1> SUFFICES ASSUME HeadInit
             PROVE  ChainInv
  OBVIOUS
<1>1. /\ pool = <<>> /\ confirmed = [id |-> GenesisId, height |-> 0, prev |-> GenesisId]
      /\ slots = MaxSlots /\ longest = Nowhere /\ seeded = 0 /\ job = Idle
      /\ guessed = {}
  BY DEF HeadInit, Init
<1>2. DOMAIN pool = {} /\ pool \in Pools
  BY <1>1 DEF Pools
<1>3. PoolBase(pool, confirmed)
  <2>1. GenesisId \in BlockIds /\ 0 \in Nat
    BY DEF BlockIds
  <2>2. confirmed \in Tips
    BY <1>1, <2>1 DEF Tips
  <2> QED BY <1>2, <2>2 DEF PoolBase, ByHeight
<1>4. Good(pool, confirmed, guessed, job)
  BY <1>1, <1>2, <1>3 DEF Good, Links, ParentsFirst, JobIn
<1>5. LongestIn(pool, confirmed, longest)
  BY <1>1, <1>2 DEF LongestIn
<1>6. 0 \in 0..Len(Seeds)
  BY HeadSeedsAssumption
<1> QED BY <1>1, <1>4, <1>5, <1>6 DEF ChainInv

LEMMA SeedsAreBlocks == ASSUME NEW b \in Range(Seeds) PROVE b \in Blocks
BY HeadSeedsAssumption, SeqIsFunction DEF Range

LEMMA ChainInvStep == ChainInv /\ [HeadNext]_headVars => ChainInv'
<1> SUFFICES ASSUME ChainInv, [HeadNext]_headVars
             PROVE  ChainInv'
  OBVIOUS
<1>1. /\ Good(pool, confirmed, guessed, job) /\ LongestIn(pool, confirmed, longest)
      /\ slots = MaxSlots /\ seeded \in 0..Len(Seeds) /\ guessed \subseteq BlockIds
      /\ Len(Seeds) \in Nat
  BY HeadSeedsAssumption DEF ChainInv
<1>2. ASSUME NEW b \in Range(Seeds), PushSeed(b)
      PROVE  ChainInv'
  <2>1. b \in Blocks
    BY SeedsAreBlocks
  <2>2. PushBlock(b) /\ seeded' = seeded + 1 /\ seeded < Len(Seeds)
    BY <1>2 DEF PushSeed
  <2>3. seeded' \in 0..Len(Seeds)
    BY <1>1, <2>2
  <2> QED BY <1>1, <2>1, <2>2, <2>3, PushBlockInv DEF ChainInv
<1>3. ASSUME NEW b \in Range(Seeds), SeedFails(b)
      PROVE  ChainInv'
  <2>1. b \in Blocks
    BY SeedsAreBlocks
  <2>2. /\ Reject(b) \/ Drop(b)
        /\ UNCHANGED <<longest, job, guessed>> /\ seeded' = Len(Seeds)
    BY <1>3 DEF SeedFails
  <2>3. seeded' \in 0..Len(Seeds)
    BY <1>1, <2>2
  <2> QED BY <1>1, <2>1, <2>2, <2>3, DropInv DEF ChainInv
<1>4. ASSUME NEW b \in Blocks, ReceiveBlock(b)
      PROVE  ChainInv'
  <2>1. seeded' = seeded
    BY <1>4 DEF ReceiveBlock
  <2>2. CASE PushBlock(b)
    BY <1>1, <2>1, <2>2, PushBlockInv DEF ChainInv
  <2>3. CASE (Reject(b) \/ Drop(b)) /\ UNCHANGED <<longest, head, job, guessed>>
    BY <1>1, <2>1, <2>3, DropInv DEF ChainInv
  <2> QED BY <1>4, <2>2, <2>3 DEF ReceiveBlock
<1>5. ASSUME NEW o \in Outside, Monitor(o)
      PROVE  ChainInv'
  <2>1. UNCHANGED <<pool, confirmed, slots, longest, seeded>>
    BY <1>5 DEF Monitor, vars
  <2> QED BY <1>1, <1>5, <2>1, MonitorGood DEF ChainInv
<1>6. ASSUME NEW o \in Outside, CopyEntry(o)
      PROVE  ChainInv'
  <2>1. UNCHANGED <<pool, confirmed, slots, longest, seeded, guessed>>
    BY <1>6 DEF CopyEntry, vars
  <2> QED BY <1>1, <1>6, <2>1, CopyGood DEF ChainInv
<1>7. ASSUME NEW o \in Outside, StoreEntry(o)
      PROVE  ChainInv'
  <2>1. UNCHANGED <<confirmed, slots, longest, seeded, guessed>>
    BY <1>7 DEF StoreEntry
  <2> QED BY <1>1, <1>7, <2>1, StoreGood DEF ChainInv
<1>8. CASE NoResult
  <2>1. job' = Idle /\ UNCHANGED <<pool, confirmed, slots, longest, seeded, guessed>>
    BY <1>8 DEF NoResult, vars
  <2>2. Good(pool, confirmed, guessed, Idle)
    BY <1>1 DEF Good, JobIn
  <2> QED BY <1>1, <2>1, <2>2 DEF ChainInv
<1>9. CASE UNCHANGED headVars
  BY <1>1, <1>9 DEF ChainInv, headVars, vars
<1> QED BY <1>2, <1>3, <1>4, <1>5, <1>6, <1>7, <1>8, <1>9 DEF HeadNext

(* Where the longest chain ends, which parents are processed, and what the *)
(* timer has picked or copied fit the pool in every state, whatever        *)
(* pushBlock, resolveBlock and processTxResult interleave.                 *)
THEOREM ChainInvHolds == HeadSpec => []ChainInv
<1>1. HeadInit => ChainInv
  BY ChainInvInit
<1>2. ChainInv /\ [HeadNext]_headVars => ChainInv'
  BY ChainInvStep
<1> QED BY <1>1, <1>2, PTL DEF HeadSpec

(* The end of the longest chain stays in the pool at the index it was      *)
(* given, whatever is pushed, resolved, popped or written back after       *)
(* Chain::pushBlock chose it, and no bin above it holds a block.           *)
THEOREM LongestIsHighestAlways == HeadSpec => []LongestIsHighest
<1>1. ChainInv => LongestIsHighest
  <2> SUFFICES ASSUME ChainInv, longest # Nowhere
               PROVE  LET bin == longest.height - confirmed.height
                      IN  /\ Inside(pool, bin - 1, longest.vec)
                          /\ pool[bin][longest.vec + 1].blk.id = longest.id
                          /\ \A i \in DOMAIN pool : pool[i] # <<>> => i <= bin
    BY DEF LongestIsHighest
  <2> DEFINE bin == longest.height - confirmed.height
  <2>1. EndsIn(pool, confirmed, longest)
    BY DEF ChainInv, LongestIn
  <2>2. /\ bin \in DOMAIN pool /\ longest.vec + 1 \in DOMAIN pool[bin]
        /\ pool[bin][longest.vec + 1].blk.id = longest.id
        /\ \A i \in DOMAIN pool : pool[i] # <<>> => i <= bin
    BY <2>1 DEF EndsIn
  <2>3. bin \in Nat
    <3>1. DOMAIN pool = 1..Len(pool) /\ Len(pool) \in Nat
      BY BinsOfPool DEF ChainInv, Good, PoolBase
    <3> QED BY <2>2, <3>1
  <2> HIDE DEF bin
  <2>4. (bin - 1) + 1 = bin
    BY <2>3
  <2>5. Inside(pool, bin - 1, longest.vec)
    BY <2>2, <2>4 DEF Inside
  <2> QED BY <2>2, <2>5 DEF bin
<1> QED BY <1>1, ChainInvHolds, PTL

(* Apart from the blocks guessed by an index outside the pool, no block is *)
(* processed before its parent, even when processTxResult writes back an   *)
(* entry with an old link, or a resolve moves every bin in between.        *)
THEOREM ParentsAlwaysProcessedFirst == HeadSpec => []ParentsProcessedFirst
<1>1. ChainInv => ParentsProcessedFirst
  <2> SUFFICES ASSUME ChainInv, NEW i \in DOMAIN pool \ {1}, NEW j \in DOMAIN pool[i],
                      pool[i][j].processed, pool[i][j].blk.id \notin guessed
               PROVE  /\ pool[i][j].prev # 0
                      /\ pool[i - 1][pool[i][j].prev].processed
    BY DEF ParentsProcessedFirst
  <2> DEFINE b == pool[i][j].blk
  <2>1. /\ PoolBase(pool, confirmed) /\ Links(pool, guessed)
        /\ ParentsFirst(pool, confirmed, guessed)
    BY DEF ChainInv, Good
  <2>2. pool[i][j].prev = IndexOfId(pool[i - 1], b.prev)
    BY <2>1 DEF Links
  <2>3. ParentDone(pool, confirmed, b)
    BY <2>1 DEF ParentsFirst
  <2>4. BinOf(confirmed, b) = i /\ i >= 2
    <3>1. DOMAIN pool = 1..Len(pool) /\ Len(pool) \in Nat
      BY <2>1, BinsOfPool DEF PoolBase
    <3>2. b.height = confirmed.height + i /\ confirmed.height \in Nat
      BY <2>1 DEF PoolBase, ByHeight, Tips
    <3> HIDE DEF b
    <3> QED BY <3>1, <3>2 DEF BinOf
  <2> QED BY <2>2, <2>3, <2>4 DEF ParentDone
<1> QED BY <1>1, ChainInvHolds, PTL

-----------------------------------------------------------------------------
(* A path holds integers, and what moveHead leaves is a block_pool_info.   *)
LEMMA PathTyped ==
    ASSUME NEW p \in Pools, NEW c \in Tips, NEW o \in Outside, NEW id,
           NEW height \in Int,
           height - c.height >= 1 => height - c.height \in DOMAIN p
    PROVE  LET path == GetPath(p, c, o, id, height)
           IN  \A d \in DOMAIN path : path[d] \in Int
<1> DEFINE top == height - c.height - 1
           v == IndexOfId(p[top + 1], id) - 1
           vec == Down(p, o, top, v, top)
           path == GetPath(p, c, o, id, height)
<1>1. top \in Int /\ top + 1 = height - c.height
  BY DEF Tips
<1>2. CASE top < 0
  <2>1. path = <<>>
    BY <1>2 DEF GetPath
  <2>2. DOMAIN <<>> = {}
    OBVIOUS
  <2> QED BY <2>1, <2>2
<1>3. CASE ~(top < 0)
  <2>1. top \in Nat /\ top + 1 \in DOMAIN p
    BY <1>1, <1>3
  <2>2. v \in Int
    <3>1. p[top + 1] \in Bin /\ Len(p[top + 1]) \in Nat
      BY <2>1, BinsOfPool
    <3>2. IndexOfId(p[top + 1], id) \in 0..Len(p[top + 1])
      BY <3>1, IndexOfIdIsFirst DEF FirstWithId
    <3> QED BY <3>1, <3>2
  <2> HIDE DEF v
  <2>3. \A k \in 0..top : vec[k] \in Int
    BY <1>1, <2>1, <2>2, DownIs
  <2>4. path = IF Read(p, o, 0, vec[top]).prev = 1
               THEN [d \in 0..top |-> vec[top - d]]
               ELSE [d \in {0} |-> vec[top]]
    BY <1>3 DEF GetPath, v
  <2> HIDE DEF vec, path, top
  <2>5. top \in 0..top /\ \A d \in 0..top : top - d \in 0..top
    BY <2>1
  <2>6. \A d \in DOMAIN path : path[d] \in Int
    <3>1. CASE path = [d \in 0..top |-> vec[top - d]]
      BY <2>3, <2>5, <3>1
    <3>2. CASE path = [d \in {0} |-> vec[top]]
      BY <2>3, <2>5, <3>2
    <3> QED BY <2>4, <3>1, <3>2
  <2> QED BY <2>6 DEF path
<1> QED BY <1>2, <1>3

LEMMA MoveHeadTyped ==
    ASSUME NEW p \in Pools, NEW c \in Tips, NEW o \in Outside, NEW h \in Info,
           NEW id \in BlockIds \cup {b.prev : b \in Blocks},
           NEW height \in Int,
           height - c.height >= 1 => height - c.height \in DOMAIN p,
           NEW x \in MoveHead(p, c, o, h, id, height)
    PROVE  x \in Info
<1> DEFINE path == GetPath(p, c, o, id, height)
           onPath(d) == IF d \in DOMAIN path THEN path[d] ELSE o.word
           level == NonNeg(h.height - height)
           last == level + NonNeg(h.deq) + 2
           vec == Down(p, o, h.deq, h.vec, last)
           meets == {n \in level..last :
                        path = <<>> \/ vec[n] = onPath(h.deq - n)}
           gaveUp == {n \in (level + 1)..last : h.deq - n < 0 /\ vec[n] < 0}
           deq == h.deq + height - h.height
           v == IF deq > h.deq - Min(meets) THEN onPath(deq) ELSE vec[Min(meets)]
           ids == IF Inside(p, deq, v) THEN {p[deq + 1][v + 1].blk.id}
                  ELSE {NoId, id}
<1>1. MoveHead(p, c, o, h, id, height) =
         IF height < c.height THEN {}
         ELSE IF \E n \in gaveUp : \A m \in meets : n <= m THEN {h}
         ELSE IF meets = {} THEN {}
         ELSE [id : ids, height : {height}, deq : {deq}, vec : {v}]
  BY DEF MoveHead
<1>2. /\ h.height \in Nat /\ h.deq \in Int /\ h.vec \in Int
      /\ c.height \in Nat
  BY DEF Info, Tips
<1>3. level \in Nat /\ last \in Nat /\ level <= last /\ deq \in Int
  BY <1>2 DEF NonNeg
<1>4. \A d : onPath(d) \in Int
  <2>1. \A d \in DOMAIN path : path[d] \in Int
    BY PathTyped
  <2>2. o.word \in Int
    BY DEF Outside
  <2> QED BY <2>1, <2>2
<1> HIDE DEF path
<1> HIDE DEF level, last, deq
<1>5. \A n \in 0..last : vec[n] \in Int
  BY <1>2, <1>3, DownIs
<1> HIDE DEF vec, onPath
<1>6. meets # {} => Min(meets) \in 0..last
  <2> SUFFICES ASSUME meets # {}
               PROVE  Min(meets) \in 0..last
    OBVIOUS
  <2>1. meets \subseteq 0..last /\ meets \subseteq Nat
    BY <1>3
  <2> HIDE DEF meets
  <2>2. Min(meets) \in meets
    BY <2>1, MinIsLeast
  <2> QED BY <2>1, <2>2
<1> HIDE DEF meets, gaveUp
<1>7. meets # {} => v \in Int
  BY <1>4, <1>5, <1>6
<1> HIDE DEF v
<1>8. ids \subseteq BlockIds \cup {b.prev : b \in Blocks} \cup {NoId}
  <2>1. CASE Inside(p, deq, v)
    <3>1. p[deq + 1][v + 1] \in Entry
      BY <2>1, BinsOfPool DEF Inside
    <3>2. p[deq + 1][v + 1].blk.id \in BlockIds
      BY <3>1, BlockFields DEF Entry
    <3> QED BY <2>1, <3>2
  <2>2. CASE ~Inside(p, deq, v)
    BY <2>2
  <2> QED BY <2>1, <2>2
<1> HIDE DEF ids
<1>9. CASE x = h
  BY <1>9
<1>10. CASE /\ ~(height < c.height) /\ meets # {}
            /\ x \in [id : ids, height : {height}, deq : {deq}, vec : {v}]
  <2>1. height \in Nat
    BY <1>2, <1>10
  <2> QED BY <1>3, <1>7, <1>8, <1>10, <2>1 DEF Info
<1> QED BY <1>1, <1>9, <1>10

HeadInv == ChainInv /\ head \in Info

LEMMA BinAbove ==
    ASSUME NEW p \in Pools, NEW c \in Tips, NEW b \in Blocks,
           BinOf(c, b) >= 1 => BinOf(c, b) \in DOMAIN p
    PROVE  /\ b.height \in Int /\ b.height - 1 \in Int
           /\ b.height - c.height >= 1 => b.height - c.height \in DOMAIN p
           /\ b.height - 1 - c.height >= 1 => b.height - 1 - c.height \in DOMAIN p
<1> DEFINE n == BinOf(c, b)
<1>1. b.height \in Nat /\ c.height \in Nat /\ n = b.height - c.height
  BY BlockFields DEF Tips, BinOf
<1>2. DOMAIN p = 1..Len(p) /\ Len(p) \in Nat
  BY BinsOfPool
<1> HIDE DEF n
<1>3. n \in Int /\ b.height - c.height = n /\ b.height - 1 - c.height = n - 1
  BY <1>1
<1>4. n - 1 >= 1 => n - 1 \in DOMAIN p
  <2> SUFFICES ASSUME n - 1 >= 1
               PROVE  n - 1 \in DOMAIN p
    OBVIOUS
  <2>1. n >= 1
    BY <1>3
  <2>2. n \in 1..Len(p)
    BY <1>2, <2>1 DEF n
  <2> QED BY <1>2, <1>3, <2>2
<1> QED BY <1>1, <1>3, <1>4 DEF n

LEMMA HeadInvStep == HeadInv /\ [HeadNext]_headVars => HeadInv'
<1> SUFFICES ASSUME HeadInv, [HeadNext]_headVars
             PROVE  HeadInv'
  OBVIOUS
<1>1. ChainInv /\ ChainInv' /\ head \in Info
  BY ChainInvStep DEF HeadInv
<1>2. /\ pool \in Pools /\ confirmed \in Tips /\ pool' \in Pools
      /\ JobIn(pool, confirmed, guessed, job)
  BY <1>1 DEF ChainInv, Good, PoolBase
<1>3. ASSUME NEW b \in Range(Seeds), PushSeed(b) \/ SeedFails(b)
      PROVE  head' = head
  BY <1>3 DEF PushSeed, SeedFails, PushBlock
<1>4. ASSUME NEW b \in Blocks, ReceiveBlock(b)
      PROVE  head' = head
  BY <1>4 DEF ReceiveBlock, PushBlock
<1>5. ASSUME NEW o \in Outside, CopyEntry(o)
      PROVE  head' \in Info
  <2> DEFINE b == job.blk
             bin == BinOf(confirmed, b)
  <2>1. /\ job.at = "procBlock" /\ bin \in DOMAIN pool
        /\ \/ head' = head
           \/ head' \in MoveHead(pool, confirmed, o, head, b.prev, b.height - 1)
    BY <1>5 DEF CopyEntry
  <2>2. b \in Blocks
    BY <1>2, <2>1 DEF JobIn, PickedIn, Idle
  <2> HIDE DEF b
  <2>3. /\ b.height - 1 \in Int
        /\ b.height - 1 - confirmed.height >= 1 =>
              b.height - 1 - confirmed.height \in DOMAIN pool
    BY <1>2, <2>1, <2>2, BinAbove
  <2>4. b.prev \in BlockIds \cup {d.prev : d \in Blocks}
    BY <2>2
  <2>5. CASE head' \in MoveHead(pool, confirmed, o, head, b.prev, b.height - 1)
    BY <1>1, <1>2, <2>3, <2>4, <2>5, MoveHeadTyped
  <2> QED BY <1>1, <2>1, <2>5
<1>6. ASSUME NEW o \in Outside, StoreEntry(o)
      PROVE  head' \in Info
  <2> DEFINE e == [job.entry EXCEPT !.processed = TRUE]
             b == e.blk
             bin == BinOf(confirmed, b)
  <2>1. /\ job.at = "results"
        /\ pool' = IF bin < 1 THEN pool ELSE [pool EXCEPT ![bin][job.vec] = e]
        /\ head' \in MoveHead(pool', confirmed, o, head, b.id, b.height)
    BY <1>6 DEF StoreEntry
  <2>2. CopiedFrom(pool, confirmed, guessed, job.entry, job.vec)
    BY <1>2, <2>1 DEF JobIn, Idle
  <2>3. job.entry \in Entry
    BY <2>2 DEF CopiedFrom
  <2>4. b = job.entry.blk /\ b \in Blocks
    BY <2>3 DEF Entry
  <2>5. (bin >= 1 => bin \in DOMAIN pool) /\ bin \in Int
    <3>1. bin >= 1 => bin \in DOMAIN pool
      BY <2>2, <2>4 DEF CopiedFrom
    <3>2. b.height \in Nat /\ confirmed.height \in Nat
      BY <1>2, <2>4, BlockFields DEF Tips
    <3> QED BY <3>1, <3>2 DEF BinOf
  <2> HIDE DEF bin, b, e
  <2>6. bin >= 1 => bin \in DOMAIN pool'
    <3>1. CASE bin < 1
      BY <2>5, <3>1
    <3>2. CASE ~(bin < 1)
      <4>1. pool' = [pool EXCEPT ![bin][job.vec] = e]
        BY <2>1, <3>2
      <4>2. DOMAIN pool' = DOMAIN pool
        BY <4>1
      <4> QED BY <2>5, <4>2
    <3> QED BY <3>1, <3>2
  <2>7. /\ b.height \in Int
        /\ b.height - confirmed.height >= 1 =>
              b.height - confirmed.height \in DOMAIN pool'
    BY <1>2, <2>4, <2>6, BinAbove DEF bin
  <2>8. b.id \in BlockIds \cup {d.prev : d \in Blocks}
    BY <2>4, BlockFields
  <2> QED BY <1>1, <1>2, <2>1, <2>7, <2>8, MoveHeadTyped
<1>7. ASSUME NEW o \in Outside, Monitor(o)
      PROVE  head' = head
  BY <1>7 DEF Monitor
<1>8. NoResult => head' = head
  BY DEF NoResult
<1>9. UNCHANGED headVars => head' = head
  BY DEF headVars
<1>10. head' \in Info
  BY <1>1, <1>3, <1>4, <1>5, <1>6, <1>7, <1>8, <1>9 DEF HeadNext
<1> QED BY <1>1, <1>10 DEF HeadInv

(* What the timer and moveHead leave is well typed: the two infos name an  *)
(* id and a height, a pick is a block that was pushed, and a copied entry  *)
(* has a place in its bin.                                                 *)
THEOREM HeadTypeCorrect == HeadSpec => []HeadTypeOK
<1>1. HeadInit => HeadInv
  <2> SUFFICES ASSUME HeadInit
               PROVE  HeadInv
    OBVIOUS
  <2>1. ChainInv
    BY ChainInvInit
  <2>2. head = Nowhere
    BY DEF HeadInit
  <2>3. Nowhere \in Info
    BY DEF Nowhere, Info
  <2> QED BY <2>1, <2>2, <2>3 DEF HeadInv
<1>2. HeadInv /\ [HeadNext]_headVars => HeadInv'
  BY HeadInvStep
<1>3. HeadInv => HeadTypeOK
  <2> SUFFICES ASSUME HeadInv
               PROVE  HeadTypeOK
    OBVIOUS
  <2>1. /\ pool \in Pools /\ confirmed \in Tips
        /\ LongestIn(pool, confirmed, longest)
        /\ JobIn(pool, confirmed, guessed, job)
        /\ slots = MaxSlots /\ seeded \in 0..Len(Seeds)
        /\ guessed \subseteq BlockIds /\ head \in Info
    BY DEF HeadInv, ChainInv, Good, PoolBase
  <2>2. TypeOK
    <3>1. MaxSlots \in 0..MaxSlots
      BY LevelsAssumption
    <3> QED BY <2>1, <3>1 DEF TypeOK, Pools, Bin, Tips
  <2>3. longest \in Info
    <3>1. Nowhere \in Info
      BY DEF Nowhere, Info
    <3> QED BY <2>1, <3>1 DEF LongestIn
  <2>4. \/ job = Idle
        \/ job.at = "procBlock" /\ job.blk \in Blocks
        \/ job.at = "results" /\ job.entry \in Entry /\ job.vec \in Nat \ {0}
    BY <2>1 DEF JobIn, PickedIn, CopiedFrom
  <2> QED BY <2>1, <2>2, <2>3, <2>4 DEF HeadTypeOK
<1> QED BY <1>1, <1>2, <1>3, PTL DEF HeadSpec

=============================================================================
