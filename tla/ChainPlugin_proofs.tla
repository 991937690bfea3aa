------------------------- MODULE ChainPlugin_proofs -------------------------
(***************************************************************************)
(* Theorems about ChainPlugin for every set of blocks, every list of seeds *)
(* and any number of crashes, checked with TLAPS.                          *)
(***************************************************************************)
EXTENDS ChainPlugin, UnresolvedBlockPool_proofs

-----------------------------------------------------------------------------
(* The ids of the blocks in a pool, and what the operations do to them.    *)
IdsOf(p) == {id \in BlockIds :
                \E i \in DOMAIN p : \E j \in DOMAIN p[i] : p[i][j].blk.id = id}

LEMMA EntryIds ==
    ASSUME NEW p \in Pools, NEW i \in DOMAIN p, NEW j \in DOMAIN p[i]
    PROVE  p[i][j].blk \in Blocks /\ p[i][j].blk.id \in IdsOf(p)
<1>1. p[i][j] \in Entry
  BY BinsOfPool
<1>2. p[i][j].blk \in Blocks
  BY <1>1 DEF Entry
<1> QED BY <1>2, BlockFields DEF IdsOf

LEMMA GrownIds ==
    ASSUME NEW p \in Pools, NEW n \in Nat
    PROVE  IdsOf(Grown(p, n)) = IdsOf(p)
<1> DEFINE q == Grown(p, n)
<1>1. /\ DOMAIN p \subseteq DOMAIN q
      /\ \A i \in DOMAIN p : q[i] = p[i]
      /\ \A i \in DOMAIN q \ DOMAIN p : q[i] = <<>>
  BY GrownEntries
<1>2. DOMAIN <<>> = {}
  OBVIOUS
<1> HIDE DEF q
<1>3. IdsOf(q) = IdsOf(p)
  BY <1>1, <1>2 DEF IdsOf
<1> QED BY <1>3 DEF q

LEMMA InsertedIds ==
    ASSUME NEW p \in Pools, NEW c \in Tips, NEW b \in Blocks,
           BinOf(c, b) \in 1..Len(p)
    PROVE  IdsOf(Inserted(p, c, b)) = IdsOf(p) \cup {b.id}
<1> DEFINE n == BinOf(c, b)
           q == Inserted(p, c, b)
           k == Len(p[n]) + 1
<1>1. /\ DOMAIN q = DOMAIN p
      /\ \A i \in DOMAIN p : \A j \in DOMAIN p[i] :
            j \in DOMAIN q[i] /\ SameEntry(p[i][j], q[i][j])
      /\ \A i \in DOMAIN q : \A j \in DOMAIN q[i] \ DOMAIN p[i] :
            i = n /\ q[i][j].blk = b /\ ~q[i][j].processed
      /\ DOMAIN q[n] = 1..k
      /\ q[n][k].blk = b
  BY InsertedEntries
<1>2. n \in DOMAIN p /\ k \in 1..k
  BY BinsOfPool
<1> HIDE DEF n, q, k
<1>3. b.id \in IdsOf(q)
  BY <1>1, <1>2, BlockFields DEF IdsOf
<1>4. IdsOf(p) \subseteq IdsOf(q)
  BY <1>1 DEF IdsOf, SameEntry
<1>5. IdsOf(q) \subseteq IdsOf(p) \cup {b.id}
  BY <1>1 DEF IdsOf, SameEntry
<1> QED BY <1>3, <1>4, <1>5 DEF q

LEMMA PoppedIds ==
    ASSUME NEW p \in Pools, Len(p) >= 2, NEW w \in 1..Len(p[1])
    PROVE  IdsOf(Popped(p, w)) \subseteq IdsOf(p)
<1> DEFINE q == Popped(p, w)
<1>1. \A i \in DOMAIN q :
         /\ i + 1 \in DOMAIN p
         /\ DOMAIN q[i] = DOMAIN p[i + 1]
         /\ \A j \in DOMAIN q[i] : SameEntry(p[i + 1][j], q[i][j])
  BY PoppedEntries
<1> HIDE DEF q
<1>2. IdsOf(q) \subseteq IdsOf(p)
  BY <1>1 DEF IdsOf, SameEntry
<1> QED BY <1>2 DEF q

LEMMA ProcessedIds ==
    ASSUME NEW p \in Pools, NEW m \in DOMAIN p, NEW k \in DOMAIN p[m]
    PROVE  IdsOf([p EXCEPT ![m][k].processed = TRUE]) = IdsOf(p)
<1> DEFINE q == [p EXCEPT ![m][k].processed = TRUE]
<1>1. /\ DOMAIN q = DOMAIN p
      /\ \A i \in DOMAIN p :
            /\ DOMAIN q[i] = DOMAIN p[i]
            /\ \A j \in DOMAIN p[i] : q[i][j].blk = p[i][j].blk
  BY ProcessedEntries
<1> HIDE DEF q
<1>2. IdsOf(q) = IdsOf(p)
  BY <1>1 DEF IdsOf
<1> QED BY <1>2 DEF q

(* The ids of the processed entries of a pool.                             *)
DoneOf(p) == {id \in BlockIds :
                 \E i \in DOMAIN p : \E j \in DOMAIN p[i] :
                     p[i][j].processed /\ p[i][j].blk.id = id}

LEMMA GrownDone ==
    ASSUME NEW p \in Pools, NEW n \in Nat
    PROVE  DoneOf(Grown(p, n)) = DoneOf(p)
<1> DEFINE q == Grown(p, n)
<1>1. /\ DOMAIN p \subseteq DOMAIN q
      /\ \A i \in DOMAIN p : q[i] = p[i]
      /\ \A i \in DOMAIN q \ DOMAIN p : q[i] = <<>>
  BY GrownEntries
<1>2. DOMAIN <<>> = {}
  OBVIOUS
<1> HIDE DEF q
<1>3. DoneOf(q) = DoneOf(p)
  BY <1>1, <1>2 DEF DoneOf
<1> QED BY <1>3 DEF q

LEMMA InsertedDone ==
    ASSUME NEW p \in Pools, NEW c \in Tips, NEW b \in Blocks,
           BinOf(c, b) \in 1..Len(p)
    PROVE  DoneOf(Inserted(p, c, b)) \subseteq DoneOf(p)
<1> DEFINE n == BinOf(c, b)
           q == Inserted(p, c, b)
<1>1. /\ DOMAIN q = DOMAIN p
      /\ \A i \in DOMAIN p : \A j \in DOMAIN p[i] :
            j \in DOMAIN q[i] /\ SameEntry(p[i][j], q[i][j])
      /\ \A i \in DOMAIN q : \A j \in DOMAIN q[i] \ DOMAIN p[i] :
            i = n /\ q[i][j].blk = b /\ ~q[i][j].processed
  BY InsertedEntries
<1> HIDE DEF n, q
<1>2. DoneOf(q) \subseteq DoneOf(p)
  BY <1>1 DEF DoneOf, SameEntry
<1> QED BY <1>2 DEF q

LEMMA PoppedDone ==
    ASSUME NEW p \in Pools, Len(p) >= 2, NEW w \in 1..Len(p[1])
    PROVE  DoneOf(Popped(p, w)) \subseteq DoneOf(p)
<1> DEFINE q == Popped(p, w)
<1>1. \A i \in DOMAIN q :
         /\ i + 1 \in DOMAIN p
         /\ DOMAIN q[i] = DOMAIN p[i + 1]
         /\ \A j \in DOMAIN q[i] : SameEntry(p[i + 1][j], q[i][j])
  BY PoppedEntries
<1> HIDE DEF q
<1>2. DoneOf(q) \subseteq DoneOf(p)
  BY <1>1 DEF DoneOf, SameEntry
<1> QED BY <1>2 DEF q

LEMMA ProcessedDone ==
    ASSUME NEW p \in Pools, NEW m \in DOMAIN p, NEW k \in DOMAIN p[m]
    PROVE  DoneOf([p EXCEPT ![m][k].processed = TRUE])
              \subseteq DoneOf(p) \cup {p[m][k].blk.id}
<1> DEFINE q == [p EXCEPT ![m][k].processed = TRUE]
<1>1. /\ DOMAIN q = DOMAIN p
      /\ \A i \in DOMAIN p :
            /\ DOMAIN q[i] = DOMAIN p[i]
            /\ \A j \in DOMAIN p[i] :
                  /\ q[i][j].blk = p[i][j].blk
                  /\ q[i][j].processed => p[i][j].processed \/ (i = m /\ j = k)
  BY ProcessedEntries
<1> HIDE DEF q
<1>2. ASSUME NEW id \in DoneOf(q)
      PROVE  id \in DoneOf(p) \cup {p[m][k].blk.id}
  <2>1. PICK i \in DOMAIN q :
           \E j \in DOMAIN q[i] : q[i][j].processed /\ q[i][j].blk.id = id
    BY DEF DoneOf
  <2> PICK j \in DOMAIN q[i] : q[i][j].processed /\ q[i][j].blk.id = id
    BY <2>1
  <2>2. i \in DOMAIN p /\ j \in DOMAIN p[i] /\ p[i][j].blk.id = id
    BY <1>1
  <2>3. CASE i = m /\ j = k
    BY <2>2, <2>3
  <2>4. CASE ~(i = m /\ j = k)
    <3>1. p[i][j].processed
      BY <1>1, <2>2, <2>4
    <3> QED BY <2>2, <3>1 DEF DoneOf
  <2> QED BY <2>3, <2>4
<1> QED BY <1>2 DEF q

(* The list of a pool's ids names them all and nothing else.               *)
LEMMA PoolBlockIdsOf ==
    ASSUME NEW p \in Pools
    PROVE  /\ PoolBlockIds(p) \in Seq(BlockIds)
           /\ Range(PoolBlockIds(p)) = IdsOf(p)
<1> DEFINE bin(i) == [j \in DOMAIN p[i] |-> p[i][j].blk.id]
           seqs == [i \in DOMAIN p |-> bin(i)]
<1>1. \A i \in DOMAIN p : bin(i) \in Seq(BlockIds)
  <2> SUFFICES ASSUME NEW i \in DOMAIN p
               PROVE  bin(i) \in Seq(BlockIds)
    OBVIOUS
  <2>1. Len(p[i]) \in Nat /\ DOMAIN p[i] = 1..Len(p[i])
    BY BinsOfPool
  <2>2. \A j \in DOMAIN p[i] : p[i][j].blk.id \in BlockIds
    BY EntryIds DEF IdsOf
  <2>3. bin(i) \in [1..Len(p[i]) -> BlockIds]
    BY <2>1, <2>2
  <2> QED BY <2>1, <2>3, FunctionIsSeq
<1>2. seqs \in Seq(Seq(BlockIds))
  <2> DEFINE V == Seq(BlockIds)
  <2>1. Len(p) \in Nat /\ DOMAIN p = 1..Len(p)
    BY BinsOfPool
  <2>2. seqs \in [1..Len(p) -> V]
    BY <1>1, <2>1
  <2> HIDE DEF V, seqs
  <2>3. seqs \in Seq(V)
    BY <2>1, <2>2, FunctionIsSeq
  <2> QED BY <2>3 DEF V
<1>3. DOMAIN seqs = DOMAIN p
      /\ \A i \in DOMAIN p : Range(seqs[i]) = {p[i][j].blk.id : j \in DOMAIN p[i]}
  BY DEF Range
<1>4. PoolBlockIds(p) = FlattenSeq(seqs)
  BY DEF PoolBlockIds
<1>5. /\ FlattenSeq(seqs) \in Seq(BlockIds)
      /\ Range(FlattenSeq(seqs)) = UNION {Range(seqs[i]) : i \in DOMAIN seqs}
  <2> HIDE DEF seqs
  <2> QED BY <1>2, FlattenedSeq
<1>6. UNION {Range(seqs[i]) : i \in DOMAIN seqs} = IdsOf(p)
  <2> HIDE DEF seqs
  <2>1. \A i \in DOMAIN p : \A j \in DOMAIN p[i] : p[i][j].blk.id \in BlockIds
    BY EntryIds DEF IdsOf
  <2> QED BY <1>3, <2>1 DEF IdsOf
<1> QED BY <1>4, <1>5, <1>6

-----------------------------------------------------------------------------
(* A pool whose blocks are in their bins, linked and different.            *)
Linked(p, c) == PoolOK(p, c) /\ NoDup(p)

(* Pushing a block keeps a pool linked, and the block's id is in the pool  *)
(* afterwards unless its height or its parent is refused.                  *)
LEMMA PushedPool ==
    ASSUME NEW p, NEW c, Linked(p, c), NEW b \in Blocks, slots \in Nat
    PROVE  /\ Linked(Pushed(p, c, b), c)
           /\ IdsOf(Pushed(p, c, b)) \subseteq IdsOf(p) \cup {b.id}
           /\ IdsOf(p) \subseteq IdsOf(Pushed(p, c, b))
           /\ DoneOf(Pushed(p, c, b)) \subseteq DoneOf(p)
           /\ Admitted(c, slots, b) /\ Linkable(c, b) =>
                  b.id \in IdsOf(Pushed(p, c, b))
<1> DEFINE n == BinOf(c, b)
<1>1. p \in Pools /\ c \in Tips /\ NoDup(p) /\ PoolOK(p, c)
  BY DEF Linked, PoolOK
<1>2. CASE ~Admitted(c, slots, b)
  BY <1>2 DEF Pushed
<1>3. CASE Admitted(c, slots, b)
  <2>1. n \in Nat \ {0}
    <3>1. b.height \in Nat /\ c.height \in Nat
      BY <1>1, BlockFields DEF Tips
    <3>2. c.height < b.height
      BY <1>3 DEF Admitted
    <3> QED BY <3>1, <3>2 DEF BinOf
  <2>2. CASE Duplicate(p, c, b)
    <3>1. Pushed(p, c, b) = p
      BY <2>2 DEF Pushed
    <3>2. PICK j \in DOMAIN p[n] : n \in DOMAIN p /\ SameBlock(p[n][j].blk, b)
      BY <2>2 DEF Duplicate
    <3>3. p[n][j].blk \in Blocks /\ p[n][j].blk.id \in IdsOf(p)
      BY <1>1, <3>2, EntryIds
    <3>4. p[n][j].blk.id = b.id
      BY <3>2, <3>3, BlocksAssumption DEF SameBlock
    <3> QED BY <3>1, <3>3, <3>4
  <2>3. Grown(p, n) \in Pools /\ PoolOK(Grown(p, n), c) /\ NoDup(Grown(p, n))
        /\ IdsOf(Grown(p, n)) = IdsOf(p) /\ n \in 1..Len(Grown(p, n))
        /\ DoneOf(Grown(p, n)) = DoneOf(p)
    <3> HIDE DEF n
    <3>1. n \in Nat
      BY <2>1
    <3>2. Grown(p, n) \in Pools /\ Len(Grown(p, n)) >= n
      BY <1>1, <3>1, GrownPool
    <3>3. Len(Grown(p, n)) \in Nat
      BY <3>2, BinsOfPool
    <3> QED BY <1>1, <2>1, <3>1, <3>2, <3>3, GrownPoolOK, GrownNoDup, GrownIds,
               GrownDone
  <2>4. CASE ~Duplicate(p, c, b) /\ ~Linkable(c, b)
    <3>1. Pushed(p, c, b) = Grown(p, n)
      BY <1>3, <2>4 DEF Pushed
    <3> QED BY <2>3, <2>4, <3>1 DEF Linked
  <2>5. CASE ~Duplicate(p, c, b) /\ Linkable(c, b)
    <3>1. Pushed(p, c, b) = Inserted(Grown(p, n), c, b)
      BY <1>3, <2>5 DEF Pushed
    <3>2. PoolOK(Inserted(Grown(p, n), c, b), c)
      BY <2>3, InsertedPoolOK
    <3>3. NoDup(Inserted(Grown(p, n), c, b))
      BY <1>1, <2>1, <2>5, InsertedNoDup
    <3>4. IdsOf(Inserted(Grown(p, n), c, b)) = IdsOf(p) \cup {b.id}
      BY <1>1, <2>3, InsertedIds
    <3>5. DoneOf(Inserted(Grown(p, n), c, b)) \subseteq DoneOf(p)
      BY <1>1, <2>3, InsertedDone
    <3> QED BY <3>1, <3>2, <3>3, <3>4, <3>5 DEF Linked
  <2> QED BY <2>2, <2>4, <2>5
<1> QED BY <1>2, <1>3

(* The blocks of the backup are where restorePool looks for them.          *)
BackupReadable ==
    /\ listed \in Seq(BlockIds)
    /\ \A id \in Range(listed) :
          id \in DOMAIN blockBackup /\ blockBackup[id] \in Blocks
          /\ blockBackup[id].id = id

(* The empty pool above the genesis block is linked.                       *)
LEMMA EmptyPool ==
    Linked(<<>>, Genesis) /\ IdsOf(<<>>) = {} /\ DoneOf(<<>>) = {}
<1>1. <<>> \in Pools /\ DOMAIN <<>> = {}
  BY DEF Pools
<1>2. Genesis \in Tips
  BY DEF Genesis, Tips, BlockIds
<1> QED
  BY <1>1, <1>2
     DEF Linked, PoolOK, ByHeight, WellLinked, NoDup, IdsOf, DoneOf

(* A linked pool of which nothing is processed.                            *)
Fresh(p) == Linked(p, Genesis) /\ DoneOf(p) = {}

(* The pools on the way to the restored one.                               *)
LEMMA RestoredSteps ==
    ASSUME BackupReadable, slots \in Nat
    PROVE  \E r : /\ \A n \in 0..Len(listed) : Fresh(r[n])
                  /\ r[0] = <<>>
                  /\ \A n \in 1..Len(listed) :
                        r[n] = Pushed(r[n - 1], Genesis, blockBackup[listed[n]])
                  /\ RestoredPool = r[Len(listed)]
<1> DEFINE N == Len(listed)
           V == {p \in Pools : Fresh(p)}
           G == [q \in (1..N) \X V |->
                    Pushed(q[2], Genesis, blockBackup[listed[q[1]]])]
           Body(r) == [n \in 0..N |->
                          IF n = 0 THEN <<>>
                          ELSE Pushed(r[n - 1], Genesis, blockBackup[listed[n]])]
           restored == CHOOSE r : r = Body(r)
           none == <<>>
<1>1. N \in Nat /\ none \in V
  BY EmptyPool DEF BackupReadable, Linked, PoolOK, Fresh
<1>2. ASSUME NEW n \in 1..N
      PROVE  blockBackup[listed[n]] \in Blocks
  <2>1. listed[n] \in Range(listed)
    BY DEF BackupReadable, Range
  <2> QED BY <2>1 DEF BackupReadable
<1>3. \A n \in 1..N : \A p \in V :
         /\ G[<<n, p>>] = Pushed(p, Genesis, blockBackup[listed[n]])
         /\ Pushed(p, Genesis, blockBackup[listed[n]]) \in V
  <2> SUFFICES ASSUME NEW n \in 1..N, NEW p \in V
               PROVE  /\ G[<<n, p>>] = Pushed(p, Genesis, blockBackup[listed[n]])
                      /\ Pushed(p, Genesis, blockBackup[listed[n]]) \in V
    OBVIOUS
  <2>1. Fresh(Pushed(p, Genesis, blockBackup[listed[n]]))
    BY <1>2, PushedPool DEF Fresh
  <2> QED BY <2>1 DEF Linked, PoolOK, Fresh
<1>4. RestoredPool = restored[N]
  BY DEF RestoredPool
<1> HIDE DEF N, G
<1>5. PICK f : BuiltBy(G, N, V, none, f)
  <2>1. StepsIn(G, N, V)
    BY <1>3 DEF StepsIn
  <2> HIDE DEF V, none
  <2> QED BY <1>1, <2>1, Recursion
<1>6. /\ f \in [0..N -> V] /\ f[0] = <<>>
      /\ \A n \in 1..N : f[n] = G[<<n, f[n - 1]>>]
  BY <1>5 DEF BuiltBy
<1>7. \A n \in 1..N :
         f[n - 1] \in V /\ f[n] = Pushed(f[n - 1], Genesis, blockBackup[listed[n]])
  <2> HIDE DEF V
  <2>1. \A n \in 1..N : n - 1 \in 0..N
    BY <1>1
  <2> QED BY <1>3, <1>6, <2>1
<1>8. f = Body(f)
  <2> HIDE DEF V
  <2>1. f = [n \in 0..N |-> f[n]]
    BY <1>6
  <2>2. \A n \in 0..N : n = 0 \/ n \in 1..N
    BY <1>1
  <2>3. \A n \in 0..N : f[n] = Body(f)[n]
    BY <1>6, <1>7, <2>2
  <2> QED BY <2>1, <2>3
<1>9. restored = Body(restored)
  <2> HIDE DEF Body
  <2> QED BY <1>8
<1>10. restored[0] = <<>>
       /\ \A n \in 1..N :
             restored[n] = Pushed(restored[n - 1], Genesis, blockBackup[listed[n]])
  <2> HIDE DEF restored
  <2>1. 0 \in 0..N /\ \A n \in 1..N : n \in 0..N /\ n # 0
    BY <1>1
  <2> QED BY <1>9, <2>1
<1> HIDE DEF restored, Body
<1> DEFINE T == {n \in Nat : n \in 0..N => Fresh(restored[n])}
<1>11. 0 \in T
  BY <1>10, EmptyPool DEF Fresh
<1>12. ASSUME NEW n \in T
       PROVE  n + 1 \in T
  <2> SUFFICES ASSUME n + 1 \in 0..N
               PROVE  Fresh(restored[n + 1])
    OBVIOUS
  <2>1. n \in 0..N /\ n + 1 \in 1..N /\ (n + 1) - 1 = n
    BY <1>1
  <2>2. Fresh(restored[n])
    BY <2>1
  <2>3. restored[n + 1] = Pushed(restored[n], Genesis, blockBackup[listed[n + 1]])
    BY <1>10, <2>1
  <2>4. blockBackup[listed[n + 1]] \in Blocks
    BY <1>2, <2>1
  <2> QED BY <2>2, <2>3, <2>4, PushedPool DEF Fresh
<1>13. T = Nat
  <2> HIDE DEF T
  <2>1. T \in SUBSET Nat
    BY DEF T
  <2> QED BY <1>11, <1>12, <2>1, InductionOnSets
<1>14. \A n \in 0..N : Fresh(restored[n])
  BY <1>13
<1> QED BY <1>4, <1>10, <1>14 DEF N

(* The restored pool is linked; every block it has was listed, and every   *)
(* listed block is in it if its height and its parent are acceptable.      *)
LEMMA RestoredPoolLinked ==
    ASSUME BackupReadable, slots \in Nat
    PROVE  /\ Linked(RestoredPool, Genesis)
           /\ DoneOf(RestoredPool) = {}
           /\ IdsOf(RestoredPool) \subseteq Range(listed)
           /\ (\A id \in Range(listed) :
                  /\ Admitted(Genesis, slots, blockBackup[id])
                  /\ Linkable(Genesis, blockBackup[id])) =>
                 Range(listed) \subseteq IdsOf(RestoredPool)
<1> DEFINE N == Len(listed)
           back(n) == blockBackup[listed[n]]
           fine == \A n \in 1..N : Admitted(Genesis, slots, back(n))
                                  /\ Linkable(Genesis, back(n))
<1>1. N \in Nat /\ Range(listed) = {listed[n] : n \in 1..N}
  BY DEF BackupReadable, Range
<1>2. PICK r : /\ \A n \in 0..N : Fresh(r[n])
               /\ r[0] = <<>>
               /\ \A n \in 1..N : r[n] = Pushed(r[n - 1], Genesis, back(n))
               /\ RestoredPool = r[N]
  BY RestoredSteps
<1>3. \A n \in 1..N : back(n) \in Blocks /\ back(n).id = listed[n]
  BY <1>1 DEF BackupReadable
<1> HIDE DEF N, back
<1> DEFINE T == {n \in Nat : n \in 0..N =>
                    /\ IdsOf(r[n]) \subseteq {listed[i] : i \in 1..n}
                    /\ fine => {listed[i] : i \in 1..n} \subseteq IdsOf(r[n])}
<1>4. 0 \in T
  <2>1. 1..0 = {}
    OBVIOUS
  <2> QED BY <1>2, <2>1, EmptyPool
<1>5. ASSUME NEW n \in T
      PROVE  n + 1 \in T
  <2> SUFFICES ASSUME n + 1 \in 0..N
               PROVE  /\ IdsOf(r[n + 1]) \subseteq {listed[i] : i \in 1..(n + 1)}
                      /\ fine => {listed[i] : i \in 1..(n + 1)}
                                    \subseteq IdsOf(r[n + 1])
    OBVIOUS
  <2>1. n \in 0..N /\ n + 1 \in 1..N /\ (n + 1) - 1 = n
        /\ 1..(n + 1) = (1..n) \cup {n + 1}
    BY <1>1
  <2>2. r[n + 1] = Pushed(r[n], Genesis, back(n + 1)) /\ Linked(r[n], Genesis)
    BY <1>2, <2>1 DEF Fresh
  <2>3. back(n + 1) \in Blocks /\ back(n + 1).id = listed[n + 1]
    BY <1>3, <2>1
  <2>4. /\ IdsOf(r[n + 1]) \subseteq IdsOf(r[n]) \cup {listed[n + 1]}
        /\ IdsOf(r[n]) \subseteq IdsOf(r[n + 1])
        /\ fine => listed[n + 1] \in IdsOf(r[n + 1])
    BY <2>1, <2>2, <2>3, PushedPool
  <2>5. {listed[i] : i \in 1..(n + 1)} = {listed[i] : i \in 1..n} \cup {listed[n + 1]}
    BY <2>1
  <2>6. /\ IdsOf(r[n]) \subseteq {listed[i] : i \in 1..n}
        /\ fine => {listed[i] : i \in 1..n} \subseteq IdsOf(r[n])
    BY <2>1
  <2> HIDE DEF fine
  <2> QED BY <2>4, <2>5, <2>6
<1>6. T = Nat
  <2> HIDE DEF T
  <2>1. T \in SUBSET Nat
    BY DEF T
  <2> QED BY <1>4, <1>5, <2>1, InductionOnSets
<1>7. /\ IdsOf(r[N]) \subseteq {listed[i] : i \in 1..N}
      /\ fine => {listed[i] : i \in 1..N} \subseteq IdsOf(r[N])
  <2>1. N \in 0..N
    BY <1>1
  <2> QED BY <1>6, <2>1
<1>8. (\A id \in Range(listed) :
          /\ Admitted(Genesis, slots, blockBackup[id])
          /\ Linkable(Genesis, blockBackup[id])) => fine
  BY <1>1 DEF back
<1>9. Linked(RestoredPool, Genesis) /\ DoneOf(RestoredPool) = {}
  <2>1. N \in 0..N
    BY <1>1
  <2> QED BY <1>2, <2>1 DEF Fresh
<1> HIDE DEF fine
<1> QED BY <1>1, <1>2, <1>7, <1>8, <1>9

-----------------------------------------------------------------------------
(* The writes of the handlers.                                             *)
Writes == Seq(WriteOp)

(* What kinds of writes there are and what each of them carries.           *)
LEMMA WriteFields ==
    ASSUME NEW x \in WriteOp
    PROVE  /\ x.op \in {"block", "row", "ids", "result", "forget", "effects"}
           /\ x.op \in {"block", "row"} => x.blk \in Blocks
           /\ x.op = "ids" => x.ids \in Seq(BlockIds)
           /\ x.op \in {"result", "forget"} => x.key \in Range(Stores) \X BlockIds
           /\ x.op = "effects" => x.id \in BlockIds
  BY DEF WriteOp

(* A write must not come before what it refers to: the row of the effects, *)
(* the backups of the blocks in a list.                                    *)
Needs(x) ==
    IF x.op = "effects" THEN {<<"row", x.id>>}
    ELSE IF x.op = "ids" THEN {<<"block", id>> : id \in Range(x.ids)}
    ELSE {}

Gives(x) == IF x.op \in {"block", "row"} THEN {<<x.op, x.blk.id>>} ELSE {}

(* Each write of s finds what it needs in K or among the writes before it. *)
InOrder(s, K) ==
    \A n \in 1..Len(s) : \A y \in Needs(s[n]) :
        y \in K \/ \E m \in 1..(n - 1) : y \in Gives(s[m])

GivenBy(s) == UNION {Gives(s[m]) : m \in 1..Len(s)}

LEMMA InOrderGrows ==
    ASSUME NEW s, NEW K, NEW L, InOrder(s, K), K \subseteq L
    PROVE  InOrder(s, L)
  BY DEF InOrder

(* After the first write the others find what it gave.                     *)
LEMMA InOrderTail ==
    ASSUME NEW s \in Writes, s # <<>>, NEW K, InOrder(s, K)
    PROVE  /\ Needs(Head(s)) \subseteq K
           /\ InOrder(Tail(s), K \cup Gives(Head(s)))
<1>1. /\ Len(s) \in Nat \ {0}
      /\ Len(Tail(s)) = Len(s) - 1 /\ Head(s) = s[1]
      /\ \A n \in 1..Len(Tail(s)) : Tail(s)[n] = s[n + 1]
  BY HeadTailProperties DEF Writes
<1>2. Needs(Head(s)) \subseteq K
  <2>1. 1 \in 1..Len(s) /\ 1..(1 - 1) = {}
    BY <1>1
  <2> QED BY <1>1, <2>1 DEF InOrder
<1>3. ASSUME NEW n \in 1..Len(Tail(s)), NEW y \in Needs(Tail(s)[n]),
             y \notin K \cup Gives(Head(s))
      PROVE  \E m \in 1..(n - 1) : y \in Gives(Tail(s)[m])
  <2>1. n + 1 \in 1..Len(s) /\ y \in Needs(s[n + 1])
    BY <1>1, <1>3
  <2>2. PICK m \in 1..((n + 1) - 1) : y \in Gives(s[m])
    BY <1>3, <2>1 DEF InOrder
  <2>3. m # 1
    BY <1>1, <1>3, <2>2
  <2>4. m - 1 \in 1..(n - 1) /\ m - 1 \in 1..Len(Tail(s)) /\ (m - 1) + 1 = m
    BY <1>1, <2>3
  <2> QED BY <1>1, <2>2, <2>4
<1> QED BY <1>2, <1>3 DEF InOrder

(* One list of writes after another.                                       *)
LEMMA ConcatWrites ==
    ASSUME NEW s \in Writes, NEW t \in Writes
    PROVE  /\ s \o t \in Writes /\ Range(s \o t) = Range(s) \cup Range(t)
           /\ Len(s) \in Nat /\ Len(t) \in Nat
           /\ Len(s \o t) = Len(s) + Len(t)
           /\ \A i \in 1..(Len(s) + Len(t)) :
                 (s \o t)[i] = IF i <= Len(s) THEN s[i] ELSE t[i - Len(s)]
<1>1. s \in Seq(WriteOp) /\ t \in Seq(WriteOp)
  BY DEF Writes
<1>2. Range(s \o t) = Range(s) \cup Range(t)
  BY <1>1, RangeConcatenation
<1>3. /\ s \o t \in Seq(WriteOp) /\ Len(s \o t) = Len(s) + Len(t)
      /\ \A i \in 1..(Len(s) + Len(t)) :
            (s \o t)[i] = IF i <= Len(s) THEN s[i] ELSE t[i - Len(s)]
  BY <1>1, ConcatProperties
<1>4. Len(s) \in Nat /\ Len(t) \in Nat
  BY <1>1
<1> QED BY <1>2, <1>3, <1>4 DEF Writes

LEMMA InOrderConcat ==
    ASSUME NEW s \in Writes, NEW t \in Writes, NEW K,
           InOrder(s, K), InOrder(t, K \cup GivenBy(s))
    PROVE  InOrder(s \o t, K)
<1> DEFINE u == s \o t
<1>1. /\ Len(s) \in Nat /\ Len(t) \in Nat /\ Len(u) = Len(s) + Len(t)
      /\ \A n \in 1..(Len(s) + Len(t)) :
            u[n] = IF n <= Len(s) THEN s[n] ELSE t[n - Len(s)]
  BY ConcatWrites
<1> HIDE DEF u
<1>2. ASSUME NEW n \in 1..Len(u), NEW y \in Needs(u[n]), y \notin K
      PROVE  \E m \in 1..(n - 1) : y \in Gives(u[m])
  <2>1. CASE n <= Len(s)
    <3>1. n \in 1..Len(s) /\ u[n] = s[n]
      BY <1>1, <2>1
    <3>2. PICK m \in 1..(n - 1) : y \in Gives(s[m])
      BY <1>2, <3>1 DEF InOrder
    <3>3. u[m] = s[m]
      BY <1>1, <2>1
    <3> QED BY <3>2, <3>3
  <2>2. CASE n > Len(s)
    <3>1. n - Len(s) \in 1..Len(t) /\ u[n] = t[n - Len(s)]
      BY <1>1, <2>2
    <3>2. \/ y \in GivenBy(s)
          \/ \E m \in 1..((n - Len(s)) - 1) : y \in Gives(t[m])
      BY <1>2, <3>1 DEF InOrder
    <3>3. CASE y \in GivenBy(s)
      <4>1. PICK m \in 1..Len(s) : y \in Gives(s[m])
        BY <3>3 DEF GivenBy
      <4>2. m \in 1..(n - 1) /\ u[m] = s[m]
        BY <1>1, <2>2
      <4> QED BY <4>1, <4>2
    <3>4. CASE \E m \in 1..((n - Len(s)) - 1) : y \in Gives(t[m])
      <4>1. PICK m \in 1..((n - Len(s)) - 1) : y \in Gives(t[m])
        BY <3>4
      <4>2. m + Len(s) \in 1..(n - 1) /\ m + Len(s) \in 1..(Len(s) + Len(t))
            /\ ~(m + Len(s) <= Len(s)) /\ (m + Len(s)) - Len(s) = m
        <5> DEFINE x == Len(s)
                   y0 == Len(t)
        <5>1. /\ x \in Nat /\ y0 \in Nat /\ n \in Int /\ n - x \in 1..y0
              /\ m \in 1..((n - x) - 1)
          BY <1>1, <3>1
        <5> HIDE DEF x, y0
        <5>2. m + x \in 1..(n - 1) /\ m + x \in 1..(x + y0)
              /\ ~(m + x <= x) /\ (m + x) - x = m
          BY ONLY <5>1
        <5> QED BY <5>2 DEF x, y0
      <4>3. u[m + Len(s)] = t[m]
        BY <1>1, <4>2
      <4> QED BY <4>1, <4>2, <4>3
    <3> QED BY <3>2, <3>3, <3>4
  <2> QED BY <1>1, <2>1, <2>2
<1> QED BY <1>2 DEF InOrder, u

(* Writes that need nothing are in order.                                  *)
LEMMA NothingNeeded ==
    ASSUME NEW s, NEW K, \A n \in 1..Len(s) : Needs(s[n]) = {}
    PROVE  InOrder(s, K)
  BY DEF InOrder

-----------------------------------------------------------------------------
(* Saving or deleting a block's results: one write per store, and none     *)
(* that needs or gives anything.                                           *)
LEMMA PerStoreWrites ==
    ASSUME NEW op \in {"result", "forget"}, NEW id \in BlockIds
    PROVE  /\ PerStore(op, id) \in Writes
           /\ Range(PerStore(op, id)) =
                  {[op |-> op, key |-> <<k, id>>] : k \in Range(Stores)}
<1> DEFINE N == Len(Stores)
           s == PerStore(op, id)
<1>1. N \in Nat /\ DOMAIN Stores = 1..N /\ \A k \in 1..N : Stores[k] \in Range(Stores)
  BY StoresAssumption DEF Range
<1>2. s = [k \in 1..N |-> [op |-> op, key |-> <<Stores[k], id>>]]
  BY <1>1 DEF PerStore
<1>3. \A k \in Range(Stores) : [op |-> op, key |-> <<k, id>>] \in WriteOp
  BY DEF WriteOp
<1>4. s \in [1..N -> WriteOp]
  BY <1>1, <1>2, <1>3
<1>5. s \in Writes
  <2> HIDE DEF s, N
  <2> QED BY <1>1, <1>4, FunctionIsSeq DEF Writes
<1>6. Range(s) = {[op |-> op, key |-> <<k, id>>] : k \in Range(Stores)}
  <2>1. DOMAIN s = 1..N /\ \A k \in 1..N : s[k] = [op |-> op, key |-> <<Stores[k], id>>]
    BY <1>2
  <2>2. Range(Stores) = {Stores[k] : k \in 1..N}
    BY <1>1 DEF Range
  <2> HIDE DEF s, N
  <2>3. Range(s) = {[op |-> op, key |-> <<Stores[k], id>>] : k \in 1..N}
    BY <2>1 DEF Range
  <2> QED BY <2>2, <2>3
<1> QED BY <1>5, <1>6

(* The same of the list of a pool's ids.                                   *)
LEMMA SaveBlockIdsWrites ==
    ASSUME NEW p \in Pools
    PROVE  /\ SaveBlockIds(p) \in Writes
           /\ Len(SaveBlockIds(p)) = 1
           /\ SaveBlockIds(p)[1] = [op |-> "ids", ids |-> PoolBlockIds(p)]
           /\ Needs(SaveBlockIds(p)[1]) = {<<"block", id>> : id \in IdsOf(p)}
           /\ Gives(SaveBlockIds(p)[1]) = {}
<1> DEFINE x == [op |-> "ids", ids |-> PoolBlockIds(p)]
<1>1. PoolBlockIds(p) \in Seq(BlockIds) /\ Range(PoolBlockIds(p)) = IdsOf(p)
  BY PoolBlockIdsOf
<1>2. x \in WriteOp
  BY <1>1 DEF WriteOp
<1>3. x.op = "ids" /\ x.ids = PoolBlockIds(p)
  OBVIOUS
<1>4. Needs(x) = {<<"block", id>> : id \in IdsOf(p)} /\ Gives(x) = {}
  BY <1>1, <1>3 DEF Needs, Gives
<1>5. SaveBlockIds(p) = <<x>>
  BY DEF SaveBlockIds
<1> HIDE DEF x
<1>6. <<x>> \in Seq(WriteOp) /\ Len(<<x>>) = 1 /\ <<x>>[1] = x
  BY <1>2
<1> QED BY <1>4, <1>5, <1>6 DEF Writes, x

(* A block is backed up before the list that names it is written.          *)
LEMMA BackUpWrites ==
    ASSUME NEW b \in Blocks, NEW p \in Pools, NEW K,
           \A id \in IdsOf(p) \ {b.id} : <<"block", id>> \in K
    PROVE  /\ BackUp(b, p) \in Writes
           /\ Len(BackUp(b, p)) = 2
           /\ BackUp(b, p)[1] = [op |-> "block", blk |-> b]
           /\ BackUp(b, p)[2] = [op |-> "ids", ids |-> PoolBlockIds(p)]
           /\ InOrder(BackUp(b, p), K)
           /\ GivenBy(BackUp(b, p)) = {<<"block", b.id>>}
<1> DEFINE x == [op |-> "block", blk |-> b]
           y == SaveBlockIds(p)[1]
           s == BackUp(b, p)
<1>1. x \in WriteOp /\ Needs(x) = {} /\ Gives(x) = {<<"block", b.id>>}
  BY DEF WriteOp, Needs, Gives
<1>2. /\ SaveBlockIds(p) \in Writes /\ Len(SaveBlockIds(p)) = 1
      /\ y = [op |-> "ids", ids |-> PoolBlockIds(p)]
      /\ Needs(y) = {<<"block", id>> : id \in IdsOf(p)} /\ Gives(y) = {}
  BY SaveBlockIdsWrites
<1>3. s = <<x>> \o SaveBlockIds(p)
  BY DEF BackUp, SaveBackupBlock
<1> HIDE DEF x
<1>4. <<x>> \in Writes /\ Len(<<x>>) = 1 /\ <<x>>[1] = x
  BY <1>1 DEF Writes
<1> DEFINE sx == <<x>>
           sy == SaveBlockIds(p)
<1> HIDE DEF sx, sy
<1>5. s \in Writes /\ Len(s) = 2 /\ s[1] = x /\ s[2] = y
  <2>1. /\ sx \o sy \in Writes
        /\ Len(sx \o sy) = Len(sx) + Len(sy)
        /\ \A i \in 1..(Len(sx) + Len(sy)) :
              (sx \o sy)[i] = IF i <= Len(sx) THEN sx[i] ELSE sy[i - Len(sx)]
    <3>1. sx \in Writes /\ sy \in Writes
      BY <1>2, <1>4 DEF sx, sy
    <3> QED BY <3>1, ConcatWrites
  <2>2. Len(sx) = 1 /\ Len(sy) = 1 /\ sx[1] = x /\ sy[1] = y /\ s = sx \o sy
    BY <1>2, <1>3, <1>4 DEF sx, sy
  <2> QED BY <2>1, <2>2
<1> HIDE DEF s, y
<1>6. InOrder(s, K)
  <2>1. ASSUME NEW n \in 1..2, NEW z \in Needs(s[n]), z \notin K
        PROVE  \E m \in 1..(n - 1) : z \in Gives(s[m])
    <3>1. n = 2 /\ z \in Needs(y)
      BY <1>1, <1>5, <2>1
    <3>2. z = <<"block", b.id>>
      BY <1>2, <2>1, <3>1
    <3> QED BY <1>1, <1>5, <3>1, <3>2
  <2> QED BY <1>5, <2>1 DEF InOrder
<1>7. GivenBy(s) = {<<"block", b.id>>}
  <2>1. 1..2 = {1, 2}
    OBVIOUS
  <2> QED BY <1>1, <1>2, <1>5, <2>1 DEF GivenBy
<1> QED BY <1>2, <1>5, <1>6, <1>7 DEF s, x, y

LEMMA BackUpRange ==
    ASSUME NEW b \in Blocks, NEW p \in Pools
    PROVE  \A x \in Range(BackUp(b, p)) :
              (x.op = "block" /\ x.blk = b) \/ x.op = "ids"
<1> DEFINE K == {<<"block", id>> : id \in IdsOf(p)}
           s == BackUp(b, p)
<1>1. \A id \in IdsOf(p) \ {b.id} : <<"block", id>> \in K
  OBVIOUS
<1> HIDE DEF K
<1>2. /\ s \in Writes /\ Len(s) = 2
      /\ s[1] = [op |-> "block", blk |-> b]
      /\ s[2] = [op |-> "ids", ids |-> PoolBlockIds(p)]
  BY <1>1, BackUpWrites
<1> HIDE DEF s
<1>3. DOMAIN s = {1, 2} /\ s[1].op = "block" /\ s[1].blk = b /\ s[2].op = "ids"
  BY <1>2 DEF Writes
<1>4. \A x \in Range(s) : (x.op = "block" /\ x.blk = b) \/ x.op = "ids"
  BY <1>3 DEF Range
<1> QED BY <1>4 DEF s

(* Resolving deletes the results of the popped blocks, writes the row of   *)
(* the confirmed block and then, if it was processed, its effects.         *)
LEMMA ResolveWritesOf ==
    ASSUME NEW p \in Pools, 1 \in DOMAIN p, NEW w \in DOMAIN p[1], NEW K
    PROVE  /\ ResolveWrites(p, w) \in Writes
           /\ InOrder(ResolveWrites(p, w), K)
           /\ \A x \in Range(ResolveWrites(p, w)) :
                 /\ x.op \in {"forget", "row", "effects"}
                 /\ x.op = "forget" =>
                       \E j \in DOMAIN p[1] : x.key[2] = p[1][j].blk.id
<1> DEFINE b == p[1][w].blk
           row == [op |-> "row", blk |-> b]
           eff == [op |-> "effects", id |-> b.id]
           part(j) == PerStore("forget", p[1][j].blk.id)
           parts == [j \in DOMAIN p[1] |-> part(j)]
           E == IF p[1][w].processed THEN <<eff>> ELSE <<>>
<1>1. \A j \in DOMAIN p[1] : p[1][j].blk.id \in BlockIds
  BY EntryIds DEF IdsOf
<1>2. b \in Blocks /\ b.id \in BlockIds
  BY EntryIds, BlockFields
<1>3. parts \in Seq(Writes)
  <2>1. Len(p[1]) \in Nat /\ DOMAIN p[1] = 1..Len(p[1])
    BY BinsOfPool
  <2>2. \A j \in DOMAIN p[1] : part(j) \in Writes
    BY <1>1, PerStoreWrites
  <2>3. parts \in [1..Len(p[1]) -> Writes]
    BY <2>1, <2>2
  <2> HIDE DEF parts
  <2> QED BY <2>1, <2>3, FunctionIsSeq
<1>4. DOMAIN parts = DOMAIN p[1] /\ \A j \in DOMAIN p[1] :
         Range(parts[j]) = {[op |-> "forget", key |-> <<k, p[1][j].blk.id>>] :
                               k \in Range(Stores)}
  BY <1>1, PerStoreWrites
<1> DEFINE F == FlattenSeq(parts)
<1>5. F \in Writes /\ Range(F) = UNION {Range(parts[j]) : j \in DOMAIN parts}
  <2> HIDE DEF parts
  <2> QED BY <1>3, FlattenedSeq DEF Writes
<1>6. ASSUME NEW x \in Range(F)
      PROVE  x.op = "forget" /\ \E j \in DOMAIN p[1] : x.key[2] = p[1][j].blk.id
  <2> HIDE DEF parts, F
  <2>1. PICK j \in DOMAIN p[1] : x \in Range(parts[j])
    BY <1>4, <1>5
  <2>2. PICK k \in Range(Stores) : x = [op |-> "forget", key |-> <<k, p[1][j].blk.id>>]
    BY <1>4, <2>1
  <2> QED BY <2>2
<1>7. ResolveWrites(p, w) = (F \o <<row>>) \o E
  BY DEF ResolveWrites
<1>8. row \in WriteOp /\ eff \in WriteOp
  BY <1>2 DEF WriteOp
<1>9. /\ Needs(row) = {} /\ Gives(row) = {<<"row", b.id>>}
      /\ Needs(eff) = {<<"row", b.id>>}
  BY DEF Needs, Gives
<1>10. row.op = "row" /\ eff.op = "effects"
  OBVIOUS
<1> DEFINE R == <<row>>
<1> HIDE DEF F, row, eff, b
<1>11. R \in Writes /\ E \in Writes /\ Len(R) = 1 /\ R[1] = row
       /\ Range(R) = {row} /\ Range(E) \subseteq {eff}
       /\ (E = <<>> \/ (Len(E) = 1 /\ E[1] = eff))
  BY <1>8 DEF Writes, Range
<1> HIDE DEF R, E
<1>12. F \o R \in Writes /\ (F \o R) \o E \in Writes
       /\ Range((F \o R) \o E) = (Range(F) \cup Range(R)) \cup Range(E)
  <2>1. F \o R \in Writes /\ Range(F \o R) = Range(F) \cup Range(R)
    BY <1>5, <1>11, ConcatWrites
  <2> DEFINE FR == F \o R
  <2> HIDE DEF FR
  <2>2. FR \in Writes
    BY <2>1 DEF FR
  <2>3. FR \o E \in Writes /\ Range(FR \o E) = Range(FR) \cup Range(E)
    BY <1>11, <2>2, ConcatWrites
  <2> QED BY <2>1, <2>3 DEF FR
<1>13. InOrder(F \o R, K)
  <2>1. \A n \in 1..Len(F) : F[n] \in Range(F)
    BY <1>5 DEF Writes, Range
  <2>2. \A n \in 1..Len(F) : Needs(F[n]) = {}
    BY <1>6, <2>1 DEF Needs
  <2>3. InOrder(F, K)
    BY <2>2, NothingNeeded
  <2>4. InOrder(R, K \cup GivenBy(F))
    BY <1>9, <1>11 DEF InOrder
  <2> QED BY <1>5, <1>11, <2>3, <2>4, InOrderConcat
<1>14. <<"row", b.id>> \in GivenBy(F \o R)
  <2>1. /\ Len(F) \in Nat /\ Len(F \o R) = Len(F) + 1
        /\ (F \o R)[Len(F) + 1] = row
    <3>1. /\ Len(F \o R) = Len(F) + Len(R)
          /\ \A i \in 1..(Len(F) + Len(R)) :
                (F \o R)[i] = IF i <= Len(F) THEN F[i] ELSE R[i - Len(F)]
      BY <1>5, <1>11, ConcatWrites
    <3>2. Len(F) \in Nat
      BY <1>5 DEF Writes
    <3>3. Len(F) + 1 \in 1..(Len(F) + Len(R)) /\ (Len(F) + 1) - Len(F) = 1
      BY <1>11, <3>2
    <3> QED BY <1>11, <3>1, <3>2, <3>3
  <2>2. Len(F) + 1 \in 1..Len(F \o R)
    BY <2>1
  <2> QED BY <1>9, <2>1, <2>2 DEF GivenBy
<1>15. InOrder(E, K \cup GivenBy(F \o R))
  <2>1. CASE E = <<>>
    BY <2>1 DEF InOrder
  <2>2. CASE Len(E) = 1 /\ E[1] = eff
    BY <1>9, <1>14, <2>2 DEF InOrder
  <2> QED BY <1>11, <2>1, <2>2
<1>16. InOrder((F \o R) \o E, K)
  BY <1>11, <1>12, <1>13, <1>15, InOrderConcat
<1>17. ASSUME NEW x \in Range((F \o R) \o E)
       PROVE  /\ x.op \in {"forget", "row", "effects"}
              /\ x.op = "forget" =>
                    \E j \in DOMAIN p[1] : x.key[2] = p[1][j].blk.id
  <2>1. x \in Range(F) \/ x = row \/ x = eff
    BY <1>11, <1>12
  <2> QED BY <1>6, <1>10, <2>1
<1> QED BY <1>7, <1>12, <1>16, <1>17 DEF R

LEMMA GivenByConcat ==
    ASSUME NEW s \in Writes, NEW t \in Writes
    PROVE  GivenBy(s) \subseteq GivenBy(s \o t)
<1>1. /\ Len(s) \in Nat /\ Len(t) \in Nat /\ Len(s \o t) = Len(s) + Len(t)
      /\ \A i \in 1..Len(s) : (s \o t)[i] = s[i]
  BY ConcatWrites
<1>2. \A i \in 1..Len(s) : i \in 1..Len(s \o t)
  BY <1>1
<1> QED BY <1>1, <1>2 DEF GivenBy

(* All that the handler of a received block writes when it resolves.       *)
ReceiveWrites(b, p, w) ==
    BackUp(b, p) \o ResolveWrites(p, w) \o SaveBlockIds(Popped(p, w))

CarriesOnly(s, b, p) ==
    \A x \in Range(s) :
        /\ x.op = "block" => x.blk = b
        /\ x.op = "forget" => \E j \in DOMAIN p[1] : x.key[2] = p[1][j].blk.id

LEMMA ReceiveWritesOf ==
    ASSUME NEW b \in Blocks, NEW p \in Pools, Len(p) >= 2, NEW w \in DOMAIN p[1],
           NEW K, \A id \in IdsOf(p) \ {b.id} : <<"block", id>> \in K
    PROVE  /\ ReceiveWrites(b, p, w) \in Writes
           /\ InOrder(ReceiveWrites(b, p, w), K)
           /\ ReceiveWrites(b, p, w) # <<>>
           /\ ReceiveWrites(b, p, w)[Len(ReceiveWrites(b, p, w))] =
                  [op |-> "ids", ids |-> PoolBlockIds(Popped(p, w))]
           /\ <<"block", b.id>> \in GivenBy(ReceiveWrites(b, p, w))
           /\ CarriesOnly(ReceiveWrites(b, p, w), b, p)
<1> DEFINE A == BackUp(b, p)
           B == ResolveWrites(p, w)
           q == Popped(p, w)
           C == SaveBlockIds(q)
<1>1. 1 \in DOMAIN p /\ w \in 1..Len(p[1])
  BY BinsOfPool
<1>2. q \in Pools /\ IdsOf(q) \subseteq IdsOf(p)
  BY <1>1, PoppedPool, PoppedIds
<1>3. /\ A \in Writes /\ Len(A) = 2
      /\ A[1] = [op |-> "block", blk |-> b]
      /\ A[2] = [op |-> "ids", ids |-> PoolBlockIds(p)]
      /\ InOrder(A, K)
      /\ GivenBy(A) = {<<"block", b.id>>}
  BY BackUpWrites
<1>4. /\ B \in Writes /\ InOrder(B, K \cup GivenBy(A))
      /\ \A x \in Range(B) :
            /\ x.op \in {"forget", "row", "effects"}
            /\ x.op = "forget" =>
                  \E j \in DOMAIN p[1] : x.key[2] = p[1][j].blk.id
  BY <1>1, ResolveWritesOf
<1>5. /\ C \in Writes /\ Len(C) = 1
      /\ C[1] = [op |-> "ids", ids |-> PoolBlockIds(q)]
      /\ Needs(C[1]) = {<<"block", id>> : id \in IdsOf(q)}
  <2> HIDE DEF q
  <2> QED BY <1>2, SaveBlockIdsWrites
<1> HIDE DEF A, B, C, q
<1>6. A \o B \in Writes /\ InOrder(A \o B, K) /\ GivenBy(A) \subseteq GivenBy(A \o B)
  <2>1. A \o B \in Writes /\ GivenBy(A) \subseteq GivenBy(A \o B)
    BY <1>3, <1>4, ConcatWrites, GivenByConcat
  <2>2. InOrder(A \o B, K)
    BY <1>3, <1>4, InOrderConcat
  <2> QED BY <2>1, <2>2
<1> DEFINE AB == A \o B
<1> HIDE DEF AB
<1>7. AB \in Writes /\ InOrder(AB, K) /\ <<"block", b.id>> \in GivenBy(AB)
  BY <1>3, <1>6 DEF AB
<1>8. \A y \in Needs(C[1]) : y \in K \cup GivenBy(AB)
  BY <1>2, <1>5, <1>7
<1>9. InOrder(C, K \cup GivenBy(AB))
  BY <1>5, <1>8 DEF InOrder
<1>10. /\ AB \o C \in Writes /\ InOrder(AB \o C, K)
       /\ Len(AB \o C) = Len(AB) + 1 /\ Len(AB) \in Nat
       /\ (AB \o C)[Len(AB) + 1] = C[1]
  <2>1. /\ AB \o C \in Writes /\ Len(AB \o C) = Len(AB) + Len(C)
        /\ \A i \in 1..(Len(AB) + Len(C)) :
              (AB \o C)[i] = IF i <= Len(AB) THEN AB[i] ELSE C[i - Len(AB)]
    BY <1>5, <1>7, ConcatWrites
  <2>2. Len(AB) \in Nat
    BY <1>7 DEF Writes
  <2>3. Len(AB) + 1 \in 1..(Len(AB) + Len(C)) /\ (Len(AB) + 1) - Len(AB) = 1
    BY <1>5, <2>2
  <2> QED BY <1>5, <1>7, <1>9, <2>1, <2>2, <2>3, InOrderConcat
<1>11. Range(AB \o C) = (Range(A) \cup Range(B)) \cup Range(C)
  <2>1. Range(AB) = Range(A) \cup Range(B)
    BY <1>3, <1>4, ConcatWrites DEF AB
  <2>2. Range(AB \o C) = Range(AB) \cup Range(C)
    BY <1>5, <1>7, ConcatWrites
  <2> QED BY <2>1, <2>2
<1>12. Range(A) = {A[1], A[2]} /\ Range(C) = {C[1]}
  <2>1. DOMAIN A = 1..2 /\ DOMAIN C = 1..1
    BY <1>3, <1>5 DEF Writes
  <2> QED BY <2>1 DEF Range
<1>13. ASSUME NEW x \in Range(AB \o C)
       PROVE  /\ x.op = "block" => x.blk = b
              /\ x.op = "forget" =>
                    \E j \in DOMAIN p[1] : x.key[2] = p[1][j].blk.id
  <2>1. CASE x \in Range(B)
    BY <1>4, <2>1
  <2>2. CASE x \in {A[1], A[2], C[1]}
    BY <1>3, <1>5, <2>2
  <2> QED BY <1>11, <1>12, <2>1, <2>2
<1>14. AB \o C # <<>>
  BY <1>10
<1>15. ReceiveWrites(b, p, w) = AB \o C
  BY DEF ReceiveWrites, AB, A, B, C, q
<1>16. <<"block", b.id>> \in GivenBy(AB \o C)
  BY <1>5, <1>7, GivenByConcat
<1>17. CarriesOnly(AB \o C, b, p)
  BY <1>13 DEF CarriesOnly
<1> QED BY <1>5, <1>10, <1>14, <1>15, <1>16, <1>17 DEF q

-----------------------------------------------------------------------------
(* What every step has to re-establish: the pool is linked, the clock      *)
(* admits every height, the stores hold what their readers expect, and a   *)
(* process that is down has nothing left to write.                         *)
Stored ==
    /\ phase \in {"down", "refused", "seeding", "up"}
    /\ seeded \in 0..Len(Seeds)
    /\ todo \in [Threads -> Writes]
    /\ phase \in {"down", "refused"} => todo = Idle
    /\ listed \in Seq(BlockIds)
    /\ \A id \in DOMAIN blockBackup :
          blockBackup[id] \in Blocks /\ blockBackup[id].id = id
    /\ resultBackup \subseteq Range(Stores) \X BlockIds
    /\ rows \in Seq(Blocks) /\ effects \in Seq(BlockIds)
    /\ failed \subseteq WriteOp
    /\ lost \subseteq Range(Stores) \X BlockIds
    /\ crashes \in 0..MaxCrashes

Base ==
    /\ Linked(pool, confirmed)
    /\ slots = MaxSlots
    /\ Stored

(* The pool after an accepted block, and after the block it resolves.      *)
LEMMA PushedBlock ==
    ASSUME Base, NEW b \in Blocks, Accepted(b)
    PROVE  /\ WithBlock(b) \in Pools
           /\ IdsOf(WithBlock(b)) = IdsOf(pool) \cup {b.id}
           /\ DoneOf(WithBlock(b)) \subseteq DoneOf(pool)
           /\ BinOf(confirmed, b) \in Nat \ {0}
           /\ PoolOK(WithBlock(b), confirmed)
<1>1. IInv
  BY LevelsAssumption DEF Base, Linked, IInv
<1>2. /\ pool \in Pools /\ confirmed \in Tips /\ WithBlock(b) \in Pools
      /\ BinOf(confirmed, b) \in Nat \ {0}
      /\ Grown(pool, BinOf(confirmed, b)) \in Pools
      /\ BinOf(confirmed, b) \in 1..Len(Grown(pool, BinOf(confirmed, b)))
  BY <1>1, AcceptedPools
<1>3. PoolOK(WithBlock(b), confirmed)
  BY <1>1, AcceptedBin DEF Accepted
<1> DEFINE n == BinOf(confirmed, b)
<1> HIDE DEF n
<1>4. IdsOf(Grown(pool, n)) = IdsOf(pool)
  BY <1>2, GrownIds DEF n
<1>5. IdsOf(Inserted(Grown(pool, n), confirmed, b)) = IdsOf(Grown(pool, n)) \cup {b.id}
  BY <1>2, InsertedIds DEF n
<1>6. DoneOf(Inserted(Grown(pool, n), confirmed, b)) \subseteq DoneOf(pool)
  <2>1. DoneOf(Grown(pool, n)) = DoneOf(pool)
    BY <1>2, GrownDone DEF n
  <2> QED BY <1>2, <2>1, InsertedDone DEF n
<1> QED BY <1>2, <1>3, <1>4, <1>5, <1>6 DEF WithBlock, n

LEMMA ResolvedBlock ==
    ASSUME Base, NEW b \in Blocks, Accepted(b),
           NEW w \in DOMAIN WithBlock(b)[1],
           Resolves(WithBlock(b), confirmed, b, w)
    PROVE  LET p == WithBlock(b)
               q == Popped(p, w)
           IN  /\ Len(p) >= 2 /\ 1 \in DOMAIN p /\ w \in 1..Len(p[1])
               /\ q \in Pools
               /\ IdsOf(q) \subseteq IdsOf(pool) \cup {b.id}
               /\ ConfirmedBy(p, confirmed, w).height = confirmed.height + 1
               /\ \A j \in DOMAIN p[1] :
                     p[1][j].blk.height = confirmed.height + 1
<1>1. IInv
  BY LevelsAssumption DEF Base, Linked, IInv
<1> DEFINE p == WithBlock(b)
<1>2. Len(p) >= 2 /\ w \in 1..Len(p[1])
      /\ ConfirmedBy(p, confirmed, w).height = confirmed.height + 1
  BY <1>1, ResolvesPops
<1>3. p \in Pools /\ IdsOf(p) = IdsOf(pool) \cup {b.id} /\ PoolOK(p, confirmed)
  BY PushedBlock
<1> HIDE DEF p
<1>4. 1 \in DOMAIN p
  BY <1>2, <1>3, BinsOfPool
<1>5. Popped(p, w) \in Pools /\ IdsOf(Popped(p, w)) \subseteq IdsOf(p)
  BY <1>2, <1>3, PoppedPool, PoppedIds
<1>6. \A j \in DOMAIN p[1] : p[1][j].blk.height = confirmed.height + 1
  BY <1>3, <1>4 DEF PoolOK, ByHeight
<1> QED BY <1>2, <1>3, <1>4, <1>5, <1>6 DEF p

(* A step of the pool keeps it linked.                                     *)
LEMMA PoolStep ==
    ASSUME Base, [Next]_vars
    PROVE  Linked(pool, confirmed)'
<1>1. IInv /\ NoDuplicates
  BY LevelsAssumption DEF Base, Linked, IInv, NoDuplicates, NoDup
<1>2. IInv' /\ NoDuplicates'
  BY <1>1, StepInvariant, StepNoDuplicates
<1> QED BY <1>2 DEF IInv, Linked, NoDuplicates, NoDup

LEMMA SeedBlocks == \A b \in Range(Seeds) : b \in Blocks /\ b.id \in SeedIds
  BY SeedsAssumption DEF Range, SeedIds

(* The listed blocks are where a start that succeeds looks for them.       *)
LEMMA RestorableReadable ==
    ASSUME Base, Restorable
    PROVE  BackupReadable
  BY DEF Base, Stored, Restorable, BackupReadable

(* A write leaves every store with what its readers expect.                *)
LEMMA Performed ==
    ASSUME Stored, NEW x \in WriteOp, Perform(x)
    PROVE  /\ listed' \in Seq(BlockIds)
           /\ \A id \in DOMAIN blockBackup' :
                 blockBackup'[id] \in Blocks /\ blockBackup'[id].id = id
           /\ resultBackup' \subseteq Range(Stores) \X BlockIds
           /\ rows' \in Seq(Blocks) /\ effects' \in Seq(BlockIds)
           /\ lost' \subseteq Range(Stores) \X BlockIds
<1>1. /\ listed \in Seq(BlockIds)
      /\ \A id \in DOMAIN blockBackup :
            blockBackup[id] \in Blocks /\ blockBackup[id].id = id
      /\ resultBackup \subseteq Range(Stores) \X BlockIds
      /\ rows \in Seq(Blocks) /\ effects \in Seq(BlockIds)
      /\ lost \subseteq Range(Stores) \X BlockIds
  BY DEF Stored
<1>2. listed' \in Seq(BlockIds)
  BY <1>1, WriteFields DEF Perform
<1>3. \A id \in DOMAIN blockBackup' :
         blockBackup'[id] \in Blocks /\ blockBackup'[id].id = id
  <2>1. CASE x.op = "block"
    <3>1. x.blk \in Blocks
      BY <2>1, WriteFields
    <3>2. blockBackup' = [id \in DOMAIN blockBackup \cup {x.blk.id} |->
                             IF id = x.blk.id THEN x.blk ELSE blockBackup[id]]
      BY <2>1 DEF Perform
    <3> QED BY <1>1, <3>1, <3>2
  <2>2. CASE x.op # "block"
    BY <1>1, <2>2 DEF Perform
  <2> QED BY <2>1, <2>2
<1>4. resultBackup' \subseteq Range(Stores) \X BlockIds
  <2>1. CASE x.op = "result"
    <3>1. x.key \in Range(Stores) \X BlockIds
      BY <2>1, WriteFields
    <3> QED BY <1>1, <2>1, <3>1 DEF Perform
  <2>2. CASE x.op # "result"
    BY <1>1, <2>2 DEF Perform
  <2> QED BY <2>1, <2>2
<1>5. rows' \in Seq(Blocks)
  <2>1. CASE x.op = "row"
    <3>1. x.blk \in Blocks
      BY <2>1, WriteFields
    <3>2. Append(rows, x.blk) \in Seq(Blocks)
      BY <1>1, <3>1
    <3> QED BY <1>1, <3>2 DEF Perform
  <2>2. CASE x.op # "row"
    BY <1>1, <2>2 DEF Perform
  <2> QED BY <2>1, <2>2
<1>6. effects' \in Seq(BlockIds)
  <2>1. CASE x.op = "effects"
    <3>1. x.id \in BlockIds
      BY <2>1, WriteFields
    <3>2. Append(effects, x.id) \in Seq(BlockIds)
      BY <1>1, <3>1
    <3> QED BY <2>1, <3>2 DEF Perform
  <2>2. CASE x.op # "effects"
    BY <1>1, <2>2 DEF Perform
  <2> QED BY <2>1, <2>2
<1> QED BY <1>1, <1>2, <1>3, <1>4, <1>5, <1>6 DEF Perform

(* A thread's next write is a write, and what is left are writes.          *)
LEMMA NextWrite ==
    ASSUME Base, NEW t \in Threads, todo[t] # <<>>
    PROVE  /\ Head(todo[t]) \in WriteOp
           /\ Tail(todo[t]) \in Writes
           /\ phase \in {"seeding", "up"}
<1>1. todo[t] \in Writes
  BY DEF Base, Stored
<1>2. Head(todo[t]) \in WriteOp /\ Tail(todo[t]) \in Writes
  BY <1>1, HeadTailProperties DEF Writes
<1>3. phase \in {"seeding", "up"}
  BY DEF Base, Stored, Idle
<1> QED BY <1>2, <1>3

LEMMA StepBase == Base /\ [PluginNext]_pluginVars => Base'
<1> SUFFICES ASSUME Base, [PluginNext]_pluginVars
             PROVE  Base'
  OBVIOUS
<1> USE SeedBlocks, CrashesAssumption
<1>0. Len(Seeds) \in Nat /\ Threads = {"main", "io"}
  BY SeedsAssumption DEF Threads
<1>1. CASE Start
  <2>1. slots \in Nat /\ BackupReadable
    BY <1>1, RestorableReadable, LevelsAssumption DEF Base, Start
  <2>2. Linked(RestoredPool, Genesis)
    BY <2>1, RestoredPoolLinked
  <2>3. Linked(pool, confirmed)'
    BY <1>1, <2>2 DEF Start
  <2>4. Stored'
    BY <1>0, <1>1 DEF Base, Stored, Start, disk
  <2> QED BY <1>1, <2>3, <2>4 DEF Base, Start
<1>2. CASE StartThrows \/ AllSeeded
  <2>1. UNCHANGED vars
    BY <1>2 DEF StartThrows, AllSeeded
  <2>2. Linked(pool, confirmed)' /\ slots' = MaxSlots
    BY <2>1 DEF Base, vars
  <2>3. Stored'
    BY <1>2 DEF Base, Stored, StartThrows, AllSeeded, disk
  <2> QED BY <2>2, <2>3 DEF Base
<1>3. CASE Crash
  <2>1. Linked(pool, confirmed)'
    BY <1>3, EmptyPool DEF Crash
  <2>2. Idle \in [Threads -> Writes]
    BY DEF Idle, Writes
  <2>3. Stored'
    BY <1>3, <2>2 DEF Base, Stored, Crash, disk
  <2> QED BY <1>3, <2>1, <2>3 DEF Base, Crash
<1>4. ASSUME NEW b \in Range(Seeds), PushSeed(b) \/ SeedFails(b)
      PROVE  Base'
  <2>1. [Next]_vars /\ slots' = slots
    BY <1>4 DEF PushSeed, SeedFails, Push, Drop, Reject, Next, vars
  <2>2. Linked(pool, confirmed)'
    BY <2>1, PoolStep
  <2>3. Stored'
    BY <1>0, <1>4 DEF Base, Stored, PushSeed, SeedFails, Seeding, disk
  <2> QED BY <2>1, <2>2, <2>3 DEF Base
<1>5. ASSUME NEW b \in Range(Seeds), PushSeedAndResolve(b)
      PROVE  Base'
  <2>1. [Next]_vars /\ slots' = slots
    BY <1>5 DEF PushSeedAndResolve, PushAndResolve, Next
  <2>2. Linked(pool, confirmed)'
    BY <2>1, PoolStep
  <2>3. PICK w \in DOMAIN WithBlock(b)[1] :
           /\ Resolves(WithBlock(b), confirmed, b, w)
           /\ todo' = [todo EXCEPT !["main"] = ResolveWrites(WithBlock(b), w)]
    BY <1>5 DEF PushSeedAndResolve
  <2>4. ResolveWrites(WithBlock(b), w) \in Writes
    <3>1. b \in Blocks /\ Accepted(b)
      BY <1>5 DEF PushSeedAndResolve, PushAndResolve
    <3> QED BY <2>3, <3>1, PushedBlock, ResolvedBlock, ResolveWritesOf
  <2>5. todo' \in [Threads -> Writes]
    BY <2>3, <2>4 DEF Base, Stored
  <2>6. Stored'
    BY <1>0, <1>5, <2>5 DEF Base, Stored, PushSeedAndResolve, Seeding, disk
  <2> QED BY <2>1, <2>2, <2>6 DEF Base
<1>6. ASSUME NEW b \in Blocks, IgnoreBlock(b)
      PROVE  Base'
  <2>1. [Next]_vars /\ slots' = slots
    BY <1>6 DEF IgnoreBlock, Drop, Reject, Next, vars
  <2>2. Linked(pool, confirmed)'
    BY <2>1, PoolStep
  <2>3. Stored'
    BY <1>6 DEF Base, Stored, IgnoreBlock, disk
  <2> QED BY <2>1, <2>2, <2>3 DEF Base
<1>7. ASSUME NEW b \in Blocks, ReceiveBlock(b)
      PROVE  Base'
  <2>1. [Next]_vars /\ slots' = slots
    BY <1>7 DEF ReceiveBlock, Push, Next
  <2>2. Linked(pool, confirmed)'
    BY <2>1, PoolStep
  <2>3. BackUp(b, WithBlock(b)) \in Writes
    <3> DEFINE K == {<<"block", id>> : id \in IdsOf(WithBlock(b))}
    <3>1. WithBlock(b) \in Pools
      BY <1>7, PushedBlock DEF ReceiveBlock, Push
    <3>2. \A id \in IdsOf(WithBlock(b)) \ {b.id} : <<"block", id>> \in K
      OBVIOUS
    <3> HIDE DEF K
    <3> QED BY <3>1, <3>2, BackUpWrites
  <2>4. todo' \in [Threads -> Writes]
    BY <1>7, <2>3 DEF Base, Stored, ReceiveBlock
  <2>5. Stored'
    BY <1>7, <2>4 DEF Base, Stored, ReceiveBlock, Receiving, disk
  <2> QED BY <2>1, <2>2, <2>5 DEF Base
<1>8. ASSUME NEW b \in Blocks, ReceiveAndResolve(b)
      PROVE  Base'
  <2>1. [Next]_vars /\ slots' = slots
    BY <1>8 DEF ReceiveAndResolve, PushAndResolve, Next
  <2>2. Linked(pool, confirmed)'
    BY <2>1, PoolStep
  <2>3. PICK w \in DOMAIN WithBlock(b)[1] :
           /\ Resolves(WithBlock(b), confirmed, b, w)
           /\ todo' = [todo EXCEPT !["io"] = ReceiveWrites(b, WithBlock(b), w)]
    BY <1>8 DEF ReceiveAndResolve, ReceiveWrites
  <2>4. ReceiveWrites(b, WithBlock(b), w) \in Writes
    <3> DEFINE K == {<<"block", id>> : id \in IdsOf(WithBlock(b))}
    <3>1. Accepted(b)
      BY <1>8 DEF ReceiveAndResolve, PushAndResolve
    <3>2. WithBlock(b) \in Pools /\ Len(WithBlock(b)) >= 2
      BY <2>3, <3>1, PushedBlock, ResolvedBlock
    <3>3. \A id \in IdsOf(WithBlock(b)) \ {b.id} : <<"block", id>> \in K
      OBVIOUS
    <3> HIDE DEF K
    <3> QED BY <3>2, <3>3, ReceiveWritesOf
  <2>5. todo' \in [Threads -> Writes]
    BY <2>3, <2>4 DEF Base, Stored
  <2>6. Stored'
    BY <1>8, <2>5 DEF Base, Stored, ReceiveAndResolve, Receiving, disk
  <2> QED BY <2>1, <2>2, <2>6 DEF Base
<1>9. ASSUME NEW i \in DOMAIN pool, NEW j \in DOMAIN pool[i], ProcessTxResult(i, j)
      PROVE  Base'
  <2> DEFINE id == pool[i][j].blk.id
             k == IndexOfId(pool[i], id)
  <2>1. pool \in Pools /\ pool[i] \in Bin /\ DOMAIN pool[i] = 1..Len(pool[i])
    BY BinsOfPool DEF Base, Linked, PoolOK
  <2>2. k \in DOMAIN pool[i]
    <3>1. FirstWithId(pool[i], id, k)
      BY <2>1, IndexOfIdIsFirst
    <3> HIDE DEF k
    <3> QED BY <2>1, <3>1 DEF FirstWithId
  <2>3. SetUnresolvedBlock(i, k) /\ todo' = [todo EXCEPT !["io"] = SaveBackupResult(id)]
    BY <1>9 DEF ProcessTxResult
  <2>4. id \in BlockIds
    BY <2>1, EntryIds DEF IdsOf
  <2> HIDE DEF k, id
  <2>5. [Next]_vars /\ slots' = slots
    BY <2>2, <2>3 DEF Next, SetUnresolvedBlock
  <2>6. Linked(pool, confirmed)'
    BY <2>5, PoolStep
  <2>7. SaveBackupResult(id) \in Writes
    BY <2>4, PerStoreWrites DEF SaveBackupResult
  <2>8. todo' \in [Threads -> Writes]
    BY <2>3, <2>7 DEF Base, Stored
  <2>9. Stored'
    BY <1>9, <2>8 DEF Base, Stored, ProcessTxResult, disk
  <2> QED BY <2>5, <2>6, <2>9 DEF Base
<1>10. ASSUME NEW t \in Threads, Write(t)
       PROVE  Base'
  <2>1. /\ todo[t] # <<>> /\ Perform(Head(todo[t]))
        /\ todo' = [todo EXCEPT ![t] = Tail(todo[t])]
        /\ UNCHANGED <<vars, phase, seeded, crashes>>
    BY <1>10 DEF Write
  <2>2. /\ Head(todo[t]) \in WriteOp /\ Tail(todo[t]) \in Writes
        /\ phase \in {"seeding", "up"}
    BY <2>1, NextWrite
  <2>3. Linked(pool, confirmed)' /\ slots' = MaxSlots
    BY <2>1 DEF Base, vars
  <2>4. todo' \in [Threads -> Writes]
    BY <2>1, <2>2 DEF Base, Stored
  <2>5. Stored
    BY DEF Base
  <2>6. /\ listed' \in Seq(BlockIds)
        /\ \A id \in DOMAIN blockBackup' :
              blockBackup'[id] \in Blocks /\ blockBackup'[id].id = id
        /\ resultBackup' \subseteq Range(Stores) \X BlockIds
        /\ rows' \in Seq(Blocks) /\ effects' \in Seq(BlockIds)
        /\ lost' \subseteq Range(Stores) \X BlockIds
    BY <2>1, <2>2, <2>5, Performed
  <2>7. failed' = failed
    BY <2>1 DEF Perform
  <2>8. Stored'
    BY <2>1, <2>2, <2>4, <2>5, <2>6, <2>7 DEF Stored
  <2> QED BY <2>3, <2>8 DEF Base
<1>11. ASSUME NEW t \in Threads, LoseWrite(t)
       PROVE  Base'
  <2>1. /\ todo[t] # <<>> /\ Head(todo[t]).op \in {"result", "forget"}
        /\ todo' = [todo EXCEPT ![t] = Tail(todo[t])]
        /\ UNCHANGED <<vars, phase, seeded, listed, blockBackup, resultBackup,
                       rows, effects, failed, crashes>>
        /\ lost' = lost \/ lost' = lost \cup {Head(todo[t]).key}
    BY <1>11 DEF LoseWrite
  <2>2. /\ Head(todo[t]) \in WriteOp /\ Tail(todo[t]) \in Writes
        /\ phase \in {"seeding", "up"}
    BY <2>1, NextWrite
  <2>3. Linked(pool, confirmed)' /\ slots' = MaxSlots
    BY <2>1 DEF Base, vars
  <2>4. todo' \in [Threads -> Writes]
    BY <2>1, <2>2 DEF Base, Stored
  <2>5. Head(todo[t]).key \in Range(Stores) \X BlockIds
    BY <2>1, <2>2, WriteFields
  <2>6. lost' \subseteq Range(Stores) \X BlockIds
    BY <2>1, <2>5 DEF Base, Stored
  <2>7. Stored'
    BY <2>1, <2>2, <2>4, <2>6 DEF Base, Stored
  <2> QED BY <2>3, <2>7 DEF Base
<1>12. ASSUME NEW t \in Threads, WriteFails(t)
       PROVE  Base'
  <2>1. /\ todo[t] # <<>>
        /\ todo' = [todo EXCEPT ![t] = Tail(todo[t])]
        /\ UNCHANGED <<vars, phase, seeded, listed, blockBackup, resultBackup,
                       rows, effects, lost, crashes>>
        /\ failed' = failed \cup {Head(todo[t])}
    BY <1>12 DEF WriteFails
  <2>2. /\ Head(todo[t]) \in WriteOp /\ Tail(todo[t]) \in Writes
        /\ phase \in {"seeding", "up"}
    BY <2>1, NextWrite
  <2>3. Linked(pool, confirmed)' /\ slots' = MaxSlots
    BY <2>1 DEF Base, vars
  <2>4. todo' \in [Threads -> Writes]
    BY <2>1, <2>2 DEF Base, Stored
  <2>5. failed' \subseteq WriteOp
    BY <2>1, <2>2 DEF Base, Stored
  <2>6. Stored'
    BY <2>1, <2>2, <2>4, <2>5 DEF Base, Stored
  <2> QED BY <2>3, <2>6 DEF Base
<1>13. CASE UNCHANGED pluginVars
  BY <1>13 DEF Base, Stored, pluginVars, vars, disk
<1> QED
  BY <1>1, <1>2, <1>3, <1>4, <1>5, <1>6, <1>7, <1>8, <1>9, <1>10, <1>11, <1>12, <1>13
     DEF PluginNext

(* The stores' types and the linked pool, in every reachable state.        *)
LEMMA InitBase == PluginInit => Base
<1> SUFFICES ASSUME PluginInit
             PROVE  Base
  OBVIOUS
<1>1. Linked(pool, confirmed)
  BY EmptyPool DEF PluginInit
<1>2. Idle \in [Threads -> Writes] /\ Len(Seeds) \in Nat
  BY SeedsAssumption DEF Idle, Writes
<1>3. Stored
  BY <1>2, CrashesAssumption DEF PluginInit, Stored
<1> QED BY <1>1, <1>3 DEF PluginInit, Base

LEMMA AlwaysBase == PluginSpec => []Base
<1> QED BY InitBase, StepBase, PTL DEF PluginSpec

(* Every store keeps what its readers expect, through crashes and starts.  *)
THEOREM PluginTypeCorrect == PluginSpec => []PluginTypeOK
<1>1. Base => PluginTypeOK
  <2> SUFFICES ASSUME Base
               PROVE  PluginTypeOK
    OBVIOUS
  <2>1. TypeOK
    BY LevelsAssumption
       DEF Base, Linked, PoolOK, TypeOK, Tips, Pools, Bin
  <2> QED BY <2>1 DEF Base, Stored, Writes, PluginTypeOK
<1> QED BY <1>1, AlwaysBase, PTL

(* A restored pool, and every pool that grows from it, is as linked and    *)
(* ordered as one whose blocks were delivered in the first place.          *)
THEOREM RestoredPoolAlwaysLinked == PluginSpec => []RestoredPoolIsLinked
<1>1. Base => RestoredPoolIsLinked
  BY DEF Base, Linked, PoolOK, NoDup, RestoredPoolIsLinked, HeightsByBin,
         LinksExact, NoDuplicates
<1> QED BY <1>1, AlwaysBase, PTL

-----------------------------------------------------------------------------
(* What the handlers do to the ids of the pool.                            *)
LEMMA UnchangedIds ==
    ASSUME Base, NEW b \in Blocks, Reject(b) \/ Drop(b)
    PROVE  IdsOf(pool') = IdsOf(pool)
<1>1. CASE Reject(b)
  BY <1>1 DEF Reject, vars
<1>2. CASE Drop(b)
  <2>1. pool \in Pools /\ confirmed \in Tips
    BY DEF Base, Linked, PoolOK
  <2>2. BinOf(confirmed, b) \in Nat
    <3>1. b.height \in Nat /\ confirmed.height \in Nat
      BY <2>1, BlockFields DEF Tips
    <3>2. confirmed.height < b.height
      BY <1>2 DEF Drop, Admitted
    <3> QED BY <3>1, <3>2 DEF BinOf
  <2> QED BY <1>2, <2>1, <2>2, GrownIds DEF Drop
<1> QED BY <1>1, <1>2

LEMMA PushedIds ==
    ASSUME Base, NEW b \in Blocks, Push(b)
    PROVE  IdsOf(pool') = IdsOf(pool) \cup {b.id}
  BY PushedBlock DEF Push

LEMMA ResolvedIds ==
    ASSUME Base, NEW b \in Blocks, PushAndResolve(b)
    PROVE  IdsOf(pool') \subseteq IdsOf(pool) \cup {b.id}
  BY ResolvedBlock DEF PushAndResolve

LEMMA ResultIds ==
    ASSUME Base, NEW i \in DOMAIN pool, NEW j \in DOMAIN pool[i],
           ProcessTxResult(i, j)
    PROVE  /\ IdsOf(pool') = IdsOf(pool)
           /\ pool[i][j].blk.id \in BlockIds
           /\ IndexOfId(pool[i], pool[i][j].blk.id) \in DOMAIN pool[i]
           /\ pool[i][IndexOfId(pool[i], pool[i][j].blk.id)].blk.id =
                  pool[i][j].blk.id
<1> DEFINE id == pool[i][j].blk.id
           k == IndexOfId(pool[i], id)
<1>1. pool \in Pools /\ pool[i] \in Bin /\ DOMAIN pool[i] = 1..Len(pool[i])
      /\ Len(pool[i]) \in Nat
  BY BinsOfPool DEF Base, Linked, PoolOK
<1>2. FirstWithId(pool[i], id, k)
  BY <1>1, IndexOfIdIsFirst
<1>3. SetUnresolvedBlock(i, k)
  BY DEF ProcessTxResult
<1>4. id \in BlockIds
  BY <1>1, EntryIds DEF IdsOf
<1> HIDE DEF k
<1>5. k \in DOMAIN pool[i] /\ pool[i][k].blk.id = id
  BY <1>1, <1>2 DEF FirstWithId
<1>6. IdsOf(pool') = IdsOf(pool)
  BY <1>1, <1>3, <1>5, ProcessedIds DEF SetUnresolvedBlock
<1> QED BY <1>4, <1>5, <1>6 DEF k

(* The rows and the backups that writes rely on.  A row that failed is     *)
(* waited for no longer.                                                   *)
RowMade(id) ==
    \/ \E r \in Range(rows) : r.id = id
    \/ \E w \in failed : w.op = "row" /\ w.blk.id = id

Here ==
    {<<"row", r.id>> : r \in Range(rows)}
    \cup {<<"row", w.blk.id>> : w \in {v \in failed : v.op = "row"}}
    \cup {<<"block", id>> : id \in DOMAIN blockBackup \cup SeedIds}

(* Every thread's writes find what they need, on disk or written before    *)
(* them; every block of the pool is backed up, a seed, or about to be      *)
(* backed up by the io thread.                                             *)
WritesInOrder == \A t \in Threads : InOrder(todo[t], Here)

PoolBacked ==
    \A id \in IdsOf(pool) : <<"block", id>> \in Here \cup GivenBy(todo["io"])

OrderInv ==
    WritesInOrder /\ PoolBacked /\ ListedBlocksAreBackedUp /\ RowsBeforeEffects

LEMMA HereMeans ==
    /\ \A id : <<"row", id>> \in Here <=> RowMade(id)
    /\ \A id : <<"block", id>> \in Here <=> id \in DOMAIN blockBackup \cup SeedIds
  BY DEF Here, RowMade

LEMMA GivenByTail ==
    ASSUME NEW s \in Writes, s # <<>>
    PROVE  GivenBy(s) = Gives(Head(s)) \cup GivenBy(Tail(s))
<1>1. /\ Len(s) \in Nat \ {0}
      /\ Len(Tail(s)) = Len(s) - 1 /\ Head(s) = s[1]
      /\ \A n \in 1..Len(Tail(s)) : Tail(s)[n] = s[n + 1]
  BY HeadTailProperties DEF Writes
<1>2. ASSUME NEW y \in GivenBy(s)
      PROVE  y \in Gives(Head(s)) \cup GivenBy(Tail(s))
  <2>1. PICK m \in 1..Len(s) : y \in Gives(s[m])
    BY DEF GivenBy
  <2>2. CASE m = 1
    BY <1>1, <2>1, <2>2
  <2>3. CASE m # 1
    <3>1. m - 1 \in 1..Len(Tail(s)) /\ Tail(s)[m - 1] = s[m]
      BY <1>1, <2>3
    <3> QED BY <2>1, <3>1 DEF GivenBy
  <2> QED BY <2>2, <2>3
<1>3. Gives(Head(s)) \subseteq GivenBy(s)
  <2>1. 1 \in 1..Len(s)
    BY <1>1
  <2> QED BY <1>1, <2>1 DEF GivenBy
<1>4. ASSUME NEW y \in GivenBy(Tail(s))
      PROVE  y \in GivenBy(s)
  <2>1. PICK m \in 1..Len(Tail(s)) : y \in Gives(Tail(s)[m])
    BY DEF GivenBy
  <2>2. m + 1 \in 1..Len(s) /\ Tail(s)[m] = s[m + 1]
    BY <1>1
  <2> QED BY <2>1, <2>2 DEF GivenBy
<1> QED BY <1>2, <1>3, <1>4

(* A write leaves behind what it gives and takes nothing away.             *)
LEMMA PerformedHere ==
    ASSUME Base, NEW x \in WriteOp, Perform(x)
    PROVE  Here \cup Gives(x) \subseteq Here'
<1>1. rows \in Seq(Blocks)
  BY DEF Base, Stored
<1>2. Range(rows) \subseteq Range(rows')
      /\ (x.op = "row" => \E r \in Range(rows') : r.id = x.blk.id)
  <2>1. CASE rows' = rows
    BY <2>1 DEF Perform
  <2>2. CASE x.op = "row" /\ rows' = Append(rows, x.blk)
    <3>1. x.blk \in Blocks
      BY <2>2, WriteFields
    <3>2. /\ Len(rows) \in Nat /\ DOMAIN rows = 1..Len(rows)
          /\ DOMAIN rows' = 1..(Len(rows) + 1)
          /\ \A i \in 1..Len(rows) : rows'[i] = rows[i]
          /\ rows'[Len(rows) + 1] = x.blk
      BY <1>1, <2>2, <3>1
    <3>3. Len(rows) + 1 \in DOMAIN rows' /\ \A i \in DOMAIN rows : i \in DOMAIN rows'
      BY <3>2
    <3> QED BY <3>2, <3>3 DEF Range
  <2> QED BY <2>1, <2>2 DEF Perform
<1>3. DOMAIN blockBackup \subseteq DOMAIN blockBackup'
      /\ (x.op = "block" => x.blk.id \in DOMAIN blockBackup')
      /\ failed' = failed
  BY DEF Perform
<1> QED BY <1>2, <1>3 DEF Here, Gives

(* Nor does a write that fails: of a row that failed there is a record.    *)
LEMMA FailedHere ==
    ASSUME NEW x \in WriteOp, x.op \in {"row", "effects"},
           failed' = failed \cup {x}, UNCHANGED <<rows, blockBackup>>
    PROVE  Here \cup Gives(x) \subseteq Here'
<1>1. ASSUME NEW y \in Here
      PROVE  y \in Here'
  BY DEF Here
<1>2. ASSUME x.op = "row"
      PROVE  <<"row", x.blk.id>> \in Here'
  BY <1>2 DEF Here
<1> QED BY <1>1, <1>2 DEF Gives

LEMMA StepOrder == Base /\ OrderInv /\ [PluginNext]_pluginVars => OrderInv'
<1> SUFFICES ASSUME Base, OrderInv, [PluginNext]_pluginVars
             PROVE  OrderInv'
  OBVIOUS
<1> USE SeedBlocks
<1>0. /\ WritesInOrder /\ PoolBacked /\ ListedBlocksAreBackedUp /\ RowsBeforeEffects
      /\ todo \in [Threads -> Writes] /\ Threads = {"main", "io"}
      /\ \A K : InOrder(<<>>, K)
      /\ GivenBy(<<>>) = {}
  BY DEF OrderInv, Base, Stored, Threads, InOrder, GivenBy
<1>1. ASSUME UNCHANGED disk, WritesInOrder',
             \A id \in IdsOf(pool') : <<"block", id>> \in Here \cup GivenBy(todo'["io"])
      PROVE  OrderInv'
  <2>1. Here' = Here
    BY <1>1 DEF Here, disk
  <2>2. PoolBacked'
    BY <1>1, <2>1 DEF PoolBacked
  <2>3. ListedBlocksAreBackedUp' /\ RowsBeforeEffects'
    BY <1>0, <1>1 DEF ListedBlocksAreBackedUp, RowsBeforeEffects, disk
  <2> QED BY <1>1, <2>2, <2>3 DEF OrderInv
<1>2. ASSUME NEW t \in Threads, UNCHANGED disk, InOrder(todo'[t], Here),
             \A u \in Threads \ {t} : todo'[u] = todo[u]
      PROVE  WritesInOrder'
  <2>1. Here' = Here
    BY <1>2 DEF Here, disk
  <2>2. \A u \in Threads : InOrder(todo'[u], Here)
    BY <1>0, <1>2 DEF WritesInOrder
  <2> QED BY <2>1, <2>2 DEF WritesInOrder
<1>3. ASSUME UNCHANGED <<todo, disk>>, IdsOf(pool') \subseteq IdsOf(pool) \cup SeedIds
      PROVE  OrderInv'
  <2>1. Here' = Here
    BY <1>3 DEF Here, disk
  <2>2. WritesInOrder'
    BY <1>0, <1>3, <2>1 DEF WritesInOrder
  <2>3. \A id \in IdsOf(pool') : <<"block", id>> \in Here \cup GivenBy(todo'["io"])
    BY <1>0, <1>3, HereMeans DEF PoolBacked
  <2> QED BY <1>1, <1>3, <2>2, <2>3
<1>4. CASE Start
  <2>1. slots \in Nat /\ BackupReadable
    BY <1>4, RestorableReadable, LevelsAssumption DEF Base, Start
  <2>2. IdsOf(RestoredPool) \subseteq Range(listed)
    BY <2>1, RestoredPoolLinked
  <2>3. \A id \in IdsOf(pool') : <<"block", id>> \in Here
    BY <1>4, <2>2, HereMeans DEF Start, Restorable
  <2>4. Here' = Here /\ UNCHANGED <<todo, disk>>
    BY <1>4 DEF Start, Here, disk
  <2>5. WritesInOrder'
    BY <1>0, <2>4 DEF WritesInOrder
  <2> QED BY <1>1, <2>3, <2>4, <2>5
<1>5. CASE StartThrows \/ AllSeeded
  BY <1>3, <1>5 DEF StartThrows, AllSeeded, vars
<1>6. CASE Crash
  <2>1. UNCHANGED disk /\ todo' = Idle /\ pool' = <<>>
    BY <1>6 DEF Crash
  <2>2. Here' = Here
    BY <2>1 DEF Here, disk
  <2>3. WritesInOrder'
    BY <1>0, <2>1 DEF WritesInOrder, Idle
  <2>4. IdsOf(pool') = {}
    BY <2>1, EmptyPool
  <2> QED BY <1>1, <2>1, <2>3, <2>4
<1>7. ASSUME NEW b \in Range(Seeds), PushSeed(b)
      PROVE  OrderInv'
  <2>1. IdsOf(pool') \subseteq IdsOf(pool) \cup SeedIds
    BY <1>7, PushedIds DEF PushSeed
  <2> QED BY <1>3, <1>7, <2>1 DEF PushSeed
<1>8. ASSUME NEW b \in Range(Seeds), PushSeedAndResolve(b)
      PROVE  OrderInv'
  <2>1. PICK w \in DOMAIN WithBlock(b)[1] :
           /\ Resolves(WithBlock(b), confirmed, b, w)
           /\ todo' = [todo EXCEPT !["main"] = ResolveWrites(WithBlock(b), w)]
    BY <1>8 DEF PushSeedAndResolve
  <2>2. InOrder(ResolveWrites(WithBlock(b), w), Here)
    <3>1. b \in Blocks /\ Accepted(b)
      BY <1>8 DEF PushSeedAndResolve, PushAndResolve
    <3> QED BY <2>1, <3>1, PushedBlock, ResolvedBlock, ResolveWritesOf
  <2>3. UNCHANGED disk /\ todo'["io"] = todo["io"]
        /\ todo'["main"] = ResolveWrites(WithBlock(b), w)
    BY <1>0, <1>8, <2>1 DEF PushSeedAndResolve
  <2>4. WritesInOrder'
    BY <1>0, <1>2, <2>2, <2>3
  <2>5. IdsOf(pool') \subseteq IdsOf(pool) \cup {b.id}
    BY <1>8, ResolvedIds DEF PushSeedAndResolve
  <2>6. \A id \in IdsOf(pool') : <<"block", id>> \in Here \cup GivenBy(todo'["io"])
    BY <1>0, <2>3, <2>5, HereMeans DEF PoolBacked
  <2> QED BY <1>1, <2>3, <2>4, <2>6
<1>9. ASSUME NEW b \in Blocks, Reject(b) \/ Drop(b), UNCHANGED <<todo, disk>>
      PROVE  OrderInv'
  <2>1. IdsOf(pool') = IdsOf(pool)
    BY <1>9, UnchangedIds
  <2> QED BY <1>3, <1>9, <2>1
<1>10. ASSUME NEW b \in Blocks, ReceiveBlock(b)
       PROVE  OrderInv'
  <2>1. /\ Push(b) /\ UNCHANGED disk /\ todo["io"] = <<>>
        /\ todo'["main"] = todo["main"]
        /\ todo'["io"] = BackUp(b, WithBlock(b))
    BY <1>0, <1>10 DEF ReceiveBlock, Receiving
  <2>2. WithBlock(b) \in Pools /\ IdsOf(WithBlock(b)) = IdsOf(pool) \cup {b.id}
    BY <2>1, PushedBlock DEF Push
  <2>3. \A id \in IdsOf(WithBlock(b)) \ {b.id} : <<"block", id>> \in Here
    BY <1>0, <2>1, <2>2 DEF PoolBacked
  <2>4. InOrder(todo'["io"], Here) /\ GivenBy(todo'["io"]) = {<<"block", b.id>>}
    <3> DEFINE p == WithBlock(b)
               K == Here
    <3>1. p \in Pools /\ \A id \in IdsOf(p) \ {b.id} : <<"block", id>> \in K
      BY <2>2, <2>3
    <3>2. todo'["io"] = BackUp(b, p)
      BY <2>1
    <3> HIDE DEF p, K
    <3>3. InOrder(BackUp(b, p), K) /\ GivenBy(BackUp(b, p)) = {<<"block", b.id>>}
      BY <3>1, BackUpWrites
    <3> QED BY <3>2, <3>3 DEF K
  <2>5. WritesInOrder'
    BY <1>0, <1>2, <2>1, <2>4
  <2>6. \A id \in IdsOf(pool') : <<"block", id>> \in Here \cup GivenBy(todo'["io"])
    BY <2>1, <2>3, <2>4 DEF Push
  <2> QED BY <1>1, <2>1, <2>5, <2>6
<1>11. ASSUME NEW b \in Blocks, ReceiveAndResolve(b)
       PROVE  OrderInv'
  <2>1. PICK w \in DOMAIN WithBlock(b)[1] :
           /\ Resolves(WithBlock(b), confirmed, b, w)
           /\ todo' = [todo EXCEPT !["io"] = ReceiveWrites(b, WithBlock(b), w)]
    BY <1>11 DEF ReceiveAndResolve, ReceiveWrites
  <2>2. /\ PushAndResolve(b) /\ Accepted(b) /\ UNCHANGED disk /\ todo["io"] = <<>>
        /\ todo'["main"] = todo["main"]
        /\ todo'["io"] = ReceiveWrites(b, WithBlock(b), w)
    BY <1>0, <1>11, <2>1 DEF ReceiveAndResolve, Receiving, PushAndResolve
  <2>3. WithBlock(b) \in Pools /\ IdsOf(WithBlock(b)) = IdsOf(pool) \cup {b.id}
        /\ Len(WithBlock(b)) >= 2
    BY <2>1, <2>2, PushedBlock, ResolvedBlock
  <2>4. \A id \in IdsOf(pool) : <<"block", id>> \in Here
    BY <1>0, <2>2 DEF PoolBacked
  <2>5. \A id \in IdsOf(WithBlock(b)) \ {b.id} : <<"block", id>> \in Here
    BY <2>3, <2>4
  <2>6. InOrder(todo'["io"], Here) /\ <<"block", b.id>> \in GivenBy(todo'["io"])
    BY <2>2, <2>3, <2>5, ReceiveWritesOf
  <2>7. WritesInOrder'
    BY <1>0, <1>2, <2>2, <2>6
  <2>8. IdsOf(pool') \subseteq IdsOf(pool) \cup {b.id}
    BY <2>2, ResolvedIds
  <2>9. \A id \in IdsOf(pool') : <<"block", id>> \in Here \cup GivenBy(todo'["io"])
    BY <2>4, <2>6, <2>8
  <2> QED BY <1>1, <2>2, <2>7, <2>9
<1>12. ASSUME NEW i \in DOMAIN pool, NEW j \in DOMAIN pool[i], ProcessTxResult(i, j)
       PROVE  OrderInv'
  <2> DEFINE id == pool[i][j].blk.id
             s == SaveBackupResult(id)
  <2>1. IdsOf(pool') = IdsOf(pool) /\ id \in BlockIds
    BY <1>12, ResultIds
  <2>2. /\ UNCHANGED disk /\ todo["io"] = <<>>
        /\ todo'["main"] = todo["main"] /\ todo'["io"] = s
    BY <1>0, <1>12 DEF ProcessTxResult
  <2>3. s \in Writes
        /\ Range(s) = {[op |-> "result", key |-> <<k, id>>] : k \in Range(Stores)}
    BY <2>1, PerStoreWrites DEF SaveBackupResult
  <2> HIDE DEF s, id
  <2>4. \A n \in 1..Len(s) : s[n] \in Range(s)
    BY <2>3 DEF Writes, Range
  <2>5. \A n \in 1..Len(s) : Needs(s[n]) = {}
    BY <2>3, <2>4 DEF Needs
  <2>6. InOrder(s, Here)
    BY <2>5, NothingNeeded
  <2>7. WritesInOrder'
    BY <1>0, <1>2, <2>2, <2>6
  <2>8. \A x \in IdsOf(pool') : <<"block", x>> \in Here \cup GivenBy(todo'["io"])
    BY <1>0, <2>1, <2>2 DEF PoolBacked
  <2> QED BY <1>1, <2>2, <2>7, <2>8
<1>13. ASSUME NEW t \in Threads, todo[t] # <<>>, todo'[t] = Tail(todo[t]),
              \A u \in Threads \ {t} : todo'[u] = todo[u], UNCHANGED pool,
              Here \cup Gives(Head(todo[t])) \subseteq Here'
       PROVE  WritesInOrder' /\ PoolBacked' /\ Needs(Head(todo[t])) \subseteq Here
  <2> DEFINE x == Head(todo[t])
             more == Here \cup Gives(x)
  <2>1. x \in WriteOp /\ todo[t] \in Writes
    BY <1>0, <1>13, NextWrite
  <2>2. more \subseteq Here'
    BY <1>13
  <2>3. /\ Needs(x) \subseteq Here
        /\ InOrder(Tail(todo[t]), more)
        /\ GivenBy(todo[t]) = Gives(x) \cup GivenBy(Tail(todo[t]))
    BY <1>0, <1>13, <2>1, InOrderTail, GivenByTail DEF WritesInOrder
  <2> HIDE DEF x, more
  <2>4. Here \subseteq Here'
    BY <2>2 DEF more
  <2>5. WritesInOrder'
    <3>1. InOrder(todo'[t], Here')
      BY <1>13, <2>2, <2>3, InOrderGrows
    <3>2. \A u \in Threads \ {t} : InOrder(todo'[u], Here')
      BY <1>0, <1>13, <2>4, InOrderGrows DEF WritesInOrder
    <3> QED BY <3>1, <3>2 DEF WritesInOrder
  <2>6. PoolBacked'
    <3>1. GivenBy(todo["io"]) \subseteq Gives(x) \cup GivenBy(todo'["io"])
      BY <1>0, <1>13, <2>3
    <3>2. Here \cup GivenBy(todo["io"]) \subseteq Here' \cup GivenBy(todo'["io"])
      BY <2>2, <3>1 DEF more
    <3> QED BY <1>0, <1>13, <3>2 DEF PoolBacked
  <2> QED BY <2>3, <2>5, <2>6 DEF x
<1>14. ASSUME NEW t \in Threads, Write(t)
       PROVE  OrderInv'
  <2> DEFINE x == Head(todo[t])
  <2>1. /\ todo[t] # <<>> /\ Perform(x)
        /\ todo'[t] = Tail(todo[t])
        /\ \A u \in Threads \ {t} : todo'[u] = todo[u]
        /\ UNCHANGED pool
    BY <1>0, <1>14 DEF Write, vars
  <2>2. x \in WriteOp
    BY <1>0, <2>1, NextWrite
  <2>3. Here \cup Gives(x) \subseteq Here'
    BY <2>1, <2>2, PerformedHere
  <2>4. WritesInOrder' /\ PoolBacked' /\ Needs(x) \subseteq Here
    BY <1>13, <2>1, <2>3
  <2> HIDE DEF x
  <2>5. ListedBlocksAreBackedUp'
    <3>1. CASE x.op = "ids"
      <4>1. listed' = x.ids
        BY <2>1, <3>1 DEF Perform
      <4>2. \A id \in Range(x.ids) : <<"block", id>> \in Here
        BY <2>4, <3>1 DEF Needs
      <4>3. \A id \in Range(x.ids) : id \in DOMAIN blockBackup \cup SeedIds
        BY <4>2, HereMeans
      <4>4. DOMAIN blockBackup \subseteq DOMAIN blockBackup'
        BY <2>1 DEF Perform
      <4> QED BY <4>1, <4>3, <4>4 DEF ListedBlocksAreBackedUp
    <3>2. CASE x.op # "ids"
      BY <1>0, <2>1, <3>2 DEF Perform, ListedBlocksAreBackedUp
    <3> QED BY <3>1, <3>2
  <2>6. RowsBeforeEffects'
    <3>1. \A id : <<"row", id>> \in Here => RowMade(id)'
      <4> SUFFICES ASSUME NEW id, <<"row", id>> \in Here
                   PROVE  RowMade(id)'
        OBVIOUS
      <4>1. <<"row", id>> \in Here'
        BY <2>3
      <4> QED BY <4>1 DEF Here, RowMade
    <3>2. \A id \in Range(effects) : <<"row", id>> \in Here
      BY <1>0, HereMeans DEF RowsBeforeEffects, RowMade
    <3>3. CASE x.op = "effects"
      <4>1. <<"row", x.id>> \in Here
        BY <2>4, <3>3 DEF Needs
      <4>2. effects' = Append(effects, x.id)
        BY <2>1, <3>3 DEF Perform
      <4>3. Range(effects') \subseteq Range(effects) \cup {x.id}
        <5>1. effects \in Seq(BlockIds) /\ x.id \in BlockIds
          BY <2>2, <3>3, WriteFields DEF Base, Stored
        <5>2. /\ Len(effects) \in Nat /\ DOMAIN effects = 1..Len(effects)
              /\ DOMAIN effects' = 1..(Len(effects) + 1)
              /\ \A n \in 1..Len(effects) : effects'[n] = effects[n]
              /\ effects'[Len(effects) + 1] = x.id
          BY <4>2, <5>1
        <5>3. \A n \in DOMAIN effects' : n \in DOMAIN effects \/ n = Len(effects) + 1
          BY <5>2
        <5> QED BY <5>2, <5>3 DEF Range
      <4> QED BY <3>1, <3>2, <4>1, <4>3 DEF RowsBeforeEffects, RowMade
    <3>4. CASE x.op # "effects"
      <4>1. effects' = effects
        BY <2>1, <3>4 DEF Perform
      <4> QED BY <3>1, <3>2, <4>1 DEF RowsBeforeEffects, RowMade
    <3> QED BY <3>3, <3>4
  <2> QED BY <2>4, <2>5, <2>6 DEF OrderInv
<1>15. ASSUME NEW t \in Threads, WriteFails(t)
       PROVE  OrderInv'
  <2> DEFINE x == Head(todo[t])
  <2>1. /\ todo[t] # <<>> /\ x.op \in {"row", "effects"}
        /\ todo'[t] = Tail(todo[t])
        /\ \A u \in Threads \ {t} : todo'[u] = todo[u]
        /\ UNCHANGED <<pool, listed, blockBackup, rows, effects>>
        /\ failed' = failed \cup {x}
    BY <1>0, <1>15 DEF WriteFails, vars
  <2>2. x \in WriteOp
    BY <1>0, <2>1, NextWrite
  <2>3. Here \cup Gives(x) \subseteq Here'
    BY <2>1, <2>2, FailedHere
  <2>4. WritesInOrder' /\ PoolBacked'
    BY <1>13, <2>1, <2>3
  <2> HIDE DEF x
  <2>5. ListedBlocksAreBackedUp' /\ RowsBeforeEffects'
    BY <1>0, <2>1 DEF ListedBlocksAreBackedUp, RowsBeforeEffects
  <2> QED BY <2>4, <2>5 DEF OrderInv
<1>16. ASSUME NEW t \in Threads, LoseWrite(t)
       PROVE  OrderInv'
  <2> DEFINE x == Head(todo[t])
  <2>1. /\ todo[t] # <<>> /\ x.op \in {"result", "forget"}
        /\ todo'[t] = Tail(todo[t])
        /\ \A u \in Threads \ {t} : todo'[u] = todo[u]
        /\ UNCHANGED <<pool, listed, blockBackup, rows, effects, failed>>
    BY <1>0, <1>16 DEF LoseWrite, vars
  <2>2. Here \cup Gives(x) \subseteq Here'
    <3>1. Gives(x) = {} /\ Here' = Here
      BY <2>1 DEF Gives, Here
    <3> QED BY <3>1
  <2>3. WritesInOrder' /\ PoolBacked'
    BY <1>13, <2>1, <2>2
  <2> HIDE DEF x
  <2>4. ListedBlocksAreBackedUp' /\ RowsBeforeEffects'
    BY <1>0, <2>1 DEF ListedBlocksAreBackedUp, RowsBeforeEffects
  <2> QED BY <2>3, <2>4 DEF OrderInv
<1>17. CASE UNCHANGED pluginVars
  BY <1>3, <1>17 DEF pluginVars, vars
<1> QED
  BY <1>4, <1>5, <1>6, <1>7, <1>8, <1>9, <1>10, <1>11, <1>12, <1>14, <1>15, <1>16, <1>17
     DEF PluginNext, SeedFails, IgnoreBlock

LEMMA AlwaysInOrder == PluginSpec => []OrderInv
<1>1. PluginInit => OrderInv
  <2> SUFFICES ASSUME PluginInit
               PROVE  OrderInv
    OBVIOUS
  <2>1. IdsOf(pool) = {}
    BY EmptyPool DEF PluginInit
  <2>2. WritesInOrder
    BY DEF PluginInit, Idle, WritesInOrder, InOrder
  <2>3. Range(listed) = {} /\ Range(effects) = {}
    BY DEF PluginInit, Range
  <2> QED BY <2>1, <2>2, <2>3
          DEF OrderInv, PoolBacked, ListedBlocksAreBackedUp, RowsBeforeEffects
<1> QED BY <1>1, StepOrder, AlwaysBase, PTL DEF PluginSpec

(* Whenever the process dies, the list on disk names only blocks that are  *)
(* backed up or seeds: every handler backs a block up before it lists it,  *)
(* and nothing deletes a block's backup.                                   *)
THEOREM ListedBlocksAlwaysBackedUp == PluginSpec => []ListedBlocksAreBackedUp
<1> QED BY AlwaysInOrder, PTL DEF OrderInv

(* The effects of a block are never in the database without its row,       *)
(* whatever the other thread writes and whenever the process dies, unless  *)
(* the database refused the row.                                           *)
THEOREM RowsAlwaysBeforeEffects == PluginSpec => []RowsBeforeEffects
<1> QED BY AlwaysInOrder, PTL DEF OrderInv

-----------------------------------------------------------------------------
(* Results are only ever deleted of blocks whose height is confirmed: the  *)
(* pool's entries lie above it.                                            *)
ForgetsBelow(s, h) ==
    \A x \in Range(s) : x.op = "forget" =>
        \A b \in Blocks : b.id = x.key[2] => b.height <= h

ForgetsConfirmed == \A t \in Threads : ForgetsBelow(todo[t], confirmed.height)

(* The results of a block are in every store, on the way there, or lost.   *)
Reaches(id, kept, s) ==
    \A k \in Range(Stores) :
        <<k, id>> \in kept \/ [op |-> "result", key |-> <<k, id>>] \in Range(s)

DoneReach == \A id \in DoneOf(pool) : Reaches(id, resultBackup \cup lost, todo["io"])

ResultsInv == ForgetsConfirmed /\ DoneReach

LEMMA RangeTail ==
    ASSUME NEW s \in Writes, s # <<>>
    PROVE  Range(s) = {Head(s)} \cup Range(Tail(s))
<1>1. /\ Len(s) \in Nat \ {0} /\ DOMAIN s = 1..Len(s)
      /\ DOMAIN Tail(s) = 1..(Len(s) - 1) /\ Head(s) = s[1]
      /\ \A n \in 1..(Len(s) - 1) : Tail(s)[n] = s[n + 1]
  <2>1. Tail(s) \in Writes
    BY HeadTailProperties DEF Writes
  <2> QED BY <2>1, HeadTailProperties DEF Writes
<1>2. ASSUME NEW y \in Range(s)
      PROVE  y \in {Head(s)} \cup Range(Tail(s))
  <2>1. PICK m \in 1..Len(s) : y = s[m]
    BY <1>1 DEF Range
  <2>2. CASE m = 1
    BY <1>1, <2>1, <2>2
  <2>3. CASE m # 1
    <3>1. m - 1 \in DOMAIN Tail(s) /\ Tail(s)[m - 1] = s[m]
      BY <1>1, <2>3
    <3> QED BY <2>1, <3>1 DEF Range
  <2> QED BY <2>2, <2>3
<1>3. Head(s) \in Range(s)
  <2>1. 1 \in DOMAIN s
    BY <1>1
  <2> QED BY <1>1, <2>1 DEF Range
<1>4. ASSUME NEW y \in Range(Tail(s))
      PROVE  y \in Range(s)
  <2>1. PICK m \in 1..(Len(s) - 1) : y = Tail(s)[m]
    BY <1>1 DEF Range
  <2>2. m + 1 \in DOMAIN s /\ Tail(s)[m] = s[m + 1]
    BY <1>1
  <2> QED BY <2>1, <2>2 DEF Range
<1> QED BY <1>2, <1>3, <1>4

(* An id in the pool belongs to a block above the confirmed one.           *)
LEMMA DoneAbove ==
    ASSUME NEW p, NEW c, PoolOK(p, c), NEW id \in DoneOf(p)
    PROVE  \E b \in Blocks : b.id = id /\ b.height > c.height
<1>1. PICK i \in DOMAIN p : \E j \in DOMAIN p[i] : p[i][j].blk.id = id
  BY DEF DoneOf
<1>2. PICK j \in DOMAIN p[i] : p[i][j].blk.id = id
  BY <1>1
<1>3. p \in Pools /\ c.height \in Nat /\ p[i][j].blk.height = c.height + i
  BY DEF PoolOK, ByHeight, Tips
<1>4. i \in Nat \ {0}
  BY <1>3, BinsOfPool
<1>5. p[i][j].blk \in Blocks
  BY <1>3, EntryIds
<1> QED BY <1>2, <1>3, <1>4, <1>5

LEMMA ReachesMore ==
    ASSUME NEW id, NEW kept, NEW s, Reaches(id, kept, s), NEW more, NEW t,
           kept \subseteq more, Range(s) \subseteq Range(t)
    PROVE  Reaches(id, more, t)
  BY DEF Reaches

LEMMA ForgetsMore ==
    ASSUME NEW s, NEW h \in Nat, NEW k \in Nat, h <= k, ForgetsBelow(s, h)
    PROVE  ForgetsBelow(s, k)
  BY BlocksAssumption DEF ForgetsBelow

LEMMA StepResults == Base /\ ResultsInv /\ [PluginNext]_pluginVars => ResultsInv'
<1> SUFFICES ASSUME Base, ResultsInv, [PluginNext]_pluginVars
             PROVE  ResultsInv'
  OBVIOUS
<1> USE SeedBlocks
<1>0. /\ ForgetsConfirmed /\ DoneReach
      /\ todo \in [Threads -> Writes] /\ Threads = {"main", "io"}
      /\ Range(<<>>) = {} /\ (\A h : ForgetsBelow(<<>>, h))
      /\ pool \in Pools /\ PoolOK(pool, confirmed) /\ confirmed.height \in Nat
  BY DEF ResultsInv, Base, Stored, Linked, PoolOK, Tips, Threads, Range, ForgetsBelow
<1> DEFINE kept == resultBackup \cup lost
<1>1. ASSUME UNCHANGED disk, ForgetsConfirmed',
             \A id \in DoneOf(pool') : Reaches(id, kept, todo'["io"])
      PROVE  ResultsInv'
  BY <1>1 DEF disk, ResultsInv, DoneReach
<1>2. ASSUME UNCHANGED <<todo, disk>>, confirmed' = confirmed,
             DoneOf(pool') \subseteq DoneOf(pool)
      PROVE  ResultsInv'
  <2>1. ForgetsConfirmed'
    BY <1>0, <1>2 DEF ForgetsConfirmed
  <2> QED BY <1>0, <1>1, <1>2, <2>1 DEF DoneReach
<1>3. CASE Start
  <2>1. slots \in Nat /\ BackupReadable
    BY <1>3, RestorableReadable, LevelsAssumption DEF Base, Start
  <2>2. DoneOf(pool') = {}
    BY <1>3, <2>1, RestoredPoolLinked DEF Start
  <2>3. UNCHANGED disk /\ todo' = Idle
    BY <1>3 DEF Start, disk, Base, Stored
  <2>4. ForgetsConfirmed'
    BY <1>0, <2>3 DEF ForgetsConfirmed, Idle
  <2> QED BY <1>1, <2>2, <2>3, <2>4
<1>4. CASE StartThrows \/ AllSeeded
  BY <1>2, <1>4 DEF StartThrows, AllSeeded, vars
<1>5. CASE Crash
  <2>1. UNCHANGED disk /\ todo' = Idle /\ pool' = <<>>
    BY <1>5 DEF Crash
  <2>2. ForgetsConfirmed'
    BY <1>0, <2>1 DEF ForgetsConfirmed, Idle
  <2>3. DoneOf(pool') = {}
    BY <2>1, EmptyPool
  <2> QED BY <1>1, <2>1, <2>2, <2>3
<1>6. ASSUME NEW b \in Blocks, Push(b)
      PROVE  DoneOf(pool') \subseteq DoneOf(pool)
  BY <1>6, PushedBlock DEF Push
<1>7. ASSUME NEW b \in Blocks, Reject(b) \/ Drop(b)
      PROVE  DoneOf(pool') \subseteq DoneOf(pool) /\ confirmed' = confirmed
  <2>1. CASE Reject(b)
    BY <2>1 DEF Reject, vars
  <2>2. CASE Drop(b)
    <3>1. BinOf(confirmed, b) \in Nat
      <4>1. b.height \in Nat /\ confirmed.height < b.height
        BY <2>2, BlockFields DEF Drop, Admitted
      <4> QED BY <1>0, <4>1 DEF BinOf
    <3> QED BY <1>0, <2>2, <3>1, GrownDone DEF Drop
  <2> QED BY <1>7, <2>1, <2>2
<1>8. ASSUME NEW b \in Blocks, PushAndResolve(b)
      PROVE  /\ DoneOf(pool') \subseteq DoneOf(pool)
             /\ confirmed'.height = confirmed.height + 1
  BY <1>8, PushedBlock, ResolvedBlock, PoppedDone DEF PushAndResolve
<1>9. ASSUME NEW b \in Blocks, Accepted(b), NEW w \in DOMAIN WithBlock(b)[1],
             Resolves(WithBlock(b), confirmed, b, w), NEW s,
             \A x \in Range(s) : x.op = "forget" =>
                \E j \in DOMAIN WithBlock(b)[1] :
                    x.key[2] = WithBlock(b)[1][j].blk.id
      PROVE  ForgetsBelow(s, confirmed.height + 1)
  <2> SUFFICES ASSUME NEW x \in Range(s), x.op = "forget",
                      NEW d \in Blocks, d.id = x.key[2]
               PROVE  d.height <= confirmed.height + 1
    BY DEF ForgetsBelow
  <2>1. PICK j \in DOMAIN WithBlock(b)[1] : x.key[2] = WithBlock(b)[1][j].blk.id
    BY <1>9
  <2> DEFINE e == WithBlock(b)[1][j].blk
  <2>2. e.height = confirmed.height + 1 /\ 1 \in DOMAIN WithBlock(b)
    BY <1>9, ResolvedBlock
  <2>3. e \in Blocks
    BY <1>9, <2>2, PushedBlock, EntryIds
  <2>4. d.id = e.id
    BY <2>1
  <2> HIDE DEF e
  <2>5. d.height = e.height
    BY <2>3, <2>4, BlocksAssumption
  <2> QED BY <1>0, <2>2, <2>5
<1>10. ASSUME NEW b \in Range(Seeds), PushSeedAndResolve(b)
       PROVE  ResultsInv'
  <2>1. PICK w \in DOMAIN WithBlock(b)[1] :
           /\ Resolves(WithBlock(b), confirmed, b, w)
           /\ todo' = [todo EXCEPT !["main"] = ResolveWrites(WithBlock(b), w)]
    BY <1>10 DEF PushSeedAndResolve
  <2>2. /\ b \in Blocks /\ Accepted(b) /\ PushAndResolve(b) /\ UNCHANGED disk
        /\ todo'["io"] = todo["io"]
        /\ todo'["main"] = ResolveWrites(WithBlock(b), w)
    BY <1>0, <1>10, <2>1 DEF PushSeedAndResolve, PushAndResolve
  <2>3. \A x \in Range(ResolveWrites(WithBlock(b), w)) : x.op = "forget" =>
           \E j \in DOMAIN WithBlock(b)[1] : x.key[2] = WithBlock(b)[1][j].blk.id
    BY <2>1, <2>2, PushedBlock, ResolvedBlock, ResolveWritesOf
  <2>4. DoneOf(pool') \subseteq DoneOf(pool) /\ confirmed'.height = confirmed.height + 1
    BY <1>8, <2>2
  <2>5. ForgetsBelow(todo'["main"], confirmed.height + 1)
    BY <1>9, <2>1, <2>2, <2>3
  <2>6. ForgetsBelow(todo'["io"], confirmed.height + 1)
    BY <1>0, <2>2, ForgetsMore DEF ForgetsConfirmed
  <2>7. ForgetsConfirmed'
    BY <1>0, <2>4, <2>5, <2>6 DEF ForgetsConfirmed
  <2>8. \A id \in DoneOf(pool') : Reaches(id, kept, todo'["io"])
    BY <1>0, <2>2, <2>4 DEF DoneReach
  <2> QED BY <1>1, <2>2, <2>7, <2>8
<1>11. ASSUME NEW b \in Blocks, ReceiveBlock(b)
       PROVE  ResultsInv'
  <2>1. /\ Push(b) /\ UNCHANGED disk /\ todo["io"] = <<>> /\ confirmed' = confirmed
        /\ todo'["main"] = todo["main"]
        /\ todo'["io"] = BackUp(b, WithBlock(b))
    BY <1>0, <1>11 DEF ReceiveBlock, Receiving, Push
  <2>2. DoneOf(pool') \subseteq DoneOf(pool)
    BY <1>6, <2>1
  <2>3. ForgetsBelow(todo'["io"], confirmed.height)
    <3> DEFINE s == BackUp(b, WithBlock(b))
    <3>1. WithBlock(b) \in Pools
      BY <2>1, PushedBlock DEF Push
    <3>2. \A x \in Range(s) : x.op # "forget"
      BY <3>1, BackUpRange
    <3> HIDE DEF s
    <3>3. ForgetsBelow(s, confirmed.height)
      BY <3>2 DEF ForgetsBelow
    <3> QED BY <2>1, <3>3 DEF s
  <2>4. ForgetsConfirmed'
    BY <1>0, <2>1, <2>3 DEF ForgetsConfirmed
  <2>5. \A id \in DoneOf(pool') : Reaches(id, kept, todo'["io"])
    <3>1. Range(todo["io"]) \subseteq Range(todo'["io"])
      BY <1>0, <2>1
    <3> QED BY <1>0, <2>2, <3>1, ReachesMore DEF DoneReach
  <2> QED BY <1>1, <2>1, <2>4, <2>5
<1>12. ASSUME NEW b \in Blocks, ReceiveAndResolve(b)
       PROVE  ResultsInv'
  <2>1. PICK w \in DOMAIN WithBlock(b)[1] :
           /\ Resolves(WithBlock(b), confirmed, b, w)
           /\ todo' = [todo EXCEPT !["io"] = ReceiveWrites(b, WithBlock(b), w)]
    BY <1>12 DEF ReceiveAndResolve, ReceiveWrites
  <2>2. /\ PushAndResolve(b) /\ Accepted(b) /\ UNCHANGED disk /\ todo["io"] = <<>>
        /\ todo'["main"] = todo["main"]
        /\ todo'["io"] = ReceiveWrites(b, WithBlock(b), w)
    BY <1>0, <1>12, <2>1 DEF ReceiveAndResolve, Receiving, PushAndResolve
  <2>3. \A x \in Range(ReceiveWrites(b, WithBlock(b), w)) : x.op = "forget" =>
           \E j \in DOMAIN WithBlock(b)[1] : x.key[2] = WithBlock(b)[1][j].blk.id
    <3> DEFINE K == {<<"block", id>> : id \in IdsOf(WithBlock(b))}
    <3>1. WithBlock(b) \in Pools /\ Len(WithBlock(b)) >= 2
      BY <2>1, <2>2, PushedBlock, ResolvedBlock
    <3>2. \A id \in IdsOf(WithBlock(b)) \ {b.id} : <<"block", id>> \in K
      OBVIOUS
    <3> DEFINE p == WithBlock(b)
    <3> HIDE DEF K, p
    <3>3. /\ p \in Pools /\ Len(p) >= 2 /\ w \in DOMAIN p[1]
          /\ \A id \in IdsOf(p) \ {b.id} : <<"block", id>> \in K
      BY <2>1, <3>1, <3>2 DEF p
    <3>4. CarriesOnly(ReceiveWrites(b, p, w), b, p)
      BY <3>3, ReceiveWritesOf
    <3> QED BY <3>4 DEF p, CarriesOnly
  <2>4. DoneOf(pool') \subseteq DoneOf(pool) /\ confirmed'.height = confirmed.height + 1
    BY <1>8, <2>2
  <2>5. ForgetsBelow(todo'["io"], confirmed.height + 1)
    BY <1>9, <2>1, <2>2, <2>3
  <2>6. ForgetsBelow(todo'["main"], confirmed.height + 1)
    BY <1>0, <2>2, ForgetsMore DEF ForgetsConfirmed
  <2>7. ForgetsConfirmed'
    BY <1>0, <2>4, <2>5, <2>6 DEF ForgetsConfirmed
  <2>8. \A id \in DoneOf(pool') : Reaches(id, kept, todo'["io"])
    <3>1. Range(todo["io"]) \subseteq Range(todo'["io"])
      BY <1>0, <2>2
    <3> QED BY <1>0, <2>4, <3>1, ReachesMore DEF DoneReach
  <2> QED BY <1>1, <2>2, <2>7, <2>8
<1>13. ASSUME NEW i \in DOMAIN pool, NEW j \in DOMAIN pool[i], ProcessTxResult(i, j)
       PROVE  ResultsInv'
  <2> DEFINE id == pool[i][j].blk.id
             s == SaveBackupResult(id)
             k == IndexOfId(pool[i], id)
  <2>1. id \in BlockIds /\ k \in DOMAIN pool[i] /\ pool[i][k].blk.id = id
    BY <1>13, ResultIds
  <2>2. /\ UNCHANGED disk /\ todo["io"] = <<>> /\ confirmed' = confirmed
        /\ todo'["main"] = todo["main"] /\ todo'["io"] = s
        /\ pool' = [pool EXCEPT ![i][k].processed = TRUE]
    BY <1>0, <1>13 DEF ProcessTxResult, SetUnresolvedBlock
  <2>3. Range(s) = {[op |-> "result", key |-> <<x, id>>] : x \in Range(Stores)}
    BY <2>1, PerStoreWrites DEF SaveBackupResult
  <2> HIDE DEF s, id, k
  <2>4. DoneOf(pool') \subseteq DoneOf(pool) \cup {id}
    BY <1>0, <2>1, <2>2, ProcessedDone
  <2>5. ForgetsBelow(s, confirmed.height)
    BY <2>3 DEF ForgetsBelow
  <2>6. ForgetsConfirmed'
    BY <1>0, <2>2, <2>5 DEF ForgetsConfirmed
  <2>7. Reaches(id, kept, s)
    BY <2>3 DEF Reaches
  <2>8. \A d \in DoneOf(pool) : Reaches(d, kept, s)
    <3>1. Range(todo["io"]) \subseteq Range(s)
      BY <1>0, <2>2
    <3> QED BY <1>0, <3>1, ReachesMore DEF DoneReach
  <2> QED BY <1>1, <2>2, <2>4, <2>6, <2>7, <2>8
<1>14. ASSUME NEW t \in Threads, todo[t] # <<>>, todo'[t] = Tail(todo[t]),
              \A u \in Threads \ {t} : todo'[u] = todo[u], confirmed' = confirmed
       PROVE  /\ Head(todo[t]) \in WriteOp
              /\ Range(todo[t]) = {Head(todo[t])} \cup Range(todo'[t])
              /\ ForgetsConfirmed'
  <2>1. todo[t] \in Writes /\ Head(todo[t]) \in WriteOp
    BY <1>0, <1>14, NextWrite
  <2>2. Range(todo[t]) = {Head(todo[t])} \cup Range(todo'[t])
    BY <1>14, <2>1, RangeTail
  <2>3. \A u \in Threads : ForgetsBelow(todo'[u], confirmed.height)
    BY <1>0, <1>14, <2>2 DEF ForgetsConfirmed, ForgetsBelow
  <2> QED BY <1>14, <2>1, <2>2, <2>3 DEF ForgetsConfirmed
<1>15. ASSUME NEW t \in Threads, Write(t)
       PROVE  ResultsInv'
  <2> DEFINE x == Head(todo[t])
  <2>1. /\ todo[t] # <<>> /\ Perform(x)
        /\ todo'[t] = Tail(todo[t])
        /\ \A u \in Threads \ {t} : todo'[u] = todo[u]
        /\ UNCHANGED <<pool, confirmed>>
    BY <1>0, <1>15 DEF Write, vars
  <2>2. /\ x \in WriteOp
        /\ Range(todo[t]) = {x} \cup Range(todo'[t])
        /\ ForgetsConfirmed'
    BY <1>14, <2>1
  <2> HIDE DEF x
  <2>3. ASSUME NEW id \in DoneOf(pool), NEW k \in Range(Stores)
        PROVE  \/ <<k, id>> \in resultBackup' \cup lost'
               \/ [op |-> "result", key |-> <<k, id>>] \in Range(todo'["io"])
    <3> DEFINE key == <<k, id>>
               r == [op |-> "result", key |-> key]
    <3>1. key \in kept \/ r \in Range(todo["io"])
      BY <1>0 DEF DoneReach, Reaches
    <3>2. ~(x.op = "forget" /\ x.key = key)
      <4> SUFFICES ASSUME x.op = "forget", x.key = key
                   PROVE  FALSE
        OBVIOUS
      <4>1. PICK b \in Blocks : b.id = id /\ b.height > confirmed.height
        BY <1>0, DoneAbove
      <4>2. b.height <= confirmed.height
        BY <1>0, <2>2, <4>1 DEF ForgetsConfirmed, ForgetsBelow
      <4>3. b.height \in Nat
        BY BlockFields
      <4> QED BY <1>0, <4>1, <4>2, <4>3
    <3>3. CASE key \in kept
      <4>1. key \in resultBackup' \cup lost'
        BY <2>1, <3>2, <3>3 DEF Perform
      <4> QED BY <4>1
    <3>4. CASE r \in Range(todo["io"])
      <4>1. CASE r = x
        <5>1. x.op = "result" /\ x.key = key
          BY <4>1
        <5>2. key \in resultBackup'
          BY <2>1, <5>1 DEF Perform
        <5> QED BY <5>2
      <4>2. CASE r # x
        <5>1. r \in Range(todo'["io"])
          BY <1>0, <2>1, <2>2, <3>4, <4>2
        <5> QED BY <5>1
      <4> QED BY <4>1, <4>2
    <3> QED BY <3>1, <3>3, <3>4
  <2>4. DoneReach'
    BY <2>1, <2>3 DEF DoneReach, Reaches
  <2> QED BY <2>2, <2>4 DEF ResultsInv
<1>16. ASSUME NEW t \in Threads, LoseWrite(t)
       PROVE  ResultsInv'
  <2> DEFINE x == Head(todo[t])
  <2>1. /\ todo[t] # <<>>
        /\ todo'[t] = Tail(todo[t])
        /\ \A u \in Threads \ {t} : todo'[u] = todo[u]
        /\ UNCHANGED <<pool, confirmed, resultBackup>>
        /\ lost' = IF x.op = "result" THEN lost \cup {x.key} ELSE lost
    BY <1>0, <1>16 DEF LoseWrite, vars
  <2>2. /\ Range(todo[t]) = {x} \cup Range(todo'[t])
        /\ ForgetsConfirmed'
    BY <1>14, <2>1
  <2> HIDE DEF x
  <2>3. ASSUME NEW id \in DoneOf(pool), NEW k \in Range(Stores)
        PROVE  \/ <<k, id>> \in resultBackup' \cup lost'
               \/ [op |-> "result", key |-> <<k, id>>] \in Range(todo'["io"])
    <3> DEFINE key == <<k, id>>
               r == [op |-> "result", key |-> key]
    <3>1. key \in kept \/ r \in Range(todo["io"])
      BY <1>0 DEF DoneReach, Reaches
    <3>2. CASE key \in kept
      BY <2>1, <3>2
    <3>3. CASE r \in Range(todo["io"])
      <4>1. CASE r = x
        <5>1. x.op = "result" /\ x.key = key
          BY <4>1
        <5> QED BY <2>1, <5>1
      <4>2. CASE r # x
        <5>1. r \in Range(todo'["io"])
          BY <1>0, <2>1, <2>2, <3>3, <4>2
        <5> QED BY <5>1
      <4> QED BY <4>1, <4>2
    <3> QED BY <3>1, <3>2, <3>3
  <2>4. DoneReach'
    BY <2>1, <2>3 DEF DoneReach, Reaches
  <2> QED BY <2>2, <2>4 DEF ResultsInv
<1>17. ASSUME NEW t \in Threads, WriteFails(t)
       PROVE  ResultsInv'
  <2> DEFINE x == Head(todo[t])
  <2>1. /\ todo[t] # <<>> /\ x.op \in {"row", "effects"}
        /\ todo'[t] = Tail(todo[t])
        /\ \A u \in Threads \ {t} : todo'[u] = todo[u]
        /\ UNCHANGED <<pool, confirmed, resultBackup, lost>>
    BY <1>0, <1>17 DEF WriteFails, vars
  <2>2. /\ Range(todo[t]) = {x} \cup Range(todo'[t])
        /\ ForgetsConfirmed'
    BY <1>14, <2>1
  <2> HIDE DEF x
  <2>3. \A key : [op |-> "result", key |-> key] \in Range(todo["io"]) =>
                    [op |-> "result", key |-> key] \in Range(todo'["io"])
    <3>1. \A key : x # [op |-> "result", key |-> key]
      BY <2>1
    <3> QED BY <1>0, <2>1, <2>2, <3>1
  <2>4. DoneReach'
    BY <1>0, <2>1, <2>3 DEF DoneReach, Reaches
  <2> QED BY <2>2, <2>4 DEF ResultsInv
<1>18. ASSUME NEW b \in Blocks, Push(b), UNCHANGED <<todo, disk>>
       PROVE  ResultsInv'
  BY <1>2, <1>6, <1>18 DEF Push
<1>19. ASSUME NEW b \in Blocks, Reject(b) \/ Drop(b), UNCHANGED <<todo, disk>>
       PROVE  ResultsInv'
  BY <1>2, <1>7, <1>19
<1>20. CASE UNCHANGED pluginVars
  BY <1>2, <1>20 DEF pluginVars, vars
<1> QED
  BY <1>3, <1>4, <1>5, <1>10, <1>11, <1>12, <1>13, <1>15, <1>16, <1>17, <1>18, <1>19, <1>20
     DEF PluginNext, SeedFails, IgnoreBlock, PushSeed

(* A block that counts as processed has its results in every store, unless *)
(* they are still on their way or lost to the race of the two threads:     *)
(* what a resolve deletes is never the result of a block still in the pool.*)
THEOREM ResultsAlwaysReachTheirStores == PluginSpec => []ResultsReachTheirStores
<1>1. PluginInit => ResultsInv
  <2> SUFFICES ASSUME PluginInit
               PROVE  ResultsInv
    OBVIOUS
  <2>1. DoneOf(pool) = {}
    BY EmptyPool DEF PluginInit
  <2>2. ForgetsConfirmed
    BY DEF PluginInit, Idle, ForgetsConfirmed, ForgetsBelow, Range
  <2> QED BY <2>1, <2>2 DEF ResultsInv, DoneReach
<1>2. Base /\ ResultsInv => ResultsReachTheirStores
  <2> SUFFICES ASSUME Base, ResultsInv, NEW i \in DOMAIN pool,
                      NEW j \in DOMAIN pool[i], pool[i][j].processed,
                      NEW k \in Range(Stores)
               PROVE  LET key == <<k, pool[i][j].blk.id>>
                      IN  \/ key \in resultBackup \cup lost
                          \/ \E n \in DOMAIN todo["io"] :
                                todo["io"][n] = [op |-> "result", key |-> key]
    BY DEF ResultsReachTheirStores
  <2> DEFINE id == pool[i][j].blk.id
  <2>1. id \in DoneOf(pool)
    <3>1. id \in BlockIds
      BY EntryIds DEF Base, Linked, PoolOK, IdsOf
    <3> QED BY <3>1 DEF DoneOf
  <2>2. Reaches(id, resultBackup \cup lost, todo["io"])
    BY <2>1 DEF ResultsInv, DoneReach
  <2> QED BY <2>2 DEF Reaches, Range
<1> QED BY <1>1, <1>2, StepResults, AlwaysBase, PTL DEF PluginSpec

-----------------------------------------------------------------------------
(* The list the io thread writes last is that of the pool as it is: while  *)
(* the thread has writes to perform no handler runs, and the list is only  *)
(* written once the seeds are in.                                          *)
LastIsList(s) == s # <<>> /\ s[Len(s)].op = "ids"

ListIsCurrent ==
    LastIsList(todo["io"]) =>
        phase = "up" /\ todo["io"][Len(todo["io"])].ids = PoolBlockIds(pool)

(* The ids a pool has after a pop do not depend on the block confirmed.    *)
LEMMA PoppedBlockIds ==
    ASSUME NEW p \in Pools, Len(p) >= 2, NEW v \in 1..Len(p[1]), NEW w \in 1..Len(p[1])
    PROVE  PoolBlockIds(Popped(p, v)) = PoolBlockIds(Popped(p, w))
<1> DEFINE q == Popped(p, v)
           r == Popped(p, w)
<1>1. /\ DOMAIN q = 1..(Len(p) - 1)
      /\ \A i \in DOMAIN q :
            /\ DOMAIN q[i] = DOMAIN p[i + 1]
            /\ \A j \in DOMAIN q[i] : SameEntry(p[i + 1][j], q[i][j])
  BY PoppedEntries
<1>2. /\ DOMAIN r = 1..(Len(p) - 1)
      /\ \A i \in DOMAIN r :
            /\ DOMAIN r[i] = DOMAIN p[i + 1]
            /\ \A j \in DOMAIN r[i] : SameEntry(p[i + 1][j], r[i][j])
  BY PoppedEntries
<1> HIDE DEF q, r
<1> DEFINE bin(x, i) == [j \in DOMAIN x[i] |-> x[i][j].blk.id]
<1>3. ASSUME NEW i \in DOMAIN q
      PROVE  bin(q, i) = bin(r, i)
  BY <1>1, <1>2 DEF SameEntry
<1> HIDE DEF bin
<1>4. [i \in DOMAIN q |-> bin(q, i)] = [i \in DOMAIN r |-> bin(r, i)]
  BY <1>1, <1>2, <1>3
<1>5. PoolBlockIds(q) = PoolBlockIds(r)
  BY <1>4 DEF PoolBlockIds, bin
<1> QED BY <1>5 DEF q, r

(* The last write stays the last one while those before it are performed.  *)
LEMMA LastOfTail ==
    ASSUME NEW s \in Writes, s # <<>>, LastIsList(Tail(s))
    PROVE  LastIsList(s) /\ Tail(s)[Len(Tail(s))] = s[Len(s)]
<1>1. /\ Len(s) \in Nat \ {0} /\ Tail(s) \in Writes
      /\ Len(Tail(s)) = Len(s) - 1
      /\ \A n \in 1..Len(Tail(s)) : Tail(s)[n] = s[n + 1]
  BY HeadTailProperties DEF Writes
<1>2. Len(Tail(s)) # 0
  BY <1>1 DEF LastIsList, Writes
<1>3. Len(Tail(s)) \in 1..Len(Tail(s)) /\ Len(Tail(s)) + 1 = Len(s)
  BY <1>1, <1>2
<1>4. Tail(s)[Len(Tail(s))] = s[Len(s)]
  BY <1>1, <1>3
<1> QED BY <1>4 DEF LastIsList

LEMMA StepList == Base /\ ListIsCurrent /\ [PluginNext]_pluginVars => ListIsCurrent'
<1> SUFFICES ASSUME Base, ListIsCurrent, [PluginNext]_pluginVars, LastIsList(todo'["io"])
             PROVE  /\ phase' = "up"
                    /\ todo'["io"][Len(todo'["io"])].ids = PoolBlockIds(pool')
  BY DEF ListIsCurrent
<1> USE SeedBlocks
<1>0. todo \in [Threads -> Writes] /\ Threads = {"main", "io"} /\ ~LastIsList(<<>>)
      /\ (phase \in {"down", "refused"} => todo["io"] = <<>>)
  BY DEF Base, Stored, Threads, LastIsList, Idle
<1>1. CASE phase # "up" /\ todo'["io"] = todo["io"]
  BY <1>1 DEF ListIsCurrent
<1>2. CASE Start \/ StartThrows \/ AllSeeded
  <2>1. phase # "up" /\ todo'["io"] = todo["io"]
    BY <1>2 DEF Start, StartThrows, AllSeeded
  <2> QED BY <1>1, <2>1
<1>3. CASE Crash
  <2>1. todo'["io"] = <<>>
    BY <1>0, <1>3 DEF Crash, Idle
  <2> QED BY <1>0, <2>1
<1>4. ASSUME NEW b \in Range(Seeds),
             PushSeed(b) \/ PushSeedAndResolve(b) \/ SeedFails(b)
      PROVE  FALSE
  <2>1. phase # "up" /\ todo'["io"] = todo["io"]
    BY <1>0, <1>4 DEF PushSeed, PushSeedAndResolve, SeedFails, Seeding
  <2> QED BY <2>1 DEF ListIsCurrent
<1>5. ASSUME NEW b \in Blocks, IgnoreBlock(b)
      PROVE  FALSE
  <2>1. todo'["io"] = <<>>
    BY <1>5 DEF IgnoreBlock, Receiving
  <2> QED BY <1>0, <2>1
<1>6. ASSUME NEW b \in Blocks, ReceiveBlock(b)
      PROVE  /\ phase' = "up"
             /\ todo'["io"][Len(todo'["io"])].ids = PoolBlockIds(pool')
  <2> DEFINE K == {<<"block", id>> : id \in IdsOf(WithBlock(b))}
             s == BackUp(b, WithBlock(b))
  <2>1. /\ pool' = WithBlock(b) /\ todo'["io"] = s /\ phase' = "up"
    BY <1>0, <1>6 DEF ReceiveBlock, Receiving, Push
  <2>2. WithBlock(b) \in Pools
    BY <1>6, PushedBlock DEF ReceiveBlock, Push
  <2>3. \A id \in IdsOf(WithBlock(b)) \ {b.id} : <<"block", id>> \in K
    OBVIOUS
  <2> HIDE DEF K
  <2>4. Len(s) = 2 /\ s[2] = [op |-> "ids", ids |-> PoolBlockIds(WithBlock(b))]
    BY <2>2, <2>3, BackUpWrites
  <2> HIDE DEF s
  <2> QED BY <2>1, <2>4
<1>7. ASSUME NEW b \in Blocks, ReceiveAndResolve(b)
      PROVE  /\ phase' = "up"
             /\ todo'["io"][Len(todo'["io"])].ids = PoolBlockIds(pool')
  <2> DEFINE p == WithBlock(b)
             K == {<<"block", id>> : id \in IdsOf(p)}
  <2>1. PICK w \in DOMAIN p[1] :
           /\ Resolves(p, confirmed, b, w)
           /\ todo' = [todo EXCEPT !["io"] = ReceiveWrites(b, p, w)]
    BY <1>7 DEF ReceiveAndResolve, ReceiveWrites
  <2>2. PICK v \in DOMAIN p[1] : Resolves(p, confirmed, b, v) /\ pool' = Popped(p, v)
    BY <1>7 DEF ReceiveAndResolve, PushAndResolve
  <2>3. Accepted(b) /\ phase' = "up"
    BY <1>7 DEF ReceiveAndResolve, PushAndResolve, Receiving
  <2>4. p \in Pools /\ Len(p) >= 2 /\ v \in 1..Len(p[1]) /\ w \in 1..Len(p[1])
    BY <2>1, <2>2, <2>3, PushedBlock, ResolvedBlock
  <2>5. \A id \in IdsOf(p) \ {b.id} : <<"block", id>> \in K
    OBVIOUS
  <2> DEFINE s == ReceiveWrites(b, p, w)
  <2> HIDE DEF K, p
  <2>6. s[Len(s)] = [op |-> "ids", ids |-> PoolBlockIds(Popped(p, w))]
    BY <2>1, <2>4, <2>5, ReceiveWritesOf
  <2>7. todo'["io"] = s
    BY <1>0, <2>1
  <2> HIDE DEF s
  <2>8. PoolBlockIds(Popped(p, v)) = PoolBlockIds(Popped(p, w))
    BY <2>4, PoppedBlockIds
  <2> QED BY <2>2, <2>3, <2>6, <2>7, <2>8
<1>8. ASSUME NEW i \in DOMAIN pool, NEW j \in DOMAIN pool[i], ProcessTxResult(i, j)
      PROVE  FALSE
  <2> DEFINE id == pool[i][j].blk.id
             s == SaveBackupResult(id)
  <2>1. id \in BlockIds
    BY <1>8, ResultIds
  <2>2. todo'["io"] = s
    BY <1>0, <1>8 DEF ProcessTxResult
  <2>3. s \in Writes
        /\ Range(s) = {[op |-> "result", key |-> <<k, id>>] : k \in Range(Stores)}
    BY <2>1, PerStoreWrites DEF SaveBackupResult
  <2> HIDE DEF s, id
  <2>4. \A x \in Range(s) : x.op = "result"
    BY <2>3
  <2>5. s # <<>> => s[Len(s)] \in Range(s)
    BY <2>3 DEF Writes, Range
  <2> QED BY <2>2, <2>4, <2>5 DEF LastIsList
<1>9. ASSUME NEW t \in Threads, Write(t) \/ WriteFails(t) \/ LoseWrite(t)
      PROVE  /\ phase' = "up"
             /\ todo'["io"][Len(todo'["io"])].ids = PoolBlockIds(pool')
  <2>1. /\ todo[t] # <<>>
        /\ todo'[t] = Tail(todo[t])
        /\ \A u \in Threads \ {t} : todo'[u] = todo[u]
        /\ UNCHANGED <<pool, phase>>
    BY <1>0, <1>9 DEF Write, WriteFails, LoseWrite, vars
  <2>2. CASE t = "io"
    BY <1>0, <2>1, <2>2, LastOfTail DEF ListIsCurrent
  <2>3. CASE t # "io"
    BY <1>0, <2>1, <2>3 DEF ListIsCurrent
  <2> QED BY <2>2, <2>3
<1>10. CASE UNCHANGED pluginVars
  BY <1>10 DEF pluginVars, vars, ListIsCurrent
<1> QED
  BY <1>2, <1>3, <1>4, <1>5, <1>6, <1>7, <1>8, <1>9, <1>10 DEF PluginNext

(* Once the handler of a received block is done, the list on disk names    *)
(* the blocks of the pool, in its order, whether or not one was confirmed. *)
THEOREM ListAlwaysFollowsPool == PluginSpec => ListFollowsPool
<1> DEFINE Done == (/\ phase = "up" /\ phase' = "up"
                    /\ todo["io"] # <<>> /\ todo'["io"] = <<>>
                    /\ Head(todo["io"]).op = "ids") =>
                       listed' = PoolBlockIds(pool')
<1>1. PluginInit => ListIsCurrent
  BY DEF PluginInit, ListIsCurrent, LastIsList, Idle, Threads
<1>2. Base /\ ListIsCurrent /\ [PluginNext]_pluginVars => [Done]_pluginVars
  <2> SUFFICES ASSUME Base, ListIsCurrent, PluginNext, phase = "up", phase' = "up",
                      todo["io"] # <<>>, todo'["io"] = <<>>,
                      Head(todo["io"]).op = "ids"
               PROVE  listed' = PoolBlockIds(pool')
    OBVIOUS
  <2>1. Write("io")
    <3>1. ~(Start \/ StartThrows \/ AllSeeded \/ Crash)
      BY DEF Start, StartThrows, AllSeeded, Crash
    <3>2. \A b \in Range(Seeds) :
             ~(PushSeed(b) \/ PushSeedAndResolve(b) \/ SeedFails(b))
      BY DEF PushSeed, PushSeedAndResolve, SeedFails, Seeding
    <3>3. \A b \in Blocks : ~(IgnoreBlock(b) \/ ReceiveBlock(b) \/ ReceiveAndResolve(b))
      BY DEF IgnoreBlock, ReceiveBlock, ReceiveAndResolve, Receiving
    <3>4. \A i \in DOMAIN pool : \A j \in DOMAIN pool[i] : ~ProcessTxResult(i, j)
      BY DEF ProcessTxResult
    <3>5. \A t \in Threads : ~LoseWrite(t)
      BY DEF LoseWrite, Threads
    <3>6. ~Write("main") /\ \A t \in Threads : ~WriteFails(t)
      BY DEF Write, WriteFails, Base, Stored, Threads
    <3> QED BY <3>1, <3>2, <3>3, <3>4, <3>5, <3>6 DEF PluginNext, Threads
  <2> DEFINE s == todo["io"]
  <2>2. s \in Writes /\ s # <<>> /\ Tail(s) = <<>> /\ Perform(Head(s)) /\ pool' = pool
    BY <2>1 DEF Base, Stored, Threads, Write, vars
  <2>3. Len(s) = 1 /\ Head(s) = s[1]
    <3> HIDE DEF s
    <3>1. Len(s) \in Nat /\ Len(Tail(s)) = Len(s) - 1 /\ Len(<<>>) = 0 /\ Head(s) = s[1]
      BY <2>2, HeadTailProperties DEF Writes
    <3> QED BY <2>2, <3>1
  <2>4. s[1].ids = PoolBlockIds(pool)
    BY <2>2, <2>3 DEF ListIsCurrent, LastIsList
  <2>5. listed' = Head(s).ids
    BY <2>2 DEF Perform
  <2> QED BY <2>2, <2>3, <2>4, <2>5
<1>3. PluginSpec => [][Done]_pluginVars
  <2> HIDE DEF Done
  <2> QED BY <1>1, <1>2, StepList, AlwaysBase, PTL DEF PluginSpec
<1> QED BY <1>3 DEF ListFollowsPool

-----------------------------------------------------------------------------
(* A block that was accepted once is acceptable above the genesis block.   *)
Restartable(b) == b.height >= 1 /\ (b.height = 1 => b.prev = GenesisId)

BackupsRestartable ==
    /\ confirmed.height = 0 => confirmed.id = GenesisId
    /\ \A id \in DOMAIN blockBackup : Restartable(blockBackup[id])
    /\ \A t \in Threads : \A x \in Range(todo[t]) :
          x.op = "block" => Restartable(x.blk)

LEMMA AcceptedRestartable ==
    ASSUME Base, BackupsRestartable, NEW b \in Blocks, Accepted(b)
    PROVE  Restartable(b)
<1>1. /\ b.height \in Nat /\ confirmed.height \in Nat /\ confirmed.height < b.height
      /\ (b.height - confirmed.height = 1 => b.prev = confirmed.id)
  BY BlockFields
     DEF Base, Linked, PoolOK, Tips, Accepted, Admitted, Linkable, BinOf
<1>2. b.height = 1 => confirmed.height = 0
  BY <1>1
<1> QED BY <1>1, <1>2 DEF Restartable, BackupsRestartable

LEMMA StepRestartable ==
    Base /\ BackupsRestartable /\ [PluginNext]_pluginVars => BackupsRestartable'
<1> SUFFICES ASSUME Base, BackupsRestartable, [PluginNext]_pluginVars
             PROVE  BackupsRestartable'
  OBVIOUS
<1> USE SeedBlocks
<1>0. /\ todo \in [Threads -> Writes] /\ Threads = {"main", "io"} /\ Range(<<>>) = {}
      /\ confirmed.height \in Nat
      /\ confirmed.height = 0 => confirmed.id = GenesisId
      /\ \A id \in DOMAIN blockBackup : Restartable(blockBackup[id])
      /\ \A t \in Threads : \A x \in Range(todo[t]) :
            x.op = "block" => Restartable(x.blk)
  BY DEF BackupsRestartable, Base, Stored, Linked, PoolOK, Tips, Threads, Range
<1>1. ASSUME UNCHANGED disk, confirmed'.height = 0 => confirmed'.id = GenesisId,
             \A t \in Threads : \A x \in Range(todo'[t]) :
                x.op = "block" => Restartable(x.blk)
      PROVE  BackupsRestartable'
  BY <1>0, <1>1 DEF disk, BackupsRestartable, Restartable
<1>2. ASSUME NEW b \in Blocks, PushAndResolve(b)
      PROVE  confirmed'.height # 0
  BY <1>0, <1>2, ResolvedBlock DEF PushAndResolve
<1>3. CASE Start
  BY <1>0, <1>1, <1>3 DEF Start, Genesis
<1>4. CASE StartThrows \/ AllSeeded
  BY <1>0, <1>1, <1>4 DEF StartThrows, AllSeeded, vars
<1>5. CASE Crash
  BY <1>0, <1>1, <1>5 DEF Crash, Genesis, Idle
<1>6. ASSUME NEW b \in Range(Seeds), PushSeed(b) \/ SeedFails(b)
      PROVE  BackupsRestartable'
  BY <1>0, <1>1, <1>6 DEF PushSeed, SeedFails, Push, Reject, Drop, vars
<1>7. ASSUME NEW b \in Range(Seeds), PushSeedAndResolve(b)
      PROVE  BackupsRestartable'
  <2>1. PICK w \in DOMAIN WithBlock(b)[1] :
           /\ Resolves(WithBlock(b), confirmed, b, w)
           /\ todo' = [todo EXCEPT !["main"] = ResolveWrites(WithBlock(b), w)]
    BY <1>7 DEF PushSeedAndResolve
  <2>2. /\ b \in Blocks /\ Accepted(b) /\ PushAndResolve(b) /\ UNCHANGED disk
        /\ todo'["io"] = todo["io"]
        /\ todo'["main"] = ResolveWrites(WithBlock(b), w)
    BY <1>0, <1>7, <2>1 DEF PushSeedAndResolve, PushAndResolve
  <2>3. \A x \in Range(ResolveWrites(WithBlock(b), w)) :
           x.op \in {"forget", "row", "effects"}
    BY <2>1, <2>2, PushedBlock, ResolvedBlock, ResolveWritesOf
  <2>4. confirmed'.height # 0
    BY <1>2, <2>2
  <2> QED BY <1>0, <1>1, <2>2, <2>3, <2>4
<1>8. ASSUME NEW b \in Blocks, IgnoreBlock(b)
      PROVE  BackupsRestartable'
  BY <1>0, <1>1, <1>8 DEF IgnoreBlock, Reject, Drop, vars
<1>9. ASSUME NEW b \in Blocks, ReceiveBlock(b)
      PROVE  BackupsRestartable'
  <2>1. /\ Accepted(b) /\ UNCHANGED disk /\ confirmed' = confirmed
        /\ todo'["main"] = todo["main"]
        /\ todo'["io"] = BackUp(b, WithBlock(b))
    BY <1>0, <1>9 DEF ReceiveBlock, Push
  <2>2. \A x \in Range(BackUp(b, WithBlock(b))) : x.op = "block" => x.blk = b
    BY <2>1, PushedBlock, BackUpRange
  <2>3. Restartable(b)
    BY <2>1, AcceptedRestartable
  <2> QED BY <1>0, <1>1, <2>1, <2>2, <2>3
<1>10. ASSUME NEW b \in Blocks, ReceiveAndResolve(b)
       PROVE  BackupsRestartable'
  <2> DEFINE p == WithBlock(b)
             K == {<<"block", id>> : id \in IdsOf(p)}
  <2>1. PICK w \in DOMAIN p[1] :
           /\ Resolves(p, confirmed, b, w)
           /\ todo' = [todo EXCEPT !["io"] = ReceiveWrites(b, p, w)]
    BY <1>10 DEF ReceiveAndResolve, ReceiveWrites
  <2>2. /\ PushAndResolve(b) /\ Accepted(b) /\ UNCHANGED disk
        /\ todo'["main"] = todo["main"]
        /\ todo'["io"] = ReceiveWrites(b, p, w)
    BY <1>0, <1>10, <2>1 DEF ReceiveAndResolve, PushAndResolve
  <2>3. p \in Pools /\ Len(p) >= 2
    BY <2>1, <2>2, PushedBlock, ResolvedBlock
  <2>4. \A id \in IdsOf(p) \ {b.id} : <<"block", id>> \in K
    OBVIOUS
  <2> HIDE DEF K, p
  <2>5. \A x \in Range(ReceiveWrites(b, p, w)) :
           /\ x.op = "block" => x.blk = b
           /\ x.op = "forget" => \E j \in DOMAIN p[1] : x.key[2] = p[1][j].blk.id
    <3>1. CarriesOnly(ReceiveWrites(b, p, w), b, p)
      BY <2>1, <2>3, <2>4, ReceiveWritesOf
    <3> QED BY <3>1 DEF CarriesOnly
  <2>6. Restartable(b) /\ confirmed'.height # 0
    BY <1>2, <2>2, AcceptedRestartable
  <2> QED BY <1>0, <1>1, <2>2, <2>5, <2>6
<1>11. ASSUME NEW i \in DOMAIN pool, NEW j \in DOMAIN pool[i], ProcessTxResult(i, j)
       PROVE  BackupsRestartable'
  <2> DEFINE id == pool[i][j].blk.id
             s == SaveBackupResult(id)
  <2>1. id \in BlockIds
    BY <1>11, ResultIds
  <2>2. /\ UNCHANGED disk /\ confirmed' = confirmed
        /\ todo'["main"] = todo["main"] /\ todo'["io"] = s
    BY <1>0, <1>11 DEF ProcessTxResult, SetUnresolvedBlock
  <2>3. \A x \in Range(s) : x.op = "result"
    <3>1. Range(s) = {[op |-> "result", key |-> <<k, id>>] : k \in Range(Stores)}
      BY <2>1, PerStoreWrites DEF SaveBackupResult
    <3> HIDE DEF s, id
    <3> QED BY <3>1
  <2> HIDE DEF s
  <2> QED BY <1>0, <1>1, <2>2, <2>3
<1>12. ASSUME NEW t \in Threads, Write(t) \/ WriteFails(t) \/ LoseWrite(t)
       PROVE  BackupsRestartable'
  <2> DEFINE x == Head(todo[t])
  <2>1. /\ todo[t] # <<>>
        /\ todo'[t] = Tail(todo[t])
        /\ \A u \in Threads \ {t} : todo'[u] = todo[u]
        /\ UNCHANGED confirmed
        /\ Perform(x) \/ UNCHANGED blockBackup
    BY <1>0, <1>12 DEF Write, WriteFails, LoseWrite, vars
  <2>2. Range(todo[t]) = {x} \cup Range(todo'[t])
    BY <1>0, <2>1, RangeTail
  <2> HIDE DEF x
  <2>3. \A id \in DOMAIN blockBackup' : Restartable(blockBackup'[id])
    <3>1. CASE x.op = "block" /\ Perform(x)
      <4>1. blockBackup' = [id \in DOMAIN blockBackup \cup {x.blk.id} |->
                               IF id = x.blk.id THEN x.blk ELSE blockBackup[id]]
        BY <3>1 DEF Perform
      <4>2. Restartable(x.blk)
        BY <1>0, <2>2, <3>1
      <4> QED BY <1>0, <4>1, <4>2
    <3>2. CASE ~(x.op = "block" /\ Perform(x))
      <4>1. blockBackup' = blockBackup
        BY <2>1, <3>2 DEF Perform
      <4> QED BY <1>0, <4>1
    <3> QED BY <3>1, <3>2
  <2>4. \A u \in Threads : \A y \in Range(todo'[u]) :
           y.op = "block" => Restartable(y.blk)
    BY <1>0, <2>1, <2>2
  <2> QED BY <1>0, <2>1, <2>3, <2>4 DEF BackupsRestartable, Restartable
<1>13. CASE UNCHANGED pluginVars
  BY <1>0, <1>1, <1>13 DEF pluginVars, vars
<1> QED
  BY <1>3, <1>4, <1>5, <1>6, <1>7, <1>8, <1>9, <1>10, <1>11, <1>12, <1>13
     DEF PluginNext

(* A start that succeeds brings back every listed block and no other: none *)
(* of them is refused as too high or as a child of another block.          *)
THEOREM ListedBlocksAlwaysComeBack == PluginSpec => ListedBlocksComeBack
<1> DEFINE Back == (phase # "seeding" /\ phase' = "seeding") =>
                       Range(listed) = Range(PoolBlockIds(pool'))
<1>1. PluginInit => BackupsRestartable
  BY DEF PluginInit, BackupsRestartable, Idle, Genesis, Range
<1>2. Base /\ BackupsRestartable /\ [PluginNext]_pluginVars => [Back]_pluginVars
  <2> SUFFICES ASSUME Base, BackupsRestartable, PluginNext,
                      phase # "seeding", phase' = "seeding"
               PROVE  Range(listed) = Range(PoolBlockIds(pool'))
    OBVIOUS
  <2>1. Start
    BY DEF PluginNext, StartThrows, AllSeeded, Crash, PushSeed, PushSeedAndResolve,
           SeedFails, Seeding, IgnoreBlock, ReceiveBlock, ReceiveAndResolve,
           Receiving, ProcessTxResult, Write, WriteFails, LoseWrite
  <2>2. BackupReadable /\ slots = MaxSlots /\ slots \in Nat
    BY <2>1, RestorableReadable, LevelsAssumption DEF Base, Start
  <2>3. ASSUME NEW id \in Range(listed)
        PROVE  /\ Admitted(Genesis, slots, blockBackup[id])
               /\ Linkable(Genesis, blockBackup[id])
    <3> DEFINE b == blockBackup[id]
    <3>1. b \in Blocks /\ Restartable(b)
      BY <2>2 DEF BackupReadable, BackupsRestartable
    <3> HIDE DEF b
    <3>2. b.height \in Nat /\ b.height <= MaxSlots + 1
      BY <3>1, BlockFields, ClockAssumption
    <3>3. BinOf(Genesis, b) = b.height /\ Genesis.height = 0 /\ Genesis.id = GenesisId
      BY <3>2 DEF BinOf, Genesis
    <3> HIDE DEF Genesis
    <3>4. Admitted(Genesis, slots, b) /\ Linkable(Genesis, b)
      BY <2>2, <3>1, <3>2, <3>3 DEF Admitted, Linkable, Restartable
    <3> QED BY <3>4 DEF b
  <2>4. IdsOf(RestoredPool) = Range(listed) /\ RestoredPool \in Pools
    BY <2>2, <2>3, RestoredPoolLinked DEF Linked, PoolOK
  <2>5. Range(PoolBlockIds(RestoredPool)) = Range(listed)
    BY <2>4, PoolBlockIdsOf
  <2> QED BY <2>1, <2>5 DEF Start
<1>3. PluginSpec => [][Back]_pluginVars
  <2> HIDE DEF Back
  <2> QED BY <1>1, <1>2, StepRestartable, AlwaysBase, PTL DEF PluginSpec
<1> QED BY <1>3 DEF ListedBlocksComeBack

=============================================================================
