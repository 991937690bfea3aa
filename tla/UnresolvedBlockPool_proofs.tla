--------------------- MODULE UnresolvedBlockPool_proofs ---------------------
(***************************************************************************)
(* Theorems about UnresolvedBlockPool for every set of blocks, every       *)
(* confirm level and every clock, checked with TLAPS.                      *)
(***************************************************************************)
EXTENDS UnresolvedBlockPool, SequenceLemmas

Bin == Seq(Entry)
Pools == Seq(Bin)

-----------------------------------------------------------------------------
(* k is the index of the first entry of the bin with this id, or 0.        *)
FirstWithId(bin, id, k) ==
    /\ k \in 0..Len(bin)
    /\ \A j \in 1..Len(bin) : (k = 0 \/ j < k) => bin[j].blk.id # id
    /\ k > 0 => bin[k].blk.id = id

(* IndexOfId returns that index.                                           *)
LEMMA IndexOfIdIsFirst ==
    ASSUME NEW bin \in Bin, NEW id
    PROVE  FirstWithId(bin, id, IndexOfId(bin, id))
  <1> DEFINE I == {i \in 1..Len(bin) : bin[i].blk.id = id}
  <1>1. Len(bin) \in Nat
    BY SeqIsFunction DEF Bin
  <1>2. IndexOfId(bin, id) = IF I # {} THEN Min(I) ELSE 0
    BY DEF IndexOfId, SelectInSeq
  <1>3. CASE I = {}
    <2>1. \A j \in 1..Len(bin) : bin[j].blk.id # id
      BY <1>3
    <2>2. IndexOfId(bin, id) = 0
      BY <1>2, <1>3
    <2> QED
      BY <1>1, <2>1, <2>2 DEF FirstWithId
  <1>4. CASE I # {}
    <2>1. I \in SUBSET Nat
      BY <1>1
    <2>2. Min(I) \in I /\ \A x \in I : Min(I) <= x
      BY <1>4, <2>1, MinIsLeast
    <2>3. IndexOfId(bin, id) = Min(I)
      BY <1>2, <1>4
    <2>4. \A j \in 1..Len(bin) : j < Min(I) => j \notin I
      BY <1>1, <2>2
    <2>5. \A j \in 1..Len(bin) : j < Min(I) => bin[j].blk.id # id
      BY <2>4
    <2>6. Min(I) \in 1..Len(bin) /\ bin[Min(I)].blk.id = id
      BY <2>2
    <2> HIDE DEF I
    <2> QED
      BY <1>1, <2>3, <2>5, <2>6 DEF FirstWithId
  <1> QED
    BY <1>3, <1>4

(* There is only one such index.                                           *)
LEMMA FirstWithIdIsUnique ==
    ASSUME NEW bin \in Bin, NEW id, NEW k, NEW m,
           FirstWithId(bin, id, k), FirstWithId(bin, id, m)
    PROVE  k = m
  <1>1. Len(bin) \in Nat
    BY SeqIsFunction DEF Bin
  <1> QED
    BY <1>1 DEF FirstWithId

(* The index depends on the ids of the bin only.                           *)
LEMMA IndexDependsOnIds ==
    ASSUME NEW s \in Bin, NEW t \in Bin, NEW id, Len(s) = Len(t),
           \A j \in 1..Len(s) : s[j].blk.id = t[j].blk.id
    PROVE  IndexOfId(s, id) = IndexOfId(t, id)
  <1>1. FirstWithId(s, id, IndexOfId(s, id))
    BY IndexOfIdIsFirst
  <1>2. FirstWithId(t, id, IndexOfId(t, id))
    BY IndexOfIdIsFirst
  <1>3. FirstWithId(t, id, IndexOfId(s, id))
    <2>1. Len(s) \in Nat
      BY SeqIsFunction DEF Bin
    <2> QED
      BY <1>1, <2>1 DEF FirstWithId
  <1> QED
    BY <1>2, <1>3, FirstWithIdIsUnique

(* An appended entry is found only if no entry before it has its id.       *)
LEMMA IndexAfterAppend ==
    ASSUME NEW bin \in Bin, NEW e \in Entry, NEW id
    PROVE  IndexOfId(Append(bin, e), id) =
               IF IndexOfId(bin, id) = 0 /\ e.blk.id = id
               THEN Len(bin) + 1
               ELSE IndexOfId(bin, id)
  <1> DEFINE k == IndexOfId(bin, id)
             m == IF k = 0 /\ e.blk.id = id THEN Len(bin) + 1 ELSE k
             t == Append(bin, e)
  <1>1. FirstWithId(bin, id, k)
    BY IndexOfIdIsFirst
  <1>2. t \in Bin /\ Len(t) = Len(bin) + 1 /\ Len(bin) \in Nat
    BY DEF Bin
  <1>3. /\ \A j \in 1..Len(bin) : t[j] = bin[j]
        /\ t[Len(bin) + 1] = e
    BY DEF Bin
  <1>4. FirstWithId(t, id, m)
    <2> HIDE DEF t, k
    <2>1. m \in 0..Len(t)
      BY <1>1, <1>2 DEF FirstWithId
    <2>2. ASSUME NEW j \in 1..Len(t), m = 0 \/ j < m
          PROVE  t[j].blk.id # id
      BY <1>1, <1>2, <1>3, <2>2 DEF FirstWithId
    <2>3. m > 0 => t[m].blk.id = id
      BY <1>1, <1>2, <1>3 DEF FirstWithId
    <2> QED
      BY <2>1, <2>2, <2>3 DEF FirstWithId
  <1>5. FirstWithId(t, id, IndexOfId(t, id))
    BY <1>2, IndexOfIdIsFirst
  <1> HIDE DEF m, t
  <1>6. IndexOfId(t, id) = m
    BY <1>2, <1>4, <1>5, FirstWithIdIsUnique
  <1> QED
    BY <1>6 DEF m, t

-----------------------------------------------------------------------------
Tips == [id : BlockIds, height : Nat, prev : BlockIds]

(* What every step has to re-establish about the pool and the tip.         *)
PoolOK(p, c) ==
    /\ p \in Pools
    /\ c \in Tips
    /\ ByHeight(p, c)
    /\ WellLinked(p, c)

(* A bin of a pool is a sequence of entries.                               *)
LEMMA BinsOfPool ==
    ASSUME NEW p \in Pools
    PROVE  /\ Len(p) \in Nat
           /\ DOMAIN p = 1..Len(p)
           /\ \A i \in 1..Len(p) :
                 /\ p[i] \in Bin
                 /\ Len(p[i]) \in Nat
                 /\ DOMAIN p[i] = 1..Len(p[i])
                 /\ \A j \in 1..Len(p[i]) : p[i][j] \in Entry
  <1>1. Len(p) \in Nat /\ DOMAIN p = 1..Len(p)
    BY SeqIsFunction DEF Pools
  <1>2. ASSUME NEW i \in 1..Len(p)
        PROVE  p[i] \in Bin
    BY SeqIsFunction DEF Pools
  <1>3. ASSUME NEW i \in 1..Len(p)
        PROVE  /\ Len(p[i]) \in Nat
               /\ DOMAIN p[i] = 1..Len(p[i])
               /\ \A j \in 1..Len(p[i]) : p[i][j] \in Entry
    BY <1>2, SeqIsFunction DEF Bin
  <1> QED
    BY <1>1, <1>2, <1>3

(* What block records and entries are made of.                             *)
LEMMA BlockFields ==
    ASSUME NEW b \in Blocks
    PROVE  /\ b.height \in Nat
           /\ b.id \in BlockIds
  BY BlocksAssumption DEF BlockIds

(* Growing the deque adds empty bins and disturbs nothing.                 *)
LEMMA GrownPool ==
    ASSUME NEW p \in Pools, NEW n \in Nat
    PROVE  /\ Grown(p, n) \in Pools
           /\ Len(Grown(p, n)) >= n
           /\ Len(Grown(p, n)) >= Len(p)
           /\ \A i \in 1..Len(Grown(p, n)) :
                 Grown(p, n)[i] = IF i <= Len(p) THEN p[i] ELSE <<>>
  <1> DEFINE m == IF Len(p) < n THEN n ELSE Len(p)
             q == Grown(p, n)
  <1>1. m \in Nat /\ m >= n /\ m >= Len(p)
    BY BinsOfPool
  <1>2. q = [i \in 1..m |-> IF i <= Len(p) THEN p[i] ELSE <<>>]
    BY DEF Grown
  <1>3. \A i \in 1..m : (IF i <= Len(p) THEN p[i] ELSE <<>>) \in Bin
    <2>1. <<>> \in Bin
      BY DEF Bin
    <2> QED
      BY <1>1, <2>1, BinsOfPool
  <1> HIDE DEF m, q
  <1>4. q \in [1..m -> Bin]
    BY <1>2, <1>3
  <1>5. q \in Seq(Bin) /\ Len(q) = m
    BY <1>1, <1>4, FunctionIsSeq
  <1> QED
    BY <1>1, <1>2, <1>5 DEF q, Pools

LEMMA GrownPoolOK ==
    ASSUME NEW p, NEW c, PoolOK(p, c), NEW n \in Nat
    PROVE  PoolOK(Grown(p, n), c)
  <1> DEFINE q == Grown(p, n)
  <1>1. p \in Pools /\ c \in Tips /\ ByHeight(p, c) /\ WellLinked(p, c)
    BY DEF PoolOK
  <1>2. /\ q \in Pools
        /\ \A i \in 1..Len(q) : q[i] = IF i <= Len(p) THEN p[i] ELSE <<>>
    BY <1>1, GrownPool
  <1> HIDE DEF q
  <1>3. /\ Len(q) \in Nat /\ DOMAIN q = 1..Len(q)
        /\ Len(p) \in Nat /\ DOMAIN p = 1..Len(p)
    BY <1>1, <1>2, BinsOfPool
  <1>4. ASSUME NEW i \in DOMAIN q, NEW j \in DOMAIN q[i]
        PROVE  i \in DOMAIN p /\ q[i] = p[i] /\ j \in DOMAIN p[i]
    <2>1. CASE i <= Len(p)
      BY <1>2, <1>3, <1>4, <2>1
    <2>2. CASE ~ i <= Len(p)
      <3>1. q[i] = <<>>
        BY <1>2, <1>3, <2>2
      <3> QED
        BY <1>4, <3>1
    <2> QED
      BY <2>1, <2>2
  <1>5. ByHeight(q, c)
    BY <1>1, <1>4 DEF ByHeight
  <1>6. WellLinked(q, c)
    <2> SUFFICES ASSUME NEW i \in DOMAIN q, NEW j \in DOMAIN q[i]
                 PROVE  q[i][j].prev =
                            IF i = 1
                            THEN IF q[i][j].blk.prev = c.id THEN 1 ELSE 0
                            ELSE IndexOfId(q[i - 1], q[i][j].blk.prev)
      BY DEF WellLinked
    <2>1. i \in DOMAIN p /\ q[i] = p[i] /\ j \in DOMAIN p[i]
      BY <1>4
    <2>2. i # 1 => q[i - 1] = p[i - 1]
      BY <1>2, <1>3, <2>1
    <2> QED
      BY <1>1, <2>1, <2>2 DEF WellLinked
  <1> QED
    BY <1>1, <1>2, <1>5, <1>6 DEF PoolOK, q

-----------------------------------------------------------------------------
(* Adoption changes no block and keeps the bin a bin.                      *)
LEMMA AdoptedBin ==
    ASSUME NEW bin \in Bin, NEW id, NEW k \in Nat
    PROVE  /\ Adopt(bin, id, k) \in Bin
           /\ Len(Adopt(bin, id, k)) = Len(bin)
           /\ \A j \in 1..Len(bin) :
                 /\ Adopt(bin, id, k)[j].blk = bin[j].blk
                 /\ Adopt(bin, id, k)[j].processed = bin[j].processed
                 /\ Adopt(bin, id, k)[j].prev =
                        IF bin[j].blk.prev = id /\ bin[j].prev = 0
                        THEN k ELSE bin[j].prev
  <1> DEFINE t == Adopt(bin, id, k)
  <1>1. /\ Len(bin) \in Nat /\ DOMAIN bin = 1..Len(bin)
        /\ \A j \in 1..Len(bin) : bin[j] \in Entry
    BY SeqIsFunction DEF Bin
  <1>2. t = [j \in 1..Len(bin) |->
                IF bin[j].blk.prev = id /\ bin[j].prev = 0
                THEN [bin[j] EXCEPT !.prev = k]
                ELSE bin[j]]
    BY <1>1 DEF Adopt
  <1> HIDE DEF t
  <1>3. ASSUME NEW j \in 1..Len(bin)
        PROVE  /\ t[j] \in Entry
               /\ t[j].blk = bin[j].blk
               /\ t[j].processed = bin[j].processed
               /\ t[j].prev = IF bin[j].blk.prev = id /\ bin[j].prev = 0
                              THEN k ELSE bin[j].prev
    BY <1>1, <1>2 DEF Entry
  <1>4. t \in [1..Len(bin) -> Entry]
    BY <1>2, <1>3
  <1>5. t \in Seq(Entry) /\ Len(t) = Len(bin)
    BY <1>1, <1>4, FunctionIsSeq
  <1> QED
    BY <1>3, <1>5 DEF Bin, t

(* Appending keeps every entry where it is.                                *)
LEMMA AppendedBin ==
    ASSUME NEW bin \in Bin, NEW e \in Entry
    PROVE  /\ Len(Append(bin, e)) = Len(bin) + 1
           /\ \A j \in 1..Len(bin) : Append(bin, e)[j] = bin[j]
           /\ Append(bin, e)[Len(bin) + 1] = e
  BY DEF Bin

(* Where a block is inserted and what its entry is.                        *)
LEMMA InsertedPool ==
    ASSUME NEW p \in Pools, NEW c \in Tips, NEW b \in Blocks,
           BinOf(c, b) \in 1..Len(p)
    PROVE  LET n == BinOf(c, b)
               q == Inserted(p, c, b)
               e == [blk |-> b, prev |-> ParentIndex(p, c, b),
                     processed |-> FALSE]
           IN  /\ q \in Pools
               /\ Len(q) = Len(p)
               /\ e \in Entry
               /\ q[n] = Append(p[n], e)
               /\ n + 1 \in 1..Len(p) =>
                     q[n + 1] = Adopt(p[n + 1], b.id, Len(p[n]) + 1)
               /\ \A i \in 1..Len(p) : i # n /\ i # n + 1 => q[i] = p[i]
  <1> DEFINE n == BinOf(c, b)
             q == Inserted(p, c, b)
             e == [blk |-> b, prev |-> ParentIndex(p, c, b),
                   processed |-> FALSE]
             Q(i) == IF i = n THEN Append(p[i], e)
                     ELSE IF i = n + 1
                          THEN Adopt(p[i], b.id, Len(p[n]) + 1)
                          ELSE p[i]
  <1>1. /\ Len(p) \in Nat /\ DOMAIN p = 1..Len(p)
        /\ \A i \in 1..Len(p) : p[i] \in Bin /\ Len(p[i]) \in Nat
    BY BinsOfPool
  <1>2. q = [i \in 1..Len(p) |-> Q(i)]
    BY <1>1 DEF Inserted
  <1>3. ParentIndex(p, c, b) \in Nat
    <2>1. CASE n = 1
      BY <2>1 DEF ParentIndex
    <2>2. CASE n # 1
      <3>1. n - 1 \in 1..Len(p)
        BY <1>1, <2>2
      <3>2. FirstWithId(p[n - 1], b.prev, IndexOfId(p[n - 1], b.prev))
        BY <1>1, <3>1, IndexOfIdIsFirst
      <3>3. IndexOfId(p[n - 1], b.prev) \in Nat
        BY <1>1, <3>1, <3>2 DEF FirstWithId
      <3> QED
        BY <2>2, <3>3 DEF ParentIndex
    <2> QED
      BY <2>1, <2>2
  <1>4. e \in Entry
    BY <1>3 DEF Entry
  <1> HIDE DEF q, n, e
  <1>5. ASSUME NEW i \in 1..Len(p)
        PROVE  Q(i) \in Bin
    <2>1. p[i] \in Bin /\ n \in 1..Len(p) /\ Len(p[n]) + 1 \in Nat
      BY <1>1 DEF n
    <2>2. Append(p[i], e) \in Bin
      BY <1>4, <2>1 DEF Bin
    <2>3. Adopt(p[i], b.id, Len(p[n]) + 1) \in Bin
      BY <2>1, AdoptedBin
    <2> QED
      BY <2>1, <2>2, <2>3
  <1> HIDE DEF Q
  <1>6. q \in [1..Len(p) -> Bin]
    BY <1>2, <1>5
  <1>7. q \in Pools /\ Len(q) = Len(p)
    BY <1>1, <1>6, FunctionIsSeq DEF Pools
  <1>8. \A i \in 1..Len(p) : q[i] = Q(i)
    BY <1>2
  <1>9. n \in 1..Len(p) /\ n + 1 # n
    BY <1>1 DEF n
  <1>10. /\ q[n] = Append(p[n], e)
         /\ n + 1 \in 1..Len(p) =>
               q[n + 1] = Adopt(p[n + 1], b.id, Len(p[n]) + 1)
         /\ \A i \in 1..Len(p) : i # n /\ i # n + 1 => q[i] = p[i]
    BY <1>8, <1>9 DEF Q
  <1> QED
    BY <1>4, <1>7, <1>10 DEF q, n, e

(* Appending a block and adopting its waiting children keeps heights and   *)
(* links right.                                                            *)
LEMMA InsertedPoolOK ==
    ASSUME NEW p, NEW c, PoolOK(p, c), NEW b \in Blocks,
           BinOf(c, b) \in 1..Len(p)
    PROVE  PoolOK(Inserted(p, c, b), c)
  <1> DEFINE n == BinOf(c, b)
             q == Inserted(p, c, b)
             e == [blk |-> b, prev |-> ParentIndex(p, c, b),
                   processed |-> FALSE]
  <1>1. p \in Pools /\ c \in Tips /\ ByHeight(p, c) /\ WellLinked(p, c)
    BY DEF PoolOK
  <1>2. /\ q \in Pools
        /\ Len(q) = Len(p)
        /\ e \in Entry
        /\ q[n] = Append(p[n], e)
        /\ n + 1 \in 1..Len(p) =>
              q[n + 1] = Adopt(p[n + 1], b.id, Len(p[n]) + 1)
        /\ \A i \in 1..Len(p) : i # n /\ i # n + 1 => q[i] = p[i]
    BY <1>1, InsertedPool
  <1>3. /\ n \in 1..Len(p)
        /\ n = b.height - c.height
        /\ b.height \in Nat /\ c.height \in Nat
        /\ Len(p) \in Nat
        /\ DOMAIN p = 1..Len(p)
        /\ DOMAIN q = 1..Len(p)
    BY <1>1, <1>2, BinsOfPool, BlockFields DEF BinOf, Tips
  <1>4. \A i \in 1..Len(p) :
           /\ p[i] \in Bin
           /\ q[i] \in Bin
           /\ Len(p[i]) \in Nat
           /\ DOMAIN p[i] = 1..Len(p[i])
           /\ DOMAIN q[i] = 1..Len(q[i])
    BY <1>1, <1>2, BinsOfPool
  <1>5. /\ Len(q[n]) = Len(p[n]) + 1
        /\ \A j \in 1..Len(p[n]) : q[n][j] = p[n][j]
        /\ q[n][Len(p[n]) + 1] = e
    <2>1. p[n] \in Bin /\ e \in Entry /\ q[n] = Append(p[n], e)
      BY <1>2, <1>3, <1>4
    <2> HIDE DEF q, n, e
    <2> QED
      BY <2>1, AppendedBin
  <1>6. n + 1 \in 1..Len(p) =>
           /\ Len(q[n + 1]) = Len(p[n + 1])
           /\ \A j \in 1..Len(p[n + 1]) :
                 /\ q[n + 1][j].blk = p[n + 1][j].blk
                 /\ q[n + 1][j].prev =
                        IF p[n + 1][j].blk.prev = b.id /\ p[n + 1][j].prev = 0
                        THEN Len(p[n]) + 1 ELSE p[n + 1][j].prev
    <2> SUFFICES ASSUME n + 1 \in 1..Len(p)
                 PROVE  /\ Len(q[n + 1]) = Len(p[n + 1])
                        /\ \A j \in 1..Len(p[n + 1]) :
                              /\ q[n + 1][j].blk = p[n + 1][j].blk
                              /\ q[n + 1][j].prev =
                                    IF /\ p[n + 1][j].blk.prev = b.id
                                       /\ p[n + 1][j].prev = 0
                                    THEN Len(p[n]) + 1
                                    ELSE p[n + 1][j].prev
      OBVIOUS
    <2>1. q[n + 1] = Adopt(p[n + 1], b.id, Len(p[n]) + 1)
      BY <1>2
    <2>2. p[n + 1] \in Bin /\ Len(p[n]) + 1 \in Nat
      BY <1>3, <1>4
    <2> DEFINE bin == p[n + 1]
               k == Len(p[n]) + 1
    <2>3. bin \in Bin /\ k \in Nat /\ q[n + 1] = Adopt(bin, b.id, k)
      BY <2>1, <2>2
    <2> HIDE DEF q, n, e, bin, k
    <2>4. /\ Len(q[n + 1]) = Len(bin)
          /\ \A j \in 1..Len(bin) :
                /\ q[n + 1][j].blk = bin[j].blk
                /\ q[n + 1][j].prev =
                       IF bin[j].blk.prev = b.id /\ bin[j].prev = 0
                       THEN k ELSE bin[j].prev
      BY <2>3, AdoptedBin
    <2> QED
      BY <2>4 DEF bin, k
  <1>7. e.blk = b /\ e.prev = ParentIndex(p, c, b)
    OBVIOUS
  <1> HIDE DEF q, n, e
  <1>8. ByHeight(q, c)
    <2> SUFFICES ASSUME NEW i \in 1..Len(p), NEW j \in 1..Len(q[i])
                 PROVE  q[i][j].blk.height = c.height + i
      BY <1>3, <1>4 DEF ByHeight
    <2>1. CASE i = n
      <3>1. CASE j <= Len(p[n])
        <4>1. j \in 1..Len(p[n])
          BY <1>3, <1>4, <2>1, <3>1
        <4>2. q[i][j] = p[n][j] /\ n \in DOMAIN p /\ j \in DOMAIN p[n]
          BY <1>3, <1>4, <1>5, <2>1, <4>1
        <4>3. p[n][j].blk.height = c.height + n
          BY <1>1, <4>2 DEF ByHeight
        <4> QED
          BY <2>1, <4>2, <4>3
      <3>2. CASE j = Len(p[n]) + 1
        BY <1>3, <1>5, <1>7, <2>1, <3>2
      <3> QED
        BY <1>3, <1>4, <1>5, <2>1, <3>1, <3>2
    <2>2. CASE i = n + 1
      <3>1. j \in DOMAIN p[i] /\ i \in DOMAIN p
        BY <1>3, <1>4, <1>6, <2>2
      <3>2. q[i][j].blk = p[i][j].blk
        BY <1>3, <1>4, <1>6, <2>2, <3>1
      <3>3. p[i][j].blk.height = c.height + i
        BY <1>1, <3>1 DEF ByHeight
      <3> QED
        BY <3>2, <3>3
    <2>3. CASE i # n /\ i # n + 1
      <3>1. q[i] = p[i] /\ i \in DOMAIN p
        BY <1>2, <1>3, <2>3
      <3>2. j \in DOMAIN p[i]
        BY <1>4, <3>1
      <3> QED
        BY <1>1, <3>1, <3>2 DEF ByHeight
    <2> QED
      BY <2>1, <2>2, <2>3
  <1>9. WellLinked(q, c)
    <2> SUFFICES ASSUME NEW i \in 1..Len(p), NEW j \in 1..Len(q[i])
                 PROVE  q[i][j].prev =
                            IF i = 1
                            THEN IF q[i][j].blk.prev = c.id THEN 1 ELSE 0
                            ELSE IndexOfId(q[i - 1], q[i][j].blk.prev)
      BY <1>3, <1>4 DEF WellLinked
    <2>1. CASE i = n
      <3>1. i # 1 => q[i - 1] = p[i - 1]
        BY <1>2, <1>3, <2>1
      <3>2. CASE j <= Len(p[n])
        <4>1. j \in DOMAIN p[i] /\ i \in DOMAIN p /\ q[i][j] = p[i][j]
          <5>1. p[n] \in Bin /\ q[n] \in Bin
            BY <1>3, <1>4
          <5>2. j \in 1..Len(p[n])
            BY <2>1, <3>2, <5>1
          <5>3. q[n][j] = p[n][j]
            BY <1>5, <5>2
          <5> QED
            BY <2>1, <5>2, <5>3
        <4>2. p[i][j].prev =
                  IF i = 1
                  THEN IF p[i][j].blk.prev = c.id THEN 1 ELSE 0
                  ELSE IndexOfId(p[i - 1], p[i][j].blk.prev)
          BY <1>1, <4>1 DEF WellLinked
        <4> QED
          BY <3>1, <4>1, <4>2
      <3>3. CASE j = Len(p[n]) + 1
        BY <1>3, <1>5, <1>7, <2>1, <3>1, <3>3 DEF ParentIndex, n
      <3> QED
        BY <1>3, <1>4, <1>5, <2>1, <3>2, <3>3
    <2>2. CASE i = n + 1
      <3> DEFINE x == p[i][j].blk.prev
      <3>1. j \in 1..Len(p[i]) /\ i # 1 /\ i - 1 = n
        BY <1>3, <1>6, <2>2
      <3>2. p[i][j].prev = IndexOfId(p[n], x)
        BY <1>1, <1>3, <1>4, <3>1 DEF WellLinked
      <3>3. q[i][j].blk.prev = x
        BY <1>6, <2>2, <3>1
      <3>4. IndexOfId(q[n], x) =
                IF IndexOfId(p[n], x) = 0 /\ b.id = x
                THEN Len(p[n]) + 1 ELSE IndexOfId(p[n], x)
        <4>1. p[n] \in Bin /\ e \in Entry /\ q[n] = Append(p[n], e)
          BY <1>2, <1>3, <1>4
        <4> HIDE DEF x
        <4> QED
          BY <1>7, <4>1, IndexAfterAppend
      <3>5. q[i][j].prev = IF x = b.id /\ p[i][j].prev = 0
                           THEN Len(p[n]) + 1 ELSE p[i][j].prev
        BY <1>6, <2>2, <3>1
      <3> HIDE DEF x
      <3> QED
        BY <3>1, <3>2, <3>3, <3>4, <3>5
    <2>3. CASE i # n /\ i # n + 1
      <3> DEFINE x == p[i][j].blk.prev
      <3>1. q[i] = p[i]
        BY <1>2, <2>3
      <3>2. p[i][j].prev = IF i = 1
                           THEN IF x = c.id THEN 1 ELSE 0
                           ELSE IndexOfId(p[i - 1], x)
        BY <1>1, <1>3, <1>4, <3>1 DEF WellLinked
      <3>3. ASSUME i # 1
            PROVE  IndexOfId(q[i - 1], x) = IndexOfId(p[i - 1], x)
        <4> i - 1 \in 1..Len(p) /\ i - 1 # n
          BY <1>3, <2>3, <3>3
        <4>1. CASE i - 1 = n + 1
          <5>1. /\ p[i - 1] \in Bin /\ q[i - 1] \in Bin
                /\ Len(q[i - 1]) = Len(p[i - 1])
                /\ \A k \in 1..Len(q[i - 1]) :
                      q[i - 1][k].blk.id = p[i - 1][k].blk.id
            BY <1>4, <1>6, <4>1
          <5> HIDE DEF x
          <5> QED
            BY <5>1, IndexDependsOnIds
        <4>2. CASE i - 1 # n + 1
          <5>1. q[i - 1] = p[i - 1]
            BY <1>2, <4>2
          <5> QED
            BY <5>1
        <4> QED
          BY <4>1, <4>2
      <3> QED
        BY <3>1, <3>2, <3>3
    <2> QED
      BY <2>1, <2>2, <2>3
  <1> QED
    BY <1>1, <1>2, <1>8, <1>9 DEF PoolOK, q

-----------------------------------------------------------------------------
(* Relinking changes no block and keeps the bin a bin.                     *)
LEMMA RelinkedBin ==
    ASSUME NEW bin \in Bin, NEW id
    PROVE  /\ Relinked(bin, id) \in Bin
           /\ Len(Relinked(bin, id)) = Len(bin)
           /\ \A j \in 1..Len(bin) :
                 /\ Relinked(bin, id)[j].blk = bin[j].blk
                 /\ Relinked(bin, id)[j].processed = bin[j].processed
                 /\ Relinked(bin, id)[j].prev =
                        IF bin[j].blk.prev = id THEN 1 ELSE 0
  <1> DEFINE t == Relinked(bin, id)
  <1>1. /\ Len(bin) \in Nat /\ DOMAIN bin = 1..Len(bin)
        /\ \A j \in 1..Len(bin) : bin[j] \in Entry
    BY SeqIsFunction DEF Bin
  <1>2. t = [j \in 1..Len(bin) |->
                [bin[j] EXCEPT !.prev = IF bin[j].blk.prev = id THEN 1 ELSE 0]]
    BY <1>1 DEF Relinked
  <1> HIDE DEF t
  <1>3. ASSUME NEW j \in 1..Len(bin)
        PROVE  /\ t[j] \in Entry
               /\ t[j].blk = bin[j].blk
               /\ t[j].processed = bin[j].processed
               /\ t[j].prev = IF bin[j].blk.prev = id THEN 1 ELSE 0
    BY <1>1, <1>2 DEF Entry
  <1>4. t \in [1..Len(bin) -> Entry]
    BY <1>2, <1>3
  <1>5. t \in Seq(Entry) /\ Len(t) = Len(bin)
    BY <1>1, <1>4, FunctionIsSeq
  <1> QED
    BY <1>3, <1>5 DEF Bin, t

(* What the bins are after the first one is popped.                        *)
LEMMA PoppedPool ==
    ASSUME NEW p \in Pools, Len(p) >= 2, NEW w \in 1..Len(p[1])
    PROVE  LET q == Popped(p, w)
           IN  /\ q \in Pools
               /\ Len(q) = Len(p) - 1
               /\ q[1] = Relinked(p[2], p[1][w].blk.id)
               /\ \A i \in 2..Len(q) : q[i] = p[i + 1]
  <1> DEFINE q == Popped(p, w)
             id == p[1][w].blk.id
             Q(i) == IF i = 1 THEN Relinked(p[2], id) ELSE p[i + 1]
  <1>1. /\ Len(p) \in Nat /\ Len(p) - 1 \in Nat
        /\ \A i \in 1..Len(p) : p[i] \in Bin
    BY BinsOfPool
  <1>2. q = [i \in 1..(Len(p) - 1) |-> Q(i)]
    BY DEF Popped
  <1> HIDE DEF q, id
  <1>3. ASSUME NEW i \in 1..(Len(p) - 1)
        PROVE  Q(i) \in Bin
    <2>1. p[2] \in Bin /\ p[i + 1] \in Bin
      BY <1>1
    <2>2. Relinked(p[2], id) \in Bin
      BY <2>1, RelinkedBin
    <2> QED
      BY <2>1, <2>2
  <1>4. \A i \in 1..(Len(p) - 1) : q[i] = Q(i)
    BY <1>2
  <1>5. q \in [1..(Len(p) - 1) -> Bin]
    BY <1>2, <1>3
  <1>6. q \in Pools /\ Len(q) = Len(p) - 1
    BY <1>1, <1>5, FunctionIsSeq DEF Pools
  <1> QED
    BY <1>1, <1>4, <1>6 DEF q, id

(* The block at an index of bin 1 becomes the confirmed block, one height  *)
(* above the last one.                                                     *)
LEMMA ConfirmedTip ==
    ASSUME NEW p, NEW c, PoolOK(p, c), 1 \in DOMAIN p, NEW w \in DOMAIN p[1]
    PROVE  /\ p[1][w].blk \in Blocks
           /\ ConfirmedBy(p, c, w) \in Tips
           /\ ConfirmedBy(p, c, w).id = p[1][w].blk.id
           /\ ConfirmedBy(p, c, w).height = c.height + 1
           /\ p[1][w].prev = 1 => p[1][w].blk.prev = c.id
  <1>1. p \in Pools /\ c \in Tips /\ ByHeight(p, c) /\ WellLinked(p, c)
    BY DEF PoolOK
  <1>2. p[1][w] \in Entry
    BY <1>1, BinsOfPool
  <1>3. p[1][w].blk \in Blocks
    BY <1>2 DEF Entry
  <1>4. p[1][w].blk.height \in Nat /\ p[1][w].blk.id \in BlockIds
    BY <1>3, BlockFields
  <1>5. c.id \in BlockIds /\ c.height \in Nat
    BY <1>1 DEF Tips
  <1>6. p[1][w].blk.height = c.height + 1
    BY <1>1 DEF ByHeight
  <1>7. p[1][w].prev = IF p[1][w].blk.prev = c.id THEN 1 ELSE 0
    BY <1>1 DEF WellLinked
  <1> QED
    BY <1>3, <1>4, <1>5, <1>6, <1>7 DEF ConfirmedBy, Tips

(* Popping the first bin and relinking the next keeps heights and links    *)
(* right above the new confirmed block.                                    *)
LEMMA PoppedPoolOK ==
    ASSUME NEW p, NEW c, PoolOK(p, c), Len(p) >= 2, NEW w \in DOMAIN p[1]
    PROVE  PoolOK(Popped(p, w), ConfirmedBy(p, c, w))
  <1> DEFINE q == Popped(p, w)
             d == ConfirmedBy(p, c, w)
             id == p[1][w].blk.id
  <1>1. p \in Pools /\ c \in Tips /\ ByHeight(p, c) /\ WellLinked(p, c)
    BY DEF PoolOK
  <1>2. /\ Len(p) \in Nat /\ DOMAIN p = 1..Len(p)
        /\ \A i \in 1..Len(p) : /\ p[i] \in Bin
                                /\ Len(p[i]) \in Nat
                                /\ DOMAIN p[i] = 1..Len(p[i])
    BY <1>1, BinsOfPool
  <1>3. 1 \in DOMAIN p /\ w \in 1..Len(p[1]) /\ p[2] \in Bin
    BY <1>2
  <1>4. d \in Tips /\ d.id = id /\ d.height = c.height + 1
    BY <1>3, ConfirmedTip
  <1>5. /\ q \in Pools
        /\ Len(q) = Len(p) - 1
        /\ q[1] = Relinked(p[2], id)
        /\ \A i \in 2..Len(q) : q[i] = p[i + 1]
    BY <1>1, <1>3, PoppedPool
  <1> HIDE DEF q, d, id
  <1>6. /\ q[1] \in Bin
        /\ Len(q[1]) = Len(p[2])
        /\ \A j \in 1..Len(p[2]) :
              /\ q[1][j].blk = p[2][j].blk
              /\ q[1][j].prev = IF p[2][j].blk.prev = id THEN 1 ELSE 0
    <2> DEFINE bin == p[2]
    <2>1. bin \in Bin /\ q[1] = Relinked(bin, id)
      BY <1>3, <1>5
    <2> HIDE DEF bin
    <2>2. /\ q[1] \in Bin
          /\ Len(q[1]) = Len(bin)
          /\ \A j \in 1..Len(bin) :
                /\ q[1][j].blk = bin[j].blk
                /\ q[1][j].prev = IF bin[j].blk.prev = id THEN 1 ELSE 0
      BY <2>1, RelinkedBin
    <2> QED
      BY <2>2 DEF bin
  <1>7. /\ Len(q) \in Nat /\ DOMAIN q = 1..Len(q)
        /\ \A i \in 1..Len(q) : DOMAIN q[i] = 1..Len(q[i])
    BY <1>5, BinsOfPool
  <1>8. ASSUME NEW i \in DOMAIN q, NEW j \in DOMAIN q[i]
        PROVE  /\ i + 1 \in DOMAIN p
               /\ j \in DOMAIN p[i + 1]
               /\ q[i][j].blk = p[i + 1][j].blk
               /\ i # 1 => q[i] = p[i + 1]
    <2>1. CASE i = 1
      <3>1. 1 + 1 \in 1..Len(p) /\ DOMAIN p[2] = 1..Len(p[2]) /\ 1 + 1 = 2
        BY <1>2, <1>3
      <3>2. j \in 1..Len(p[2])
        BY <1>6, <1>7, <2>1
      <3> QED
        BY <1>2, <1>6, <2>1, <3>1, <3>2
    <2>2. CASE i # 1
      <3>1. i \in 2..Len(q) /\ i + 1 \in 1..Len(p)
        BY <1>2, <1>5, <1>7, <2>2
      <3> QED
        BY <1>2, <1>5, <3>1
    <2> QED
      BY <2>1, <2>2
  <1>9. ByHeight(q, d)
    <2> SUFFICES ASSUME NEW i \in DOMAIN q, NEW j \in DOMAIN q[i]
                 PROVE  q[i][j].blk.height = d.height + i
      BY DEF ByHeight
    <2>1. p[i + 1][j].blk.height = c.height + (i + 1)
      BY <1>1, <1>8 DEF ByHeight
    <2>2. c.height \in Nat /\ i \in Nat
      BY <1>1, <1>7 DEF Tips
    <2>3. q[i][j].blk = p[i + 1][j].blk
      BY <1>8
    <2>4. d.height = c.height + 1
      BY <1>4
    <2>5. c.height + (i + 1) = d.height + i
      BY <2>2, <2>4
    <2> QED
      BY <2>1, <2>3, <2>5
  <1>10. WellLinked(q, d)
    <2> SUFFICES ASSUME NEW i \in DOMAIN q, NEW j \in DOMAIN q[i]
                 PROVE  q[i][j].prev =
                            IF i = 1
                            THEN IF q[i][j].blk.prev = d.id THEN 1 ELSE 0
                            ELSE IndexOfId(q[i - 1], q[i][j].blk.prev)
      BY DEF WellLinked
    <2>1. CASE i = 1
      BY <1>4, <1>6, <1>7, <2>1
    <2>2. CASE i # 1
      <3> DEFINE x == p[i + 1][j].blk.prev
      <3>1. /\ i + 1 \in DOMAIN p /\ j \in DOMAIN p[i + 1]
            /\ q[i] = p[i + 1] /\ i + 1 # 1 /\ (i + 1) - 1 = i
        <4>1. i \in Nat \ {0}
          BY <1>7
        <4>2. i + 1 \in DOMAIN p /\ j \in DOMAIN p[i + 1] /\ q[i] = p[i + 1]
          BY <1>8, <2>2
        <4> QED
          BY <4>1, <4>2
      <3>2. p[i + 1][j].prev = IndexOfId(p[i], x)
        BY <1>1, <3>1 DEF WellLinked
      <3>3. IndexOfId(q[i - 1], x) = IndexOfId(p[i], x)
        <4>1. CASE i = 2
          <5>1. /\ p[2] \in Bin /\ q[1] \in Bin /\ Len(q[1]) = Len(p[2])
                /\ \A k \in 1..Len(q[1]) : q[1][k].blk.id = p[2][k].blk.id
            BY <1>3, <1>6
          <5> HIDE DEF x
          <5>2. IndexOfId(q[1], x) = IndexOfId(p[2], x)
            BY <5>1, IndexDependsOnIds
          <5> QED
            BY <4>1, <5>2
        <4>2. CASE i # 2
          <5>1. i - 1 \in 2..Len(q) /\ (i - 1) + 1 = i
            BY <1>7, <2>2, <4>2
          <5>2. q[i - 1] = p[i]
            BY <1>5, <5>1
          <5> QED
            BY <5>2
        <4> QED
          BY <4>1, <4>2
      <3> HIDE DEF x
      <3>4. q[i][j].blk.prev = x
        BY <3>1 DEF x
      <3> QED
        BY <2>2, <3>1, <3>2, <3>3, <3>4
    <2> QED
      BY <2>1, <2>2
  <1> QED
    BY <1>4, <1>5, <1>9, <1>10 DEF PoolOK, q, d

-----------------------------------------------------------------------------
(* Marking an entry processed moves nothing.                               *)
LEMMA ProcessedPoolOK ==
    ASSUME NEW p, NEW c, PoolOK(p, c),
           NEW m \in DOMAIN p, NEW k \in DOMAIN p[m]
    PROVE  PoolOK([p EXCEPT ![m][k].processed = TRUE], c)
  <1> DEFINE q == [p EXCEPT ![m][k].processed = TRUE]
             t == [p[m] EXCEPT ![k].processed = TRUE]
  <1>1. p \in Pools /\ c \in Tips /\ ByHeight(p, c) /\ WellLinked(p, c)
    BY DEF PoolOK
  <1>2. /\ Len(p) \in Nat /\ DOMAIN p = 1..Len(p)
        /\ \A i \in 1..Len(p) : /\ p[i] \in Bin
                                /\ Len(p[i]) \in Nat
                                /\ DOMAIN p[i] = 1..Len(p[i])
                                /\ \A j \in 1..Len(p[i]) : p[i][j] \in Entry
    BY <1>1, BinsOfPool
  <1>3. /\ p[m] \in Bin
        /\ Len(p[m]) \in Nat
        /\ DOMAIN p[m] = 1..Len(p[m])
        /\ p[m] \in [1..Len(p[m]) -> Entry]
    BY <1>2, SeqIsFunction DEF Bin
  <1>4. p \in [1..Len(p) -> Bin]
    BY <1>1, SeqIsFunction DEF Pools
  <1>5. q = [p EXCEPT ![m] = t]
    OBVIOUS
  <1>6. ASSUME NEW j \in 1..Len(p[m])
        PROVE  /\ t[j] \in Entry
               /\ t[j].blk = p[m][j].blk
               /\ t[j].prev = p[m][j].prev
    <2>1. p[m][j] \in Entry
      BY <1>3
    <2>2. t[j] = IF j = k THEN [p[m][j] EXCEPT !.processed = TRUE] ELSE p[m][j]
      BY <1>3
    <2> HIDE DEF t
    <2> QED
      BY <2>1, <2>2 DEF Entry
  <1>7. t \in [1..Len(p[m]) -> Entry]
    <2>1. DOMAIN t = 1..Len(p[m]) /\ t = [j \in DOMAIN t |-> t[j]]
      BY <1>3
    <2> HIDE DEF t
    <2> QED
      BY <1>6, <2>1
  <1> HIDE DEF q, t
  <1>8. t \in Bin /\ Len(t) = Len(p[m]) /\ DOMAIN t = DOMAIN p[m]
    BY <1>3, <1>7, FunctionIsSeq DEF Bin
  <1>9. q \in [1..Len(p) -> Bin]
    BY <1>4, <1>5, <1>8
  <1>10. q \in Pools /\ Len(q) = Len(p) /\ DOMAIN q = DOMAIN p
    BY <1>2, <1>9, FunctionIsSeq DEF Pools
  <1>11. \A i \in DOMAIN p : q[i] = IF i = m THEN t ELSE p[i]
    BY <1>2, <1>4, <1>5
  <1>12. ASSUME NEW i \in DOMAIN p
         PROVE  /\ q[i] \in Bin /\ p[i] \in Bin
                /\ DOMAIN q[i] = DOMAIN p[i]
                /\ Len(q[i]) = Len(p[i])
                /\ DOMAIN p[i] = 1..Len(p[i])
                /\ \A j \in DOMAIN p[i] : /\ q[i][j].blk = p[i][j].blk
                                          /\ q[i][j].prev = p[i][j].prev
    <2>1. CASE i = m
      <3>1. q[i] = t /\ p[i] = p[m]
        BY <1>11, <2>1
      <3> QED
        BY <1>3, <1>6, <1>8, <3>1
    <2>2. CASE i # m
      BY <1>2, <1>11, <2>2
    <2> QED
      BY <2>1, <2>2
  <1>13. ByHeight(q, c)
    BY <1>1, <1>10, <1>12 DEF ByHeight
  <1>14. WellLinked(q, c)
    <2> SUFFICES ASSUME NEW i \in DOMAIN p, NEW j \in DOMAIN p[i]
                 PROVE  q[i][j].prev =
                            IF i = 1
                            THEN IF q[i][j].blk.prev = c.id THEN 1 ELSE 0
                            ELSE IndexOfId(q[i - 1], q[i][j].blk.prev)
      BY <1>10, <1>12 DEF WellLinked
    <2> DEFINE x == p[i][j].blk.prev
    <2>1. p[i][j].prev = IF i = 1
                         THEN IF x = c.id THEN 1 ELSE 0
                         ELSE IndexOfId(p[i - 1], x)
      BY <1>1 DEF WellLinked
    <2>2. ASSUME i # 1
          PROVE  IndexOfId(q[i - 1], x) = IndexOfId(p[i - 1], x)
      <3>1. i - 1 \in DOMAIN p
        BY <1>2, <2>2
      <3>2. /\ p[i - 1] \in Bin /\ q[i - 1] \in Bin
            /\ Len(q[i - 1]) = Len(p[i - 1])
            /\ \A n \in 1..Len(q[i - 1]) :
                  q[i - 1][n].blk.id = p[i - 1][n].blk.id
        BY <1>12, <3>1
      <3> HIDE DEF x
      <3> QED
        BY <3>2, IndexDependsOnIds
    <2>3. q[i][j].prev = p[i][j].prev /\ q[i][j].blk.prev = x
      BY <1>12
    <2> HIDE DEF x
    <2> QED
      BY <2>1, <2>2, <2>3
  <1> QED
    BY <1>1, <1>10, <1>13, <1>14 DEF PoolOK, q

-----------------------------------------------------------------------------
(* The inductive invariant: the pool is well formed, its entries lie at    *)
(* the height of their bin and point at their parents.  Neither heights    *)
(* nor links are inductive alone: the link of a block that becomes bin 1's *)
(* is only right if the bin it was in was.                                 *)
IInv == PoolOK(pool, confirmed) /\ slots \in 0..MaxSlots

(* An accepted block has a bin in the pool grown for it.                   *)
LEMMA AcceptedBin ==
    ASSUME IInv, NEW b \in Blocks, Admitted(confirmed, slots, b)
    PROVE  /\ BinOf(confirmed, b) \in Nat
           /\ PoolOK(Grown(pool, BinOf(confirmed, b)), confirmed)
           /\ BinOf(confirmed, b) \in
                  1..Len(Grown(pool, BinOf(confirmed, b)))
           /\ PoolOK(WithBlock(b), confirmed)
  <1> DEFINE n == BinOf(confirmed, b)
             p == Grown(pool, n)
  <1>1. PoolOK(pool, confirmed) /\ pool \in Pools /\ confirmed \in Tips
    BY DEF IInv, PoolOK
  <1>2. n \in Nat /\ n >= 1
    BY <1>1, BlockFields DEF Admitted, BinOf, Tips
  <1> HIDE DEF n
  <1>3. PoolOK(p, confirmed)
    BY <1>1, <1>2, GrownPoolOK
  <1>4. Len(p) >= n /\ Len(p) \in Nat
    BY <1>1, <1>2, GrownPool, BinsOfPool
  <1> HIDE DEF p
  <1>5. n \in 1..Len(p)
    BY <1>2, <1>4
  <1>6. PoolOK(Inserted(p, confirmed, b), confirmed)
    BY <1>3, <1>5, InsertedPoolOK DEF n
  <1> QED
    BY <1>2, <1>3, <1>5, <1>6 DEF n, p, WithBlock

LEMMA InitInvariant == Init => IInv
  <1> SUFFICES ASSUME Init
               PROVE  IInv
    OBVIOUS
  <1>1. pool \in Pools
    BY DEF Init, Pools
  <1>2. confirmed \in Tips
    BY DEF Init, Tips, BlockIds
  <1>3. ByHeight(pool, confirmed) /\ WellLinked(pool, confirmed)
    BY DEF Init, ByHeight, WellLinked
  <1> QED
    BY <1>1, <1>2, <1>3 DEF Init, IInv, PoolOK

(* A block confirmed by PushAndResolve is a child of the confirmed block.  *)
LEMMA ResolvedPool ==
    ASSUME IInv, NEW b \in Blocks, Accepted(b),
           NEW w \in DOMAIN WithBlock(b)[1],
           Resolves(WithBlock(b), confirmed, b, w)
    PROVE  LET c == ConfirmedBy(WithBlock(b), confirmed, w)
               d == WithBlock(b)[1][w].blk
           IN  /\ PoolOK(Popped(WithBlock(b), w), c)
               /\ d \in Blocks
               /\ d.prev = confirmed.id
               /\ d.height = confirmed.height + 1
               /\ c.height = confirmed.height + 1
  <1> DEFINE p == WithBlock(b)
  <1>1. PoolOK(p, confirmed)
    BY AcceptedBin DEF Accepted
  <1>2. Len(p) >= 2 /\ p[1][w].prev = 1
    BY DEF Resolves, Heaviest
  <1> HIDE DEF p
  <1>3. PoolOK(Popped(p, w), ConfirmedBy(p, confirmed, w))
    BY <1>1, <1>2, PoppedPoolOK DEF p
  <1>4. 1 \in DOMAIN p
    BY <1>1, <1>2, BinsOfPool DEF PoolOK
  <1>5. /\ p[1][w].blk \in Blocks
        /\ ConfirmedBy(p, confirmed, w).height = confirmed.height + 1
        /\ p[1][w].blk.prev = confirmed.id
    BY <1>1, <1>2, <1>4, ConfirmedTip DEF p
  <1>6. p[1][w].blk.height = confirmed.height + 1
    BY <1>5 DEF ConfirmedBy
  <1> QED
    BY <1>3, <1>5, <1>6 DEF p

LEMMA StepInvariant == IInv /\ [Next]_vars => IInv'
  <1> SUFFICES ASSUME IInv, [Next]_vars
               PROVE  IInv'
    OBVIOUS
  <1>1. PoolOK(pool, confirmed) /\ slots \in 0..MaxSlots /\ MaxSlots \in Nat
    BY LevelsAssumption DEF IInv
  <1>2. ASSUME NEW b \in Blocks, Reject(b)
        PROVE  IInv'
    BY <1>1, <1>2 DEF Reject, vars, IInv
  <1>3. ASSUME NEW b \in Blocks, Drop(b)
        PROVE  IInv'
    <2>1. PoolOK(Grown(pool, BinOf(confirmed, b)), confirmed)
      BY <1>3, AcceptedBin DEF Drop
    <2> QED
      BY <1>1, <1>3, <2>1 DEF Drop, IInv
  <1>4. ASSUME NEW b \in Blocks, Push(b)
        PROVE  IInv'
    <2>1. PoolOK(WithBlock(b), confirmed)
      BY <1>4, AcceptedBin DEF Push, Accepted
    <2> QED
      BY <1>1, <1>4, <2>1 DEF Push, IInv
  <1>5. ASSUME NEW b \in Blocks, PushAndResolve(b)
        PROVE  IInv'
    <2>1. PICK w \in DOMAIN WithBlock(b)[1] :
             /\ Resolves(WithBlock(b), confirmed, b, w)
             /\ pool' = Popped(WithBlock(b), w)
             /\ confirmed' = ConfirmedBy(WithBlock(b), confirmed, w)
      BY <1>5 DEF PushAndResolve
    <2>2. PoolOK(Popped(WithBlock(b), w), ConfirmedBy(WithBlock(b), confirmed, w))
      BY <1>5, <2>1, ResolvedPool DEF PushAndResolve
    <2> QED
      BY <1>1, <1>5, <2>1, <2>2 DEF PushAndResolve, IInv
  <1>6. ASSUME NEW i \in DOMAIN pool, NEW j \in DOMAIN pool[i],
               SetUnresolvedBlock(i, j)
        PROVE  IInv'
    <2>1. PoolOK([pool EXCEPT ![i][j].processed = TRUE], confirmed)
      BY <1>1, ProcessedPoolOK
    <2> QED
      BY <1>1, <1>6, <2>1 DEF SetUnresolvedBlock, IInv
  <1>7. ASSUME Tick
        PROVE  IInv'
    BY <1>1, <1>7 DEF Tick, IInv
  <1>8. ASSUME UNCHANGED vars
        PROVE  IInv'
    BY <1>1, <1>8 DEF vars, IInv
  <1> QED
    BY <1>2, <1>3, <1>4, <1>5, <1>6, <1>7, <1>8 DEF Next

(* The inductive invariant holds in every reachable state.                 *)
THEOREM Invariant == Spec => []IInv
  BY InitInvariant, StepInvariant, PTL DEF Spec

(* Whatever is delivered and in whatever order, the pool stays a deque of  *)
(* bins of entries and the confirmed block one that exists.                *)
THEOREM TypeCorrect == Spec => []TypeOK
  <1>1. IInv => TypeOK
    BY DEF IInv, PoolOK, TypeOK, Pools, Bin, Tips
  <1> QED
    BY <1>1, Invariant, PTL

(* Every entry lies in the bin of its height above the confirmed block, so *)
(* the height arithmetic of pushBlock and setUnresolvedBlock finds it.     *)
THEOREM HeightsAlwaysByBin == Spec => []HeightsByBin
  <1>1. IInv => HeightsByBin
    BY DEF IInv, PoolOK, HeightsByBin
  <1> QED
    BY <1>1, Invariant, PTL

(* Parent indices point at the parent, for every order of arrival, every   *)
(* fork and every pop of the deque.                                        *)
THEOREM LinksAlwaysExact == Spec => []LinksExact
  <1>1. IInv => LinksExact
    BY DEF IInv, PoolOK, LinksExact
  <1> QED
    BY <1>1, Invariant, PTL

(* The pool implements ConfirmedChain: the confirmed block only moves to   *)
(* one of its children.                                                    *)
THEOREM ImplementsConfirmedChain == Spec => ConfirmedChainOnly
  <1>1. Init => Chain!ChainInit
    BY DEF Init, Chain!ChainInit, Chain!GenesisTip
  <1>2. IInv /\ [Next]_vars => [Chain!ChainNext]_confirmed
    <2> SUFFICES ASSUME IInv, Next, confirmed' # confirmed
                 PROVE  Chain!ChainNext
      BY DEF vars
    <2>1. PICK b \in Blocks : PushAndResolve(b)
      BY DEF Next, Reject, Drop, Push, SetUnresolvedBlock, Tick, vars
    <2>2. PICK w \in DOMAIN WithBlock(b)[1] :
             /\ Resolves(WithBlock(b), confirmed, b, w)
             /\ confirmed' = ConfirmedBy(WithBlock(b), confirmed, w)
      BY <2>1 DEF PushAndResolve
    <2> DEFINE d == WithBlock(b)[1][w].blk
    <2>3. /\ d \in Blocks
          /\ d.prev = confirmed.id
          /\ d.height = confirmed.height + 1
      BY <2>1, <2>2, ResolvedPool DEF PushAndResolve
    <2>4. confirmed' = [id |-> d.id, height |-> d.height,
                        prev |-> confirmed.id]
      BY <2>2 DEF ConfirmedBy
    <2> HIDE DEF d
    <2>5. Chain!Extend(d)
      BY <2>3, <2>4 DEF Chain!Extend
    <2> QED
      BY <2>3, <2>5 DEF Chain!ChainNext
  <1> QED
    BY <1>1, <1>2, Invariant, PTL DEF Spec, ConfirmedChainOnly, Chain!ChainSpec

-----------------------------------------------------------------------------
(* Which entries a pool has after an operation, and what is left of them.  *)

(* Two entries hold the same block, processed or not.                      *)
SameEntry(e, f) == e.blk = f.blk /\ e.processed = f.processed

(* Growing adds no entry.                                                  *)
LEMMA GrownEntries ==
    ASSUME NEW p \in Pools, NEW n \in Nat
    PROVE  /\ DOMAIN p \subseteq DOMAIN Grown(p, n)
           /\ \A i \in DOMAIN p : Grown(p, n)[i] = p[i]
           /\ \A i \in DOMAIN Grown(p, n) \ DOMAIN p : Grown(p, n)[i] = <<>>
           /\ Len(Grown(p, n)) = IF Len(p) < n THEN n ELSE Len(p)
  <1> DEFINE q == Grown(p, n)
             m == IF Len(p) < n THEN n ELSE Len(p)
  <1>1. q \in Pools /\ Len(p) \in Nat /\ DOMAIN p = 1..Len(p)
    BY GrownPool, BinsOfPool
  <1>2. m \in Nat /\ q = [i \in 1..m |-> IF i <= Len(p) THEN p[i] ELSE <<>>]
    BY <1>1 DEF Grown
  <1> HIDE DEF q
  <1>3. DOMAIN q = 1..m /\ DOMAIN q = 1..Len(q) /\ Len(q) \in Nat
    BY <1>1, <1>2, BinsOfPool
  <1>4. Len(q) = m
    BY <1>2, <1>3
  <1> QED
    BY <1>1, <1>2, <1>3, <1>4 DEF q

(* Inserting appends one entry, which is not processed, and moves none.    *)
LEMMA InsertedEntries ==
    ASSUME NEW p \in Pools, NEW c \in Tips, NEW b \in Blocks,
           BinOf(c, b) \in 1..Len(p)
    PROVE  LET n == BinOf(c, b)
               q == Inserted(p, c, b)
           IN  /\ DOMAIN q = DOMAIN p
               /\ \A i \in DOMAIN p : \A j \in DOMAIN p[i] :
                     j \in DOMAIN q[i] /\ SameEntry(p[i][j], q[i][j])
               /\ \A i \in DOMAIN q : \A j \in DOMAIN q[i] \ DOMAIN p[i] :
                     i = n /\ q[i][j].blk = b /\ ~q[i][j].processed
               /\ DOMAIN q[n] = 1..(Len(p[n]) + 1)
               /\ q[n][Len(p[n]) + 1].blk = b
               /\ ~q[n][Len(p[n]) + 1].processed
  <1> DEFINE n == BinOf(c, b)
             q == Inserted(p, c, b)
             e == [blk |-> b, prev |-> ParentIndex(p, c, b),
                   processed |-> FALSE]
  <1>1. /\ q \in Pools
        /\ Len(q) = Len(p)
        /\ e \in Entry
        /\ q[n] = Append(p[n], e)
        /\ n + 1 \in 1..Len(p) =>
              q[n + 1] = Adopt(p[n + 1], b.id, Len(p[n]) + 1)
        /\ \A i \in 1..Len(p) : i # n /\ i # n + 1 => q[i] = p[i]
    BY InsertedPool
  <1>2. e.blk = b /\ ~e.processed
    OBVIOUS
  <1>3. n \in 1..Len(p)
    OBVIOUS
  <1> HIDE DEF n, q, e
  <1>4. /\ Len(p) \in Nat /\ DOMAIN p = 1..Len(p) /\ DOMAIN q = 1..Len(p)
        /\ \A i \in 1..Len(p) :
              /\ p[i] \in Bin /\ Len(p[i]) \in Nat
              /\ DOMAIN p[i] = 1..Len(p[i])
              /\ DOMAIN q[i] = 1..Len(q[i])
    BY <1>1, BinsOfPool
  <1>5. /\ DOMAIN q[n] = 1..(Len(p[n]) + 1)
        /\ \A j \in 1..Len(p[n]) : q[n][j] = p[n][j]
        /\ q[n][Len(p[n]) + 1] = e
    <2>1. p[n] \in Bin /\ DOMAIN q[n] = 1..Len(q[n])
      BY <1>3, <1>4
    <2>2. /\ Len(q[n]) = Len(p[n]) + 1
          /\ \A j \in 1..Len(p[n]) : q[n][j] = p[n][j]
          /\ q[n][Len(p[n]) + 1] = e
      BY <1>1, <2>1, AppendedBin
    <2> QED
      BY <2>1, <2>2
  <1>6. ASSUME NEW i \in DOMAIN p, i # n
        PROVE  /\ DOMAIN q[i] = DOMAIN p[i]
               /\ \A j \in DOMAIN p[i] : SameEntry(p[i][j], q[i][j])
    <2>1. CASE i = n + 1
      <3> DEFINE bin == p[i]
                 k == Len(p[n]) + 1
      <3>1. /\ bin \in Bin /\ k \in Nat /\ q[i] = Adopt(bin, b.id, k)
            /\ DOMAIN bin = 1..Len(bin) /\ DOMAIN q[i] = 1..Len(q[i])
        BY <1>1, <1>3, <1>4, <1>6, <2>1
      <3> HIDE DEF bin, k
      <3>2. /\ Len(q[i]) = Len(bin)
            /\ \A j \in 1..Len(bin) : /\ q[i][j].blk = bin[j].blk
                                      /\ q[i][j].processed = bin[j].processed
        BY <3>1, AdoptedBin
      <3> QED
        BY <3>1, <3>2 DEF bin, SameEntry
    <2>2. CASE i # n + 1
      BY <1>1, <1>4, <1>6, <2>2 DEF SameEntry
    <2> QED
      BY <2>1, <2>2
  <1>7. \A i \in DOMAIN p : \A j \in DOMAIN p[i] :
           j \in DOMAIN q[i] /\ SameEntry(p[i][j], q[i][j])
    BY <1>3, <1>4, <1>5, <1>6 DEF SameEntry
  <1>8. ASSUME NEW i \in DOMAIN q, NEW j \in DOMAIN q[i] \ DOMAIN p[i]
        PROVE  i = n /\ q[i][j] = e
    <2>1. i = n
      BY <1>4, <1>6, <1>8
    <2>2. j = Len(p[n]) + 1
      BY <1>3, <1>4, <1>5, <1>8, <2>1
    <2> QED
      BY <1>5, <2>1, <2>2
  <1>9. DOMAIN q = DOMAIN p
    BY <1>4
  <1> QED
    BY <1>2, <1>5, <1>7, <1>8, <1>9 DEF n, q

(* Popping moves every other bin down and keeps its entries in place.      *)
LEMMA PoppedEntries ==
    ASSUME NEW p \in Pools, Len(p) >= 2, NEW w \in 1..Len(p[1])
    PROVE  LET q == Popped(p, w)
           IN  /\ DOMAIN q = 1..(Len(p) - 1)
               /\ \A i \in DOMAIN q :
                     /\ i + 1 \in DOMAIN p
                     /\ DOMAIN q[i] = DOMAIN p[i + 1]
                     /\ \A j \in DOMAIN q[i] : SameEntry(p[i + 1][j], q[i][j])
  <1> DEFINE q == Popped(p, w)
             id == p[1][w].blk.id
  <1>1. /\ q \in Pools
        /\ Len(q) = Len(p) - 1
        /\ q[1] = Relinked(p[2], id)
        /\ \A i \in 2..Len(q) : q[i] = p[i + 1]
    BY PoppedPool
  <1> HIDE DEF q, id
  <1>2. /\ Len(p) \in Nat /\ DOMAIN p = 1..Len(p) /\ DOMAIN q = 1..(Len(p) - 1)
        /\ \A i \in 1..Len(p) : p[i] \in Bin /\ DOMAIN p[i] = 1..Len(p[i])
        /\ \A i \in DOMAIN q : DOMAIN q[i] = 1..Len(q[i])
    BY <1>1, BinsOfPool
  <1>3. /\ DOMAIN q[1] = DOMAIN p[2]
        /\ \A j \in DOMAIN q[1] : SameEntry(p[2][j], q[1][j])
    <2> DEFINE bin == p[2]
    <2>1. bin \in Bin /\ q[1] = Relinked(bin, id)
      BY <1>1, <1>2
    <2>2. DOMAIN bin = 1..Len(bin) /\ DOMAIN q[1] = 1..Len(q[1])
      BY <1>1, <1>2
    <2> HIDE DEF bin
    <2>3. /\ Len(q[1]) = Len(bin)
          /\ \A j \in 1..Len(bin) : /\ q[1][j].blk = bin[j].blk
                                    /\ q[1][j].processed = bin[j].processed
      BY <2>1, RelinkedBin
    <2> QED
      BY <2>2, <2>3 DEF bin, SameEntry
  <1>4. ASSUME NEW i \in DOMAIN q
        PROVE  /\ i + 1 \in DOMAIN p
               /\ DOMAIN q[i] = DOMAIN p[i + 1]
               /\ \A j \in DOMAIN q[i] : SameEntry(p[i + 1][j], q[i][j])
    <2>1. CASE i = 1
      BY <1>2, <1>3, <2>1
    <2>2. CASE i # 1
      <3>1. i \in 2..Len(q) /\ i + 1 \in DOMAIN p
        BY <1>1, <1>2, <2>2
      <3> QED
        BY <1>1, <3>1 DEF SameEntry
    <2> QED
      BY <2>1, <2>2
  <1> QED
    BY <1>2, <1>4 DEF q

(* Marking an entry processed changes only its mark.                       *)
LEMMA ProcessedEntries ==
    ASSUME NEW p \in Pools, NEW m \in DOMAIN p, NEW k \in DOMAIN p[m]
    PROVE  LET q == [p EXCEPT ![m][k].processed = TRUE]
           IN  /\ DOMAIN q = DOMAIN p
               /\ \A i \in DOMAIN p :
                     /\ DOMAIN q[i] = DOMAIN p[i]
                     /\ \A j \in DOMAIN p[i] :
                           /\ q[i][j].blk = p[i][j].blk
                           /\ q[i][j].processed <=>
                                 (p[i][j].processed \/ (i = m /\ j = k))
  <1> DEFINE q == [p EXCEPT ![m][k].processed = TRUE]
             t == [p[m] EXCEPT ![k].processed = TRUE]
  <1>1. q = [p EXCEPT ![m] = t]
    OBVIOUS
  <1>2. /\ p[m] \in Bin /\ DOMAIN p[m] = 1..Len(p[m])
        /\ \A j \in DOMAIN p[m] : p[m][j] \in Entry
        /\ \A i \in DOMAIN p : \A j \in DOMAIN p[i] : p[i][j] \in Entry
    BY BinsOfPool
  <1>3. DOMAIN t = DOMAIN p[m]
    BY <1>2
  <1>4. ASSUME NEW j \in DOMAIN p[m]
        PROVE  /\ t[j].blk = p[m][j].blk
               /\ t[j].processed <=> (p[m][j].processed \/ j = k)
    <2>1. t[j] = IF j = k THEN [p[m][j] EXCEPT !.processed = TRUE] ELSE p[m][j]
      OBVIOUS
    <2>2. p[m][j] \in Entry
      BY <1>2
    <2> HIDE DEF t
    <2>3. CASE j = k
      BY <2>1, <2>2, <2>3 DEF Entry
    <2>4. CASE j # k
      BY <2>1, <2>2, <2>4 DEF Entry
    <2> QED
      BY <2>3, <2>4
  <1> HIDE DEF t
  <1>5. DOMAIN q = DOMAIN p /\ \A i \in DOMAIN p : q[i] = IF i = m THEN t ELSE p[i]
    BY <1>1
  <1> HIDE DEF q
  <1>6. ASSUME NEW i \in DOMAIN p
        PROVE  /\ DOMAIN q[i] = DOMAIN p[i]
               /\ \A j \in DOMAIN p[i] :
                     /\ q[i][j].blk = p[i][j].blk
                     /\ q[i][j].processed <=>
                           (p[i][j].processed \/ (i = m /\ j = k))
    <2>1. CASE i = m
      BY <1>3, <1>4, <1>5, <2>1
    <2>2. CASE i # m
      <3>1. \A j \in DOMAIN p[i] : p[i][j].processed \in BOOLEAN
        BY <1>2 DEF Entry
      <3> QED
        BY <1>5, <2>2, <3>1
    <2> QED
      BY <2>1, <2>2
  <1> QED
    BY <1>5, <1>6 DEF q

-----------------------------------------------------------------------------
(* No two entries of a bin are the same block.                             *)
NoDup(p) ==
    \A i \in DOMAIN p : \A j, k \in DOMAIN p[i] :
        SameBlock(p[i][j].blk, p[i][k].blk) => j = k

LEMMA GrownNoDup ==
    ASSUME NEW p \in Pools, NEW n \in Nat, NoDup(p)
    PROVE  NoDup(Grown(p, n))
  <1>1. /\ \A i \in DOMAIN p : Grown(p, n)[i] = p[i]
        /\ \A i \in DOMAIN Grown(p, n) \ DOMAIN p : Grown(p, n)[i] = <<>>
    BY GrownEntries
  <1> DEFINE q == Grown(p, n)
  <1> HIDE DEF q
  <1>2. \A i \in DOMAIN q \ DOMAIN p : DOMAIN q[i] = {}
    BY <1>1 DEF q
  <1> QED
    BY <1>1, <1>2 DEF NoDup, q

(* A block is appended only if the bin has no entry like it, grown or not. *)
LEMMA InsertedNoDup ==
    ASSUME NEW p \in Pools, NEW c \in Tips, NEW b \in Blocks, NoDup(p),
           BinOf(c, b) \in Nat \ {0}, ~Duplicate(p, c, b)
    PROVE  NoDup(Inserted(Grown(p, BinOf(c, b)), c, b))
  <1> DEFINE n == BinOf(c, b)
             g == Grown(p, n)
             q == Inserted(g, c, b)
  <1>1. g \in Pools /\ n \in 1..Len(g) /\ NoDup(g)
    <2>1. g \in Pools /\ Len(g) >= n /\ NoDup(g)
      BY GrownPool, GrownNoDup
    <2>2. Len(g) \in Nat
      BY <2>1, BinsOfPool
    <2> QED
      BY <2>1, <2>2
  <1>2. ASSUME NEW j \in DOMAIN g[n]
        PROVE  ~SameBlock(g[n][j].blk, b)
    <2>1. n \in DOMAIN g
      BY <1>1, BinsOfPool
    <2>2. CASE n \in DOMAIN p
      <3>1. g[n] = p[n]
        BY <2>2, GrownEntries
      <3> QED
        BY <1>2, <2>2, <3>1 DEF Duplicate
    <2>3. CASE n \notin DOMAIN p
      <3>1. g[n] = <<>>
        BY <2>1, <2>3, GrownEntries
      <3> QED
        BY <1>2, <3>1
    <2> QED
      BY <2>2, <2>3
  <1> HIDE DEF g
  <1>3. /\ DOMAIN q = DOMAIN g
        /\ \A i \in DOMAIN g : \A j \in DOMAIN g[i] :
              j \in DOMAIN q[i] /\ SameEntry(g[i][j], q[i][j])
        /\ \A i \in DOMAIN q : \A j \in DOMAIN q[i] \ DOMAIN g[i] :
              i = n /\ q[i][j].blk = b /\ ~q[i][j].processed
        /\ DOMAIN q[n] = 1..(Len(g[n]) + 1)
    BY <1>1, InsertedEntries
  <1>4. DOMAIN g[n] = 1..Len(g[n]) /\ Len(g[n]) \in Nat
    BY <1>1, BinsOfPool
  <1> HIDE DEF n, q
  <1>5. SUFFICES ASSUME NEW i \in DOMAIN q, NEW j \in DOMAIN q[i],
                        NEW k \in DOMAIN q[i],
                        SameBlock(q[i][j].blk, q[i][k].blk)
                 PROVE  j = k
    BY DEF NoDup, q, g, n
  <1>6. CASE j \in DOMAIN g[i] /\ k \in DOMAIN g[i]
    BY <1>1, <1>3, <1>5, <1>6 DEF NoDup, SameEntry
  <1>7. CASE j \notin DOMAIN g[i] /\ k \notin DOMAIN g[i]
    <2>1. i = n
      BY <1>3, <1>7
    <2> QED
      BY <1>3, <1>4, <1>7, <2>1
  <1>8. CASE j \in DOMAIN g[i] /\ k \notin DOMAIN g[i]
    <2>1. i = n /\ q[i][k].blk = b /\ q[i][j].blk = g[i][j].blk
      BY <1>3, <1>8 DEF SameEntry
    <2> QED
      BY <1>2, <1>5, <1>8, <2>1
  <1>9. CASE j \notin DOMAIN g[i] /\ k \in DOMAIN g[i]
    <2>1. i = n /\ q[i][j].blk = b /\ q[i][k].blk = g[i][k].blk
      BY <1>3, <1>9 DEF SameEntry
    <2>2. SameBlock(q[i][k].blk, b)
      BY <1>5, <2>1 DEF SameBlock
    <2> QED
      BY <1>2, <1>9, <2>1, <2>2
  <1> QED
    BY <1>6, <1>7, <1>8, <1>9

LEMMA PoppedNoDup ==
    ASSUME NEW p \in Pools, NoDup(p), Len(p) >= 2, NEW w \in 1..Len(p[1])
    PROVE  NoDup(Popped(p, w))
  <1> DEFINE q == Popped(p, w)
  <1>1. \A i \in DOMAIN q :
           /\ i + 1 \in DOMAIN p
           /\ DOMAIN q[i] = DOMAIN p[i + 1]
           /\ \A j \in DOMAIN q[i] : SameEntry(p[i + 1][j], q[i][j])
    BY PoppedEntries
  <1> HIDE DEF q
  <1> QED
    BY <1>1 DEF NoDup, SameEntry, q

LEMMA ProcessedNoDup ==
    ASSUME NEW p \in Pools, NoDup(p), NEW m \in DOMAIN p, NEW k \in DOMAIN p[m]
    PROVE  NoDup([p EXCEPT ![m][k].processed = TRUE])
  <1> DEFINE q == [p EXCEPT ![m][k].processed = TRUE]
  <1>1. /\ DOMAIN q = DOMAIN p
        /\ \A i \in DOMAIN p :
              /\ DOMAIN q[i] = DOMAIN p[i]
              /\ \A j \in DOMAIN p[i] : q[i][j].blk = p[i][j].blk
    BY ProcessedEntries
  <1> HIDE DEF q
  <1> QED
    BY <1>1 DEF NoDup, q

(* What a push needs to know of the state: the pools before and after it.  *)
LEMMA AcceptedPools ==
    ASSUME IInv, NEW b \in Blocks, Accepted(b)
    PROVE  /\ pool \in Pools /\ confirmed \in Tips /\ WithBlock(b) \in Pools
           /\ BinOf(confirmed, b) \in Nat \ {0}
           /\ Grown(pool, BinOf(confirmed, b)) \in Pools
           /\ BinOf(confirmed, b) \in
                  1..Len(Grown(pool, BinOf(confirmed, b)))
  BY AcceptedBin, GrownPool DEF IInv, PoolOK, Accepted

(* A resolve pops a bin of a pool that has two.                            *)
LEMMA ResolvesPops ==
    ASSUME IInv, NEW b \in Blocks, Accepted(b),
           NEW w \in DOMAIN WithBlock(b)[1],
           Resolves(WithBlock(b), confirmed, b, w)
    PROVE  /\ Len(WithBlock(b)) >= 2 /\ w \in 1..Len(WithBlock(b)[1])
           /\ ConfirmedBy(WithBlock(b), confirmed, w).height =
                 confirmed.height + 1
  <1>1. Len(WithBlock(b)) >= 2 /\ WithBlock(b) \in Pools
    BY AcceptedPools DEF Resolves
  <1>2. DOMAIN WithBlock(b)[1] = 1..Len(WithBlock(b)[1])
    BY <1>1, BinsOfPool
  <1> QED
    BY <1>1, <1>2, ResolvedPool

LEMMA StepNoDuplicates == IInv /\ NoDuplicates /\ [Next]_vars => NoDuplicates'
  <1> SUFFICES ASSUME IInv, NoDup(pool), [Next]_vars
               PROVE  NoDup(pool')
    BY DEF NoDuplicates, NoDup
  <1>1. pool \in Pools /\ confirmed \in Tips
    BY DEF IInv, PoolOK
  <1>2. ASSUME NEW b \in Blocks, Drop(b)
        PROVE  NoDup(pool')
    <2>1. BinOf(confirmed, b) \in Nat
      BY <1>2, AcceptedBin DEF Drop
    <2> QED
      BY <1>1, <1>2, <2>1, GrownNoDup DEF Drop
  <1>3. ASSUME NEW b \in Blocks, Accepted(b)
        PROVE  NoDup(WithBlock(b))
    BY <1>1, <1>3, AcceptedPools, InsertedNoDup DEF WithBlock, Accepted
  <1>4. ASSUME NEW b \in Blocks, Push(b)
        PROVE  NoDup(pool')
    BY <1>3, <1>4 DEF Push
  <1>5. ASSUME NEW b \in Blocks, PushAndResolve(b)
        PROVE  NoDup(pool')
    <2>1. Accepted(b)
      BY <1>5 DEF PushAndResolve
    <2>2. PICK w \in DOMAIN WithBlock(b)[1] :
             /\ Resolves(WithBlock(b), confirmed, b, w)
             /\ pool' = Popped(WithBlock(b), w)
      BY <1>5 DEF PushAndResolve
    <2>3. Len(WithBlock(b)) >= 2 /\ w \in 1..Len(WithBlock(b)[1])
      BY <2>1, <2>2, ResolvesPops
    <2>4. WithBlock(b) \in Pools
      BY <2>1, AcceptedPools
    <2> QED
      BY <1>3, <2>1, <2>2, <2>3, <2>4, PoppedNoDup
  <1>6. ASSUME NEW i \in DOMAIN pool, NEW j \in DOMAIN pool[i],
               SetUnresolvedBlock(i, j)
        PROVE  NoDup(pool')
    BY <1>1, <1>6, ProcessedNoDup DEF SetUnresolvedBlock
  <1> QED
    BY <1>2, <1>4, <1>5, <1>6 DEF Next, vars, Reject, Tick

(* A block delivered again, by whomever and after any pops, is recognised: *)
(* it stays in the bin of its height, which is where pushBlock looks.      *)
THEOREM NeverADuplicate == Spec => []NoDuplicates
  <1>1. Init => NoDuplicates
    BY DEF Init, NoDuplicates
  <1> QED
    BY <1>1, InitInvariant, StepInvariant, StepNoDuplicates, PTL DEF Spec

(* The deque is never longer than the time since the confirmed block lets  *)
(* it: prepareDeque checks the time before it resizes, and a pop shortens. *)
THEOREM AlwaysWithinClock == Spec => []WithinClock
  <1>1. Init => WithinClock
    BY DEF Init, WithinClock
  <1>2. IInv /\ WithinClock /\ [Next]_vars => WithinClock'
    <2> SUFFICES ASSUME IInv, WithinClock, [Next]_vars
                 PROVE  WithinClock'
      OBVIOUS
    <2>1. pool \in Pools /\ slots \in Nat /\ Len(pool) \in Nat
      BY LevelsAssumption, BinsOfPool DEF IInv, PoolOK
    <2>2. ASSUME NEW b \in Blocks, Admitted(confirmed, slots, b)
          PROVE  LET g == Grown(pool, BinOf(confirmed, b))
                 IN  Len(g) - 1 <= slots /\ Len(g) \in Nat
      <3>1. /\ BinOf(confirmed, b) - 1 <= slots
            /\ BinOf(confirmed, b) \in Nat
        BY <2>2, AcceptedBin DEF Admitted
      <3>2. Len(Grown(pool, BinOf(confirmed, b))) =
               IF Len(pool) < BinOf(confirmed, b)
               THEN BinOf(confirmed, b) ELSE Len(pool)
        BY <2>1, <3>1, GrownEntries
      <3>3. pool = <<>> => Len(pool) = 0
        OBVIOUS
      <3> QED
        BY <2>1, <3>1, <3>2, <3>3 DEF WithinClock
    <2>3. ASSUME NEW b \in Blocks, Accepted(b)
          PROVE  Len(WithBlock(b)) - 1 <= slots /\ Len(WithBlock(b)) \in Nat
      <3>1. Len(WithBlock(b)) = Len(Grown(pool, BinOf(confirmed, b)))
        BY <2>3, AcceptedPools, InsertedPool DEF WithBlock
      <3> QED
        BY <2>2, <2>3, <3>1 DEF Accepted
    <2>4. ASSUME NEW b \in Blocks, Drop(b)
          PROVE  WithinClock'
      BY <2>2, <2>4 DEF Drop, WithinClock
    <2>5. ASSUME NEW b \in Blocks, Push(b)
          PROVE  WithinClock'
      BY <2>3, <2>5 DEF Push, WithinClock
    <2>6. ASSUME NEW b \in Blocks, PushAndResolve(b)
          PROVE  WithinClock'
      <3>1. Accepted(b) /\ slots' = slots
        BY <2>6 DEF PushAndResolve
      <3>2. PICK w \in DOMAIN WithBlock(b)[1] :
               /\ Resolves(WithBlock(b), confirmed, b, w)
               /\ pool' = Popped(WithBlock(b), w)
        BY <2>6 DEF PushAndResolve
      <3>3. Len(pool') = Len(WithBlock(b)) - 1
        BY <3>1, <3>2, AcceptedPools, ResolvesPops, PoppedPool
      <3> QED
        BY <2>1, <2>3, <3>1, <3>3 DEF WithinClock
    <2>7. ASSUME NEW i \in DOMAIN pool, NEW j \in DOMAIN pool[i],
                 SetUnresolvedBlock(i, j)
          PROVE  WithinClock'
      <3>1. DOMAIN pool' = DOMAIN pool /\ pool' \in Pools
        BY <2>1, <2>7, StepInvariant
           DEF SetUnresolvedBlock, IInv, PoolOK, Next
      <3>2. Len(pool') = Len(pool)
        BY <2>1, <3>1, BinsOfPool
      <3>3. pool # <<>>
        BY <2>7
      <3> QED
        BY <2>7, <3>2, <3>3 DEF SetUnresolvedBlock, WithinClock
    <2>8. ASSUME Tick
          PROVE  WithinClock'
      BY <2>1, <2>8 DEF Tick, WithinClock
    <2> QED
      BY <2>4, <2>5, <2>6, <2>7, <2>8 DEF Next, vars, Reject, WithinClock
  <1> QED
    BY <1>1, <1>2, InitInvariant, StepInvariant, PTL DEF Spec

(* An entry is where it was, one bin lower for each height confirmed since,*)
(* at the same index, and as processed as before: the indices chain.cpp    *)
(* keeps outside the pool stay good.                                       *)
THEOREM IndicesAlwaysStable == Spec => IndicesStable
  <1> DEFINE Kept(i, j) ==
          LET m == confirmed.height + i - confirmed'.height
          IN  m >= 1 =>
                /\ m \in DOMAIN pool'
                /\ j \in DOMAIN pool'[m]
                /\ pool'[m][j].blk = pool[i][j].blk
                /\ pool[i][j].processed => pool'[m][j].processed
  <1>1. IInv /\ [Next]_vars =>
           [\A i \in DOMAIN pool : \A j \in DOMAIN pool[i] : Kept(i, j)]_vars
    <2> SUFFICES ASSUME IInv, Next,
                        NEW i \in DOMAIN pool, NEW j \in DOMAIN pool[i]
                 PROVE  Kept(i, j)
      OBVIOUS
    <2>1. /\ pool \in Pools /\ confirmed \in Tips /\ confirmed.height \in Nat
          /\ i \in Nat \ {0}
      BY BinsOfPool DEF IInv, PoolOK, Tips
    <2>2. ASSUME confirmed'.height = confirmed.height,
                 i \in DOMAIN pool', j \in DOMAIN pool'[i],
                 pool'[i][j].blk = pool[i][j].blk,
                 pool[i][j].processed => pool'[i][j].processed
          PROVE  Kept(i, j)
      BY <2>1, <2>2
    <2>3. ASSUME confirmed'.height = confirmed.height + 1,
                 i >= 2 => /\ i - 1 \in DOMAIN pool'
                           /\ j \in DOMAIN pool'[i - 1]
                           /\ pool'[i - 1][j].blk = pool[i][j].blk
                           /\ pool[i][j].processed => pool'[i - 1][j].processed
          PROVE  Kept(i, j)
      BY <2>1, <2>3
    <2> HIDE DEF Kept
    <2>4. ASSUME NEW b \in Blocks, Drop(b)
          PROVE  Kept(i, j)
      <3>1. BinOf(confirmed, b) \in Nat
        BY <2>4, AcceptedBin DEF Drop
      <3>2. i \in DOMAIN pool' /\ pool'[i] = pool[i]
        BY <2>1, <2>4, <3>1, GrownEntries DEF Drop
      <3> QED
        BY <2>2, <2>4, <3>2 DEF Drop
    <2>5. ASSUME NEW b \in Blocks, Accepted(b)
          PROVE  /\ i \in DOMAIN WithBlock(b) /\ j \in DOMAIN WithBlock(b)[i]
                 /\ SameEntry(pool[i][j], WithBlock(b)[i][j])
      <3> DEFINE g == Grown(pool, BinOf(confirmed, b))
      <3>1. i \in DOMAIN g /\ g[i] = pool[i]
        BY <2>1, <2>5, AcceptedPools, GrownEntries
      <3>2. /\ g \in Pools /\ confirmed \in Tips
            /\ BinOf(confirmed, b) \in 1..Len(g)
        BY <2>5, AcceptedPools
      <3> HIDE DEF g
      <3>3. /\ DOMAIN Inserted(g, confirmed, b) = DOMAIN g
            /\ \A k \in DOMAIN g : \A l \in DOMAIN g[k] :
                  /\ l \in DOMAIN Inserted(g, confirmed, b)[k]
                  /\ SameEntry(g[k][l], Inserted(g, confirmed, b)[k][l])
        BY <3>2, InsertedEntries
      <3> QED
        BY <3>1, <3>3 DEF WithBlock, g
    <2>6. ASSUME NEW b \in Blocks, Push(b)
          PROVE  Kept(i, j)
      BY <2>2, <2>5, <2>6 DEF Push, SameEntry
    <2>7. ASSUME NEW b \in Blocks, PushAndResolve(b)
          PROVE  Kept(i, j)
      <3>1. Accepted(b)
        BY <2>7 DEF PushAndResolve
      <3>2. PICK w \in DOMAIN WithBlock(b)[1] :
               /\ Resolves(WithBlock(b), confirmed, b, w)
               /\ pool' = Popped(WithBlock(b), w)
               /\ confirmed' = ConfirmedBy(WithBlock(b), confirmed, w)
        BY <2>7 DEF PushAndResolve
      <3> DEFINE p == WithBlock(b)
      <3>3. /\ p \in Pools /\ Len(p) >= 2 /\ w \in 1..Len(p[1])
            /\ confirmed'.height = confirmed.height + 1
        BY <3>1, <3>2, AcceptedPools, ResolvesPops
      <3>4. i \in DOMAIN p /\ j \in DOMAIN p[i] /\ SameEntry(pool[i][j], p[i][j])
        BY <2>5, <3>1
      <3>5. pool' = Popped(p, w)
        BY <3>2
      <3> HIDE DEF p
      <3>6. /\ DOMAIN pool' = 1..(Len(p) - 1) /\ DOMAIN p = 1..Len(p)
            /\ Len(p) \in Nat
            /\ \A k \in DOMAIN pool' :
                  /\ k + 1 \in DOMAIN p
                  /\ DOMAIN pool'[k] = DOMAIN p[k + 1]
                  /\ \A l \in DOMAIN pool'[k] : SameEntry(p[k + 1][l], pool'[k][l])
        BY <3>3, <3>5, PoppedEntries, BinsOfPool
      <3>7. ASSUME i >= 2
            PROVE  /\ i - 1 \in DOMAIN pool'
                   /\ j \in DOMAIN pool'[i - 1]
                   /\ pool'[i - 1][j].blk = pool[i][j].blk
                   /\ pool[i][j].processed => pool'[i - 1][j].processed
        <4>1. i - 1 \in DOMAIN pool' /\ (i - 1) + 1 = i
          BY <2>1, <3>4, <3>6, <3>7
        <4>2. j \in DOMAIN pool'[i - 1] /\ SameEntry(p[i][j], pool'[i - 1][j])
          BY <3>4, <3>6, <4>1
        <4> QED
          BY <3>4, <4>1, <4>2 DEF SameEntry
      <3> QED
        BY <2>3, <3>3, <3>7
    <2>8. ASSUME NEW m \in DOMAIN pool, NEW k \in DOMAIN pool[m],
                 SetUnresolvedBlock(m, k)
          PROVE  Kept(i, j)
      <3>1. /\ i \in DOMAIN pool' /\ j \in DOMAIN pool'[i]
            /\ pool'[i][j].blk = pool[i][j].blk
            /\ pool[i][j].processed => pool'[i][j].processed
        BY <2>1, <2>8, ProcessedEntries DEF SetUnresolvedBlock
      <3> QED
        BY <2>2, <2>8, <3>1 DEF SetUnresolvedBlock
    <2>9. ASSUME UNCHANGED <<pool, confirmed>>
          PROVE  Kept(i, j)
      BY <2>2, <2>9
    <2> QED
      BY <2>4, <2>6, <2>7, <2>8, <2>9 DEF Next, vars, Reject, Tick
  <1> QED
    BY <1>1, Invariant, PTL DEF Spec, IndicesStable

-----------------------------------------------------------------------------
(* The lines of descent of BlockTree, for blocks whose heights are bounded.*)

(* The block, if there is one, that a block's descent goes on with.        *)
Parents(R, heir, b) ==
    {q \in R : /\ q.height + 1 = b.height
               /\ q.id = b.prev
               /\ q = heir[q.id]}

LinesUp(R, heir, f) ==
    f = [b \in R |-> {b} \cup UNION {f[q] : q \in Parents(R, heir, b)}]

LineBy(R, heir) == CHOOSE f : LinesUp(R, heir, f)

Below(R, H) == H \in Nat /\ \A b \in R : b.height \in Nat /\ b.height < H

LEMMA LineIsLineBy ==
    ASSUME NEW R, NEW heir, NEW d
    PROVE  Tree!Line(R, heir, d) = LineBy(R, heir)[d]
BY DEF Tree!Line, LineBy, LinesUp, Parents

(* Such a function exists: n steps settle the lines of heights below n.    *)
LEMMA LinesExist ==
    ASSUME NEW R, NEW heir, NEW H, Below(R, H)
    PROVE  \E f \in [R -> SUBSET R] : LinesUp(R, heir, f)
<1> DEFINE V == [R -> SUBSET R]
           N == H + 1
           Up(b) == Parents(R, heir, b)
           Step(v) == [b \in R |-> {b} \cup UNION {v[q] : q \in Up(b)}]
           G == [q \in (1..N) \X V |-> Step(q[2])]
           none == [b \in R |-> {}]
<1>1. /\ H \in Nat /\ N \in Nat
      /\ \A b \in R : b.height \in Nat /\ b.height < H
  BY DEF Below
<1>2. \A b \in R : \A q \in Up(b) : q \in R /\ q.height + 1 = b.height
  BY DEF Parents
<1> HIDE DEF Up
<1>3. \A v \in V : Step(v) \in V
  BY <1>2
<1> HIDE DEF Step
<1>4. \A i \in 1..N : \A v \in V : G[<<i, v>>] = Step(v)
  OBVIOUS
<1> HIDE DEF G
<1>5. none \in V
  OBVIOUS
<1> HIDE DEF none, N
<1>6. StepsIn(G, N, V)
  BY <1>3, <1>4 DEF StepsIn
<1> HIDE DEF V
<1>7. PICK h : BuiltBy(G, N, V, none, h)
  BY <1>1, <1>5, <1>6, Recursion
<1>8. h \in [0..N -> V] /\ \A i \in 1..N : h[i] = Step(h[i - 1])
  <2>1. /\ h \in [0..N -> V]
        /\ \A i \in 1..N : h[i] = G[<<i, h[i - 1]>>]
    BY <1>7 DEF BuiltBy
  <2>2. \A i \in 1..N : h[i - 1] \in V
    BY <1>1, <2>1
  <2> QED BY <1>4, <2>1, <2>2
<1> DEFINE T == {n \in Nat : \A i \in 1..N : i > n =>
                    \A b \in R : b.height < n => h[i][b] = h[i - 1][b]}
<1>9. 0 \in T
  BY <1>1
<1>10. ASSUME NEW n \in T
       PROVE  n + 1 \in T
  <2> SUFFICES ASSUME NEW i \in 1..N, i > n + 1, NEW b \in R, b.height < n + 1
               PROVE  h[i][b] = h[i - 1][b]
    OBVIOUS
  <2>1. n \in Nat /\ i - 1 \in 1..N /\ i - 1 > n /\ i \in Nat
    BY <1>1
  <2>2. \A q \in Up(b) : h[i - 1][q] = h[(i - 1) - 1][q]
    <3>1. \A q \in Up(b) : q \in R /\ q.height < n
      BY <1>1, <1>2, <2>1
    <3> QED BY <2>1, <3>1
  <2>3. h[i] = Step(h[i - 1]) /\ h[i - 1] = Step(h[(i - 1) - 1])
    BY <1>8, <2>1
  <2>4. \A v : Step(v)[b] = {b} \cup UNION {v[q] : q \in Up(b)}
    BY DEF Step
  <2> DEFINE u == h[i - 1]
             t == h[(i - 1) - 1]
  <2>5. UNION {u[q] : q \in Up(b)} = UNION {t[q] : q \in Up(b)}
    BY <2>2
  <2>6. h[i] = Step(u) /\ u = Step(t)
    BY <2>3
  <2> HIDE DEF u, t
  <2> DEFINE su == {b} \cup UNION {u[q] : q \in Up(b)}
             st == {b} \cup UNION {t[q] : q \in Up(b)}
  <2>8. Step(u)[b] = su /\ Step(t)[b] = st
    BY <2>4
  <2>9. su = st
    BY <2>5
  <2> HIDE DEF su, st
  <2>7. h[i][b] = u[b]
    BY <2>6, <2>8, <2>9
  <2> QED BY <2>7 DEF u
<1>11. T = Nat
  <2>1. T \in SUBSET Nat
    OBVIOUS
  <2> HIDE DEF T
  <2> QED BY <1>9, <1>10, <2>1, InductionOnSets
<1> DEFINE f == h[N]
           e == h[N - 1]
<1>12. f \in V /\ f = Step(e)
  <2>1. N \in 1..N /\ N \in 0..N
    BY <1>1 DEF N
  <2> QED BY <1>8, <2>1
<1>13. \A b \in R : f[b] = e[b]
  <2>1. N \in 1..N /\ N > H
    BY <1>1 DEF N
  <2>2. H \in T
    BY <1>1, <1>11
  <2>3. \A b \in R : b.height < H => h[N][b] = h[N - 1][b]
    BY <2>1, <2>2
  <2> QED BY <1>1, <2>3
<1> HIDE DEF f, e
<1>14. \A b \in R : UNION {e[q] : q \in Up(b)} = UNION {f[q] : q \in Up(b)}
  BY <1>2, <1>13
<1>15. f = [b \in R |-> {b} \cup UNION {f[q] : q \in Up(b)}]
  BY <1>12, <1>14 DEF Step
<1>16. LinesUp(R, heir, f)
  BY <1>15 DEF LinesUp, Up
<1> QED BY <1>12, <1>16 DEF V

(* A line is its lowest block and the line of the block's parent.          *)
LEMMA LineIs ==
    ASSUME NEW R, NEW heir, NEW H, Below(R, H), NEW d \in R
    PROVE  /\ Tree!Line(R, heir, d) =
                 {d} \cup UNION {Tree!Line(R, heir, q) : q \in Parents(R, heir, d)}
<1> DEFINE f == LineBy(R, heir)
<1>1. LinesUp(R, heir, f)
  BY LinesExist DEF LineBy
<1> HIDE DEF f
<1>2. f[d] = {d} \cup UNION {f[q] : q \in Parents(R, heir, d)}
  BY <1>1 DEF LinesUp
<1>3. \A x : Tree!Line(R, heir, x) = f[x]
  BY LineIsLineBy DEF f
<1> QED BY <1>2, <1>3

(* What a line is like: it goes down one height at a time, to the parent.  *)
Descent(R, heir, d) ==
    LET line == Tree!Line(R, heir, d)
    IN  /\ d \in line /\ line \subseteq R
        /\ \A x \in line : x.height <= d.height /\ (x.height = d.height => x = d)
        /\ \A x \in line : Parents(R, heir, x) \subseteq line
        /\ \A x \in line \ {d} : \E e \in line : x \in Parents(R, heir, e)
        /\ \A x, y \in line : x.height = y.height => x = y

LEMMA Descends ==
    ASSUME NEW R, NEW heir, NEW H, Below(R, H), NEW d \in R
    PROVE  Descent(R, heir, d)
<1> DEFINE T == {n \in Nat : \A b \in R : b.height = n => Descent(R, heir, b)}
           Up(b) == Parents(R, heir, b)
           Ln(b) == Tree!Line(R, heir, b)
<1>1. \A b \in R : b.height \in Nat
  BY DEF Below
<1>2. \A b \in R : \A q \in Up(b) : q \in R /\ q.height + 1 = b.height /\ q.height \in Nat
  BY <1>1 DEF Parents
<1>3. \A b : \A q, r \in Up(b) : q = r
  BY DEF Parents
<1>4. \A b \in R : Ln(b) = {b} \cup UNION {Ln(q) : q \in Up(b)}
  BY LineIs
<1>5. ASSUME NEW b \in R, Up(b) = {}
      PROVE  Descent(R, heir, b)
  <2>1. Ln(b) = {b}
    BY <1>4, <1>5
  <2> QED BY <1>1, <1>5, <2>1 DEF Descent
<1>6. ASSUME NEW b \in R, NEW q \in Up(b), Descent(R, heir, q)
      PROVE  Descent(R, heir, b)
  <2> DEFINE L == Ln(b)
             M == Ln(q)
  <2>1. L = {b} \cup M
    <3>1. Up(b) = {q}
      BY <1>3, <1>6
    <3> HIDE DEF Up, Ln
    <3> QED BY <1>4, <3>1 DEF L, M
  <2>2. /\ q \in M /\ M \subseteq R
        /\ \A x \in M : x.height <= q.height /\ (x.height = q.height => x = q)
        /\ \A x \in M : Up(x) \subseteq M
        /\ \A x \in M \ {q} : \E e \in M : x \in Up(e)
        /\ \A x, y \in M : x.height = y.height => x = y
    BY <1>6 DEF Descent
  <2>3. q \in R /\ q.height + 1 = b.height /\ q.height \in Nat /\ Up(b) = {q}
    BY <1>2, <1>3, <1>6
  <2> HIDE DEF L, M, Up, Ln
  <2>4. \A x \in M : x.height \in Nat /\ x.height < b.height
    BY <1>1, <2>2, <2>3
  <2>5. b \in L /\ L \subseteq R
    BY <2>1, <2>2
  <2>6. \A x \in L : x.height <= b.height /\ (x.height = b.height => x = b)
    BY <1>1, <2>1, <2>4
  <2>7. \A x \in L : Up(x) \subseteq L
    BY <2>1, <2>2, <2>3
  <2>8. \A x \in L \ {b} : \E e \in L : x \in Up(e)
    BY <2>1, <2>2, <2>3
  <2>9. \A x, y \in L : x.height = y.height => x = y
    BY <2>1, <2>2, <2>4, <1>1
  <2> QED BY <2>5, <2>6, <2>7, <2>8, <2>9 DEF Descent, L, Ln, Up
<1>7. 0 \in T
  <2> SUFFICES ASSUME NEW b \in R, b.height = 0
               PROVE  Up(b) = {}
    BY <1>5
  <2> QED BY <1>2
<1>8. ASSUME NEW n \in T
      PROVE  n + 1 \in T
  <2> SUFFICES ASSUME NEW b \in R, b.height = n + 1
               PROVE  Descent(R, heir, b)
    OBVIOUS
  <2>1. \A q \in Up(b) : q \in R /\ q.height = n
    BY <1>2
  <2>2. \A q \in Up(b) : Descent(R, heir, q)
    BY <2>1
  <2> QED BY <1>5, <1>6, <2>2
<1>9. T = Nat
  <2>1. T \in SUBSET Nat
    OBVIOUS
  <2> HIDE DEF T
  <2> QED BY <1>7, <1>8, <2>1, InductionOnSets
<1> QED BY <1>1, <1>9

(* The blocks whose line goes through b, and those of which b is parent.   *)
Behind(R, heir, b) == {d \in R : b \in Tree!Line(R, heir, d)}
Kids(R, heir, b) == {e \in R : b \in Parents(R, heir, e)}

(* What is behind a block is the block and what is behind each child, and  *)
(* no two of these share a block.                                          *)
LEMMA BehindIs ==
    ASSUME NEW R, NEW heir, NEW H, Below(R, H), NEW b \in R
    PROVE  /\ \A d : d \in Behind(R, heir, b) <=>
                 d = b \/ \E e \in Kids(R, heir, b) : d \in Behind(R, heir, e)
           /\ \A e \in Kids(R, heir, b) : b \notin Behind(R, heir, e)
           /\ \A e, f \in Kids(R, heir, b) :
                 e # f => Behind(R, heir, e) \cap Behind(R, heir, f) = {}
<1> DEFINE Ln(d) == Tree!Line(R, heir, d)
           Up(x) == Parents(R, heir, x)
           K == Kids(R, heir, b)
<1>1. \A d \in R : d.height \in Nat
  BY DEF Below
<1>2. \A e \in K : e \in R /\ b \in Up(e) /\ b.height + 1 = e.height
  BY DEF Kids, Parents
<1>3. \A d \in R :
        /\ d \in Ln(d) /\ Ln(d) \subseteq R
        /\ \A x \in Ln(d) : x.height <= d.height
        /\ \A x \in Ln(d) : Up(x) \subseteq Ln(d)
        /\ \A x \in Ln(d) \ {d} : \E e \in Ln(d) : x \in Up(e)
        /\ \A x, y \in Ln(d) : x.height = y.height => x = y
  BY Descends DEF Descent
<1>4. \A e \in R : b \in Up(e) => e \in K
  BY DEF Kids
<1> HIDE DEF Ln, Up, K
<1>5. ASSUME NEW d \in R, b \in Ln(d)
      PROVE  d = b \/ \E e \in K : e \in Ln(d)
  BY <1>3, <1>4, <1>5
<1>6. ASSUME NEW d \in R, NEW e \in K, e \in Ln(d)
      PROVE  b \in Ln(d)
  BY <1>2, <1>3, <1>6
<1>7. \A e \in K : b \notin Ln(b) \/ e \notin Ln(b)
  BY <1>1, <1>2, <1>3
<1>8. ASSUME NEW d \in R, NEW e \in K, NEW f \in K, e \in Ln(d), f \in Ln(d)
      PROVE  e = f
  BY <1>2, <1>3, <1>8
<1>9. \A x : Behind(R, heir, x) = {d \in R : x \in Ln(d)}
  BY DEF Behind, Ln
<1> DEFINE B(x) == {d \in R : x \in Ln(d)}
<1>10. \A d : d \in B(b) <=> d = b \/ \E e \in K : d \in B(e)
  BY <1>3, <1>5, <1>6
<1>11. \A e \in K : b \notin B(e)
  BY <1>3, <1>7
<1>12. \A e, f \in K : e # f => B(e) \cap B(f) = {}
  BY <1>8
<1>13. \A x : Behind(R, heir, x) = B(x)
  BY <1>9
<1> HIDE DEF B
<1> QED BY <1>10, <1>11, <1>12, <1>13 DEF K

Signers(R) == [d \in R |-> d.signers]

(* Support adds up the signers of what is behind the block.                *)
LEMMA SupportIsSum ==
    ASSUME NEW R, NEW heir, NEW b, IsFiniteSet(R), \A d \in R : d.signers \in Nat
    PROVE  /\ Tree!Support(R, heir, b) =
                 SumFunctionOnSet(Signers(R), Behind(R, heir, b))
           /\ Summable(Signers(R), Behind(R, heir, b))
<1> DEFINE D == Behind(R, heir, b)
           g == Signers(R)
           P(f) == f = [s \in SUBSET D |->
                           IF s = {} THEN 0
                           ELSE Picked(s).signers + f[s \ {Picked(s)}]]
           sup == CHOOSE f : P(f)
<1>1. Tree!Support(R, heir, b) = sup[D]
  BY DEF Tree!Support, Tree!MapThenSumSet, Tree!MapThenFoldSet, Picked, Behind
<1>2. D \subseteq R
  BY DEF Behind
<1>3. \A d \in R : g[d] = d.signers /\ g[d] \in Int
  BY DEF Signers
<1>4. Summable(g, D) /\ IsFiniteSet(D)
  BY <1>2, <1>3, FS_Subset DEF Summable
<1> HIDE DEF D, g
<1>5. \A f : P(f) <=> SumsUp(g, D, f)
  <2>1. \A s \in SUBSET D : s # {} => g[Picked(s)] = Picked(s).signers
    BY <1>2, <1>3, PickedIs
  <2> SUFFICES ASSUME NEW f
               PROVE  [s \in SUBSET D |-> IF s = {} THEN 0
                           ELSE Picked(s).signers + f[s \ {Picked(s)}]] =
                      [s \in SUBSET D |-> IF s = {} THEN 0
                           ELSE g[Picked(s)] + f[s \ {Picked(s)}]]
    BY DEF SumsUp
  <2> QED BY <2>1
<1>6. P(sup)
  <2>1. \E f : SumsUp(g, D, f)
    BY <1>4, SumExists
  <2> HIDE DEF P
  <2>2. \E f : P(f)
    BY <1>5, <2>1
  <2> QED BY <2>2
<1>7. SumsUp(g, D, sup)
  BY <1>5, <1>6
<1>8. SumsUp(g, D, SumBy(g, D))
  BY <1>4, SumExists DEF SumBy
<1> HIDE DEF sup
<1>9. sup[D] = SumBy(g, D)[D]
  BY <1>4, <1>7, <1>8, SumUnique
<1> QED BY <1>1, <1>4, <1>9, SumIsSumBy DEF D, g

(* The blocks of a pool, which are received in BlockTree.                  *)
Held(p) == UNION {{e.blk : e \in Range(p[i])} : i \in DOMAIN p}

LEMMA HeldIs ==
    ASSUME NEW p \in Pools
    PROVE  /\ \A d : d \in Held(p) <=>
                 \E i \in DOMAIN p : \E j \in DOMAIN p[i] : d = p[i][j].blk
           /\ Held(p) \subseteq Blocks
<1>1. \A d : d \in Held(p) <=>
          \E i \in DOMAIN p : \E j \in DOMAIN p[i] : d = p[i][j].blk
  BY DEF Held, Range
<1>2. \A i \in DOMAIN p : \A j \in DOMAIN p[i] : p[i][j].blk \in Blocks
  BY BinsOfPool DEF Entry
<1> QED BY <1>1, <1>2

LEMMA HeldFinite ==
    ASSUME NEW p \in Pools
    PROVE  IsFiniteSet(Held(p))
<1>1. /\ Len(p) \in Nat /\ DOMAIN p = 1..Len(p)
      /\ \A i \in DOMAIN p : Len(p[i]) \in Nat /\ DOMAIN p[i] = 1..Len(p[i])
  BY BinsOfPool
<1>2. \A n \in Nat : IsFiniteSet(1..n)
  BY FS_Interval
<1> DEFINE Of(i) == {p[i][j].blk : j \in DOMAIN p[i]}
           S == {Of(i) : i \in DOMAIN p}
<1>3. ASSUME NEW i \in DOMAIN p
      PROVE  IsFiniteSet(Of(i))
  <2> DEFINE f == [j \in DOMAIN p[i] |-> p[i][j].blk]
  <2>1. f \in Surjection(DOMAIN p[i], Of(i))
    BY DEF Surjection
  <2>2. IsFiniteSet(DOMAIN p[i])
    BY <1>1, <1>2
  <2> HIDE DEF f, Of
  <2> QED BY <2>1, <2>2, FS_Surjection
<1>4. IsFiniteSet(S)
  <2> HIDE DEF Of
  <2> DEFINE f == [i \in DOMAIN p |-> Of(i)]
  <2>1. f \in Surjection(DOMAIN p, S)
    BY DEF Surjection
  <2>2. IsFiniteSet(DOMAIN p)
    BY <1>1, <1>2
  <2> HIDE DEF f, S
  <2> QED BY <2>1, <2>2, FS_Surjection
<1>5. \A T \in S : IsFiniteSet(T)
  BY <1>3
<1> HIDE DEF S
<1>6. IsFiniteSet(UNION S)
  BY <1>4, <1>5, FS_UNION
<1>7. Held(p) = UNION S
  BY DEF Held, Range, S
<1> QED BY <1>6, <1>7

(* A pool that an operation leaves behind.                                 *)
SoundPool(p, c) == PoolOK(p, c) /\ NoDup(p)

(* Of two blocks with one id the first in the bin is the heir.             *)
IsFirst(p, x, b) ==
    \E i \in DOMAIN p : \E j \in DOMAIN p[i] :
        b = p[i][j].blk /\ b.id = x /\ j = IndexOfId(p[i], x)

HeirOf(p) == [x \in Tree!Ids(Held(p)) |-> CHOOSE b \in Held(p) : IsFirst(p, x, b)]

LEMMA PlaceInPool ==
    ASSUME NEW p, NEW c, SoundPool(p, c)
    PROVE  /\ p \in Pools /\ c.height \in Nat
           /\ Len(p) \in Nat /\ DOMAIN p = 1..Len(p)
           /\ \A i \in DOMAIN p : p[i] \in Bin /\ DOMAIN p[i] = 1..Len(p[i])
           /\ \A i \in DOMAIN p : \A j \in DOMAIN p[i] :
                 /\ p[i][j].blk \in Blocks
                 /\ p[i][j].blk.height = c.height + i
                 /\ p[i][j].blk \in Held(p)
           /\ \A i, k \in DOMAIN p : \A j \in DOMAIN p[i] : \A l \in DOMAIN p[k] :
                 p[i][j].blk = p[k][l].blk => i = k /\ j = l
<1>1. /\ p \in Pools /\ c \in Tips /\ ByHeight(p, c) /\ NoDup(p)
  BY DEF SoundPool, PoolOK
<1>2. c.height \in Nat
  BY <1>1 DEF Tips
<1>3. /\ Len(p) \in Nat /\ DOMAIN p = 1..Len(p)
      /\ \A i \in DOMAIN p : p[i] \in Bin /\ DOMAIN p[i] = 1..Len(p[i])
  BY <1>1, BinsOfPool
<1>4. \A i \in DOMAIN p : \A j \in DOMAIN p[i] :
         /\ p[i][j].blk \in Blocks
         /\ p[i][j].blk.height = c.height + i
         /\ p[i][j].blk \in Held(p)
  BY <1>1, HeldIs DEF ByHeight
<1>5. ASSUME NEW i \in DOMAIN p, NEW k \in DOMAIN p,
             NEW j \in DOMAIN p[i], NEW l \in DOMAIN p[k],
             p[i][j].blk = p[k][l].blk
      PROVE  i = k /\ j = l
  <2>1. c.height + i = c.height + k /\ i \in Nat /\ k \in Nat
    BY <1>3, <1>4, <1>5
  <2>2. i = k
    BY <1>2, <2>1
  <2> QED BY <1>1, <1>5, <2>2 DEF NoDup, SameBlock
<1> QED BY <1>1, <1>2, <1>3, <1>4, <1>5

LEMMA HeirIsFirst ==
    ASSUME NEW p, NEW c, SoundPool(p, c)
    PROVE  /\ HeirOf(p) \in Tree!Heirs(Held(p))
           /\ \A i \in DOMAIN p : \A j \in DOMAIN p[i] :
                 HeirOf(p)[p[i][j].blk.id] = p[i][j].blk
                     <=> IndexOfId(p[i], p[i][j].blk.id) = j
<1> DEFINE R == Held(p)
           heir == HeirOf(p)
<1>1. /\ p \in Pools /\ c.height \in Nat
      /\ Len(p) \in Nat /\ DOMAIN p = 1..Len(p)
      /\ \A i \in DOMAIN p : p[i] \in Bin /\ DOMAIN p[i] = 1..Len(p[i])
      /\ \A i \in DOMAIN p : \A j \in DOMAIN p[i] :
            /\ p[i][j].blk \in Blocks
            /\ p[i][j].blk.height = c.height + i
            /\ p[i][j].blk \in R
      /\ \A i, k \in DOMAIN p : \A j \in DOMAIN p[i] : \A l \in DOMAIN p[k] :
            p[i][j].blk = p[k][l].blk => i = k /\ j = l
  BY PlaceInPool
<1>2. ASSUME NEW x \in Tree!Ids(R)
      PROVE  \E b \in R : IsFirst(p, x, b)
  <2>1. PICK d \in R : x = d.id
    BY DEF Tree!Ids
  <2>2. PICK i \in DOMAIN p : \E j \in DOMAIN p[i] : d = p[i][j].blk
    BY <1>1, <2>1, HeldIs
  <2>3. PICK j \in DOMAIN p[i] : d = p[i][j].blk
    BY <2>2
  <2> DEFINE bin == p[i]
             k == IndexOfId(bin, x)
  <2>4. FirstWithId(bin, x, k)
    BY <1>1, IndexOfIdIsFirst
  <2>5. j \in 1..Len(bin) /\ bin[j].blk.id = x /\ DOMAIN bin = 1..Len(bin)
    BY <1>1, <2>1, <2>3
  <2> HIDE DEF k, bin
  <2>6. k \in 1..Len(bin) /\ bin[k].blk.id = x
    BY <2>4, <2>5 DEF FirstWithId
  <2>7. p[i][k].blk \in R
    BY <1>1, <2>5, <2>6 DEF bin
  <2> QED BY <2>5, <2>6, <2>7 DEF bin, k, IsFirst
<1>3. ASSUME NEW x, NEW b, NEW d, IsFirst(p, x, b), IsFirst(p, x, d)
      PROVE  b = d
  <2>1. PICK i \in DOMAIN p : \E j \in DOMAIN p[i] :
           b = p[i][j].blk /\ b.id = x /\ j = IndexOfId(p[i], x)
    BY <1>3 DEF IsFirst
  <2>2. PICK k \in DOMAIN p : \E j \in DOMAIN p[k] :
           d = p[k][j].blk /\ d.id = x /\ j = IndexOfId(p[k], x)
    BY <1>3 DEF IsFirst
  <2>3. b \in Blocks /\ d \in Blocks /\ b.height = c.height + i /\ d.height = c.height + k
    BY <1>1, <2>1, <2>2
  <2>4. b.height = d.height
    BY <2>1, <2>2, <2>3, BlocksAssumption
  <2>5. i = k
    <3>1. i \in Nat /\ k \in Nat /\ c.height + i = c.height + k
      BY <1>1, <2>3, <2>4
    <3> QED BY <1>1, <3>1
  <2> QED BY <2>1, <2>2, <2>5
<1>4. \A x \in Tree!Ids(R) : heir[x] \in R /\ IsFirst(p, x, heir[x])
  BY <1>2 DEF HeirOf
<1>5. heir = [x \in Tree!Ids(R) |-> heir[x]]
  BY DEF HeirOf
<1> HIDE DEF heir, R
<1>6. heir \in Tree!Heirs(R)
  <2>1. \A x \in Tree!Ids(R) : heir[x].id = x
    BY <1>4 DEF IsFirst
  <2>2. heir \in [Tree!Ids(R) -> R]
    BY <1>4, <1>5
  <2> QED BY <2>1, <2>2 DEF Tree!Heirs
<1>7. ASSUME NEW i \in DOMAIN p, NEW j \in DOMAIN p[i]
      PROVE  heir[p[i][j].blk.id] = p[i][j].blk <=> IndexOfId(p[i], p[i][j].blk.id) = j
  <2> DEFINE d == p[i][j].blk
  <2>1. d.id \in Tree!Ids(R) /\ d \in R
    BY <1>1 DEF Tree!Ids
  <2>2. IsFirst(p, d.id, heir[d.id])
    BY <1>4, <2>1
  <2>3. ASSUME IndexOfId(p[i], d.id) = j
        PROVE  heir[d.id] = d
    <3>1. IsFirst(p, d.id, d)
      BY <2>3 DEF IsFirst
    <3> HIDE DEF d
    <3> QED BY <1>3, <2>2, <3>1
  <2>4. ASSUME heir[d.id] = d
        PROVE  IndexOfId(p[i], d.id) = j
    <3>1. IsFirst(p, d.id, d)
      BY <2>2, <2>4
    <3>2. PICK k \in DOMAIN p : \E l \in DOMAIN p[k] :
             d = p[k][l].blk /\ l = IndexOfId(p[k], d.id)
      BY <3>1 DEF IsFirst
    <3> QED BY <1>1, <3>2
  <2> QED BY <2>3, <2>4
<1> QED BY <1>6, <1>7 DEF heir, R

(* An entry's index prev is where its block's parent is.                   *)
LEMMA PrevIsParent ==
    ASSUME NEW p, NEW c, SoundPool(p, c), NEW i \in DOMAIN p, i + 1 \in DOMAIN p,
           NEW j \in DOMAIN p[i], NEW k \in DOMAIN p[i + 1]
    PROVE  p[i][j].blk \in Parents(Held(p), HeirOf(p), p[i + 1][k].blk)
               <=> p[i + 1][k].prev = j
<1> DEFINE heir == HeirOf(p)
           b == p[i][j].blk
           d == p[i + 1][k].blk
           bin == p[i]
<1>1. /\ b \in Held(p) /\ b.height = c.height + i /\ d.height = c.height + (i + 1)
      /\ c.height \in Nat /\ i \in Nat
      /\ bin \in Bin /\ j \in 1..Len(bin) /\ bin[j].blk = b
  BY PlaceInPool
<1>2. heir[b.id] = b <=> IndexOfId(bin, b.id) = j
  BY HeirIsFirst
<1>3. p[i + 1][k].prev = IndexOfId(bin, d.prev)
  <2>1. i + 1 # 1 /\ (i + 1) - 1 = i
    BY <1>1, PlaceInPool
  <2>2. p[i + 1][k].prev =
            IF i + 1 = 1
            THEN IF p[i + 1][k].blk.prev = c.id THEN 1 ELSE 0
            ELSE IndexOfId(p[(i + 1) - 1], p[i + 1][k].blk.prev)
    BY DEF SoundPool, PoolOK, WellLinked
  <2> QED BY <2>1, <2>2
<1>4. FirstWithId(bin, d.prev, IndexOfId(bin, d.prev))
  BY <1>1, IndexOfIdIsFirst
<1> HIDE DEF heir, b, d, bin
<1>5. b.height + 1 = d.height
  BY <1>1
<1>6. IndexOfId(bin, d.prev) = j => b.id = d.prev
  BY <1>1, <1>4 DEF FirstWithId
<1>7. b \in Parents(Held(p), heir, d) <=> b.id = d.prev /\ b = heir[b.id]
  BY <1>1, <1>5 DEF Parents
<1>8. b \in Parents(Held(p), heir, d) <=> p[i + 1][k].prev = j
  BY <1>2, <1>3, <1>6, <1>7
<1> QED BY <1>8 DEF heir, b, d

(* The entries that point at entry j of bin i.                             *)
Pointing(p, i, j) == {k \in DOMAIN p[i + 1] : p[i + 1][k].prev = j}

PointingBlock(p, i, j, e) ==
    i # Len(p) /\ \E k \in Pointing(p, i, j) : e = p[i + 1][k].blk

LEMMA KidsOfEntry ==
    ASSUME NEW p, NEW c, SoundPool(p, c), NEW i \in DOMAIN p, NEW j \in DOMAIN p[i]
    PROVE  \A e : e \in Kids(Held(p), HeirOf(p), p[i][j].blk) <=>
                  PointingBlock(p, i, j, e)
<1> USE DEF PointingBlock
<1> DEFINE R == Held(p)
           heir == HeirOf(p)
           b == p[i][j].blk
           K == Kids(R, heir, b)
<1>1. /\ p \in Pools /\ c.height \in Nat
      /\ Len(p) \in Nat /\ DOMAIN p = 1..Len(p)
      /\ \A m \in DOMAIN p : \A k \in DOMAIN p[m] :
            /\ p[m][k].blk.height = c.height + m
            /\ p[m][k].blk \in R
  BY PlaceInPool
<1>2. \A e \in K : e \in R /\ b \in Parents(R, heir, e) /\ e.height = b.height + 1
  BY DEF Kids, Parents
<1>3. \A e \in R : b \in Parents(R, heir, e) => e \in K
  BY DEF Kids
<1>4. b.height = c.height + i /\ i \in Nat
  BY <1>1
<1>5. i + 1 \in DOMAIN p =>
         \A k \in DOMAIN p[i + 1] :
             b \in Parents(R, heir, p[i + 1][k].blk) <=> p[i + 1][k].prev = j
  BY PrevIsParent
<1> HIDE DEF K, b, heir, R
<1>6. ASSUME NEW e \in K
      PROVE  /\ i + 1 \in DOMAIN p
             /\ \E k \in Pointing(p, i, j) : e = p[i + 1][k].blk
  <2>1. PICK m \in DOMAIN p : \E k \in DOMAIN p[m] : e = p[m][k].blk
    BY <1>1, <1>2, HeldIs DEF R
  <2>2. PICK k \in DOMAIN p[m] : e = p[m][k].blk
    BY <2>1
  <2>3. m = i + 1
    <3>1. c.height + m = (c.height + i) + 1 /\ m \in Nat
      BY <1>1, <1>2, <1>4, <2>2
    <3> QED BY <1>1, <1>4, <3>1
  <2> QED BY <1>2, <1>5, <2>2, <2>3 DEF Pointing
<1>7. CASE i = Len(p)
  <2>1. i + 1 \notin DOMAIN p
    BY <1>1, <1>7
  <2>2. K = {}
    BY <1>6, <2>1
  <2> QED BY <1>7, <2>2 DEF K, R, heir, b
<1>8. CASE i # Len(p)
  <2>1. i + 1 \in DOMAIN p
    BY <1>1, <1>8
  <2>2. \A k \in Pointing(p, i, j) : p[i + 1][k].blk \in K
    BY <1>1, <1>3, <1>5, <2>1 DEF Pointing
  <2>3. \A e : e \in K <=> \E k \in Pointing(p, i, j) : e = p[i + 1][k].blk
    BY <1>6, <2>2
  <2> QED BY <1>8, <2>3 DEF K, R, heir, b
<1> QED BY <1>7, <1>8

SupportOf(p, i, j) == Tree!Support(Held(p), HeirOf(p), p[i][j].blk)

(* An entry's support is its block's signers and what the entries that     *)
(* point at it have.                                                       *)
LEMMA SupportOfEntry ==
    ASSUME NEW p, NEW c, SoundPool(p, c), NEW i \in DOMAIN p, NEW j \in DOMAIN p[i]
    PROVE  /\ SupportOf(p, i, j) \in Nat
           /\ i = Len(p) => SupportOf(p, i, j) = p[i][j].blk.signers
           /\ i # Len(p) =>
                /\ i + 1 \in DOMAIN p
                /\ IsFiniteSet(Pointing(p, i, j))
                /\ SupportOf(p, i, j) = p[i][j].blk.signers +
                      SumFunctionOnSet([k \in Pointing(p, i, j) |-> SupportOf(p, i + 1, k)],
                                       Pointing(p, i, j))
<1> DEFINE R == Held(p)
           heir == HeirOf(p)
           b == p[i][j].blk
           g == Signers(R)
           Beh(x) == Behind(R, heir, x)
           Sum(x) == SumFunctionOnSet(g, Beh(x))
           n == b.signers
<1>1. /\ p \in Pools /\ c.height \in Nat
      /\ Len(p) \in Nat /\ DOMAIN p = 1..Len(p)
      /\ \A m \in DOMAIN p : p[m] \in Bin /\ DOMAIN p[m] = 1..Len(p[m])
      /\ \A m \in DOMAIN p : \A k \in DOMAIN p[m] :
            /\ p[m][k].blk \in Blocks
            /\ p[m][k].blk.height = c.height + m
            /\ p[m][k].blk \in R
      /\ \A m, k \in DOMAIN p : \A q \in DOMAIN p[m] : \A l \in DOMAIN p[k] :
            p[m][q].blk = p[k][l].blk => m = k /\ q = l
  BY PlaceInPool
<1>2. R \subseteq Blocks /\ IsFiniteSet(R)
  BY <1>1, HeldIs, HeldFinite
<1>3. \A d \in R : d.signers \in Nat /\ d.height \in Nat
  BY <1>2, BlocksAssumption
<1> DEFINE H == c.height + Len(p) + 1
<1>4. Below(R, H)
  <2>1. ASSUME NEW d \in R
        PROVE  d.height < H
    <3>1. PICK m \in DOMAIN p : \E k \in DOMAIN p[m] : d = p[m][k].blk
      BY <1>1, HeldIs
    <3>2. d.height = c.height + m
      BY <1>1, <3>1
    <3> QED BY <1>1, <3>2
  <2>2. H \in Nat
    BY <1>1
  <2> HIDE DEF H, R
  <2> QED BY <1>3, <2>1, <2>2 DEF Below
<1>5. \A x : Tree!Support(R, heir, x) = Sum(x) /\ Summable(g, Beh(x))
  BY <1>2, <1>3, SupportIsSum
<1>6. b \in R /\ n \in Nat /\ g[b] = n
  BY <1>1, <1>3 DEF Signers
<1>7. /\ \A d : d \in Beh(b) <=> d = b \/ \E e \in Kids(R, heir, b) : d \in Beh(e)
      /\ \A e \in Kids(R, heir, b) : b \notin Beh(e)
      /\ \A e, f \in Kids(R, heir, b) : e # f => Beh(e) \cap Beh(f) = {}
  <2> HIDE DEF b, R, heir, H
  <2> QED BY <1>4, <1>6, BehindIs
<1>8. \A x : Sum(x) \in Nat
  <2> SUFFICES ASSUME NEW x
               PROVE  SumFunctionOnSet(g, Beh(x)) \in Nat
    OBVIOUS
  <2>1. Beh(x) \subseteq R
    BY DEF Behind
  <2>2. IsFiniteSet(Beh(x)) /\ \A d \in Beh(x) : g[d] \in Nat
    BY <1>2, <1>3, <2>1, FS_Subset DEF Signers
  <2> QED BY <2>2, SumNat
<1>9. /\ \A x : SumFunctionOnSet(g, Beh(x)) = Sum(x)
      /\ \A m, k : SupportOf(p, m, k) = Sum(p[m][k].blk)
  BY <1>5 DEF SupportOf
<1>10. \A e : e \in Kids(R, heir, b) <=>
          i # Len(p) /\ \E k \in Pointing(p, i, j) : e = p[i + 1][k].blk
  <2>1. \A e : e \in Kids(Held(p), HeirOf(p), p[i][j].blk) <=>
                  PointingBlock(p, i, j, e)
    BY KidsOfEntry
  <2> QED BY ONLY <2>1 DEF PointingBlock
<1> HIDE DEF Sum, Beh, R, heir, g, H
<1>11. SupportOf(p, i, j) = Sum(b) /\ Sum(b) \in Nat
  BY <1>8, <1>9
<1>12. ASSUME i = Len(p)
       PROVE  SupportOf(p, i, j) = n
  <2>1. Beh(b) = {b}
    BY <1>7, <1>10, <1>12
  <2>2. Summable(g, {}) /\ b \notin {} /\ g[b] \in Int
    BY <1>6, FS_EmptySet DEF Summable
  <2>3. SumFunctionOnSet(g, {} \cup {b}) = g[b] + SumFunctionOnSet(g, {})
    BY <2>2, SumAdd
  <2>4. SumFunctionOnSet(g, {}) = 0 /\ {} \cup {b} = {b}
    BY <2>2, SumStep
  <2> HIDE DEF n
  <2>5. SumFunctionOnSet(g, {b}) = n
    BY <1>6, <2>3, <2>4
  <2> QED BY <1>9, <1>11, <2>1, <2>5
<1>13. ASSUME i # Len(p)
       PROVE  /\ i + 1 \in DOMAIN p
              /\ IsFiniteSet(Pointing(p, i, j))
              /\ SupportOf(p, i, j) = n +
                    SumFunctionOnSet([k \in Pointing(p, i, j) |-> SupportOf(p, i + 1, k)],
                                     Pointing(p, i, j))
  <2> DEFINE K == Pointing(p, i, j)
             kid == [k \in K |-> p[i + 1][k].blk]
             A == [k \in K |-> Beh(kid[k])]
             G == [k \in K |-> SupportOf(p, i + 1, k)]
             U == {d \in Beh(b) : \E k \in K : d \in A[k]}
             Q == SumFunctionOnSet(G, K)
  <2>1. i + 1 \in DOMAIN p
    BY <1>1, <1>13
  <2>2. IsFiniteSet(K)
    <3>1. DOMAIN p[i + 1] = 1..Len(p[i + 1]) /\ Len(p[i + 1]) \in Nat
      BY <1>1, <2>1, BinsOfPool
    <3>2. IsFiniteSet(1..Len(p[i + 1]))
      BY <3>1, FS_Interval
    <3> QED BY <3>1, <3>2, FS_Subset DEF Pointing
  <2>3. \A e : e \in Kids(R, heir, b) <=> \E k \in K : e = kid[k]
    BY <1>10, <1>13
  <2>4. \A k, l \in K : k # l => kid[k] # kid[l]
    BY <1>1, <2>1 DEF Pointing
  <2>5. \A k \in K : Summable(g, A[k])
    BY <1>5
  <2>6. \A k, l \in K : k # l => A[k] \cap A[l] = {}
    BY <1>7, <2>3, <2>4
  <2>7. /\ Beh(b) = {b} \cup U /\ b \notin U
        /\ \A d : d \in U <=> \E k \in K : d \in A[k]
    <3> HIDE DEF kid
    <3> QED BY <1>7, <2>3
  <2>8. \A k \in K : G[k] = SumFunctionOnSet(g, A[k])
    BY <1>9
  <2> HIDE DEF A, kid, G, U, K
  <2>9. SplitSum(g, U, K, A, G)
    BY <2>2, <2>5, <2>6, <2>7, <2>8 DEF SplitSum
  <2>10. Summable(g, U) /\ SumFunctionOnSet(g, U) = SumFunctionOnSet(G, K)
    BY <2>9, SumUnion
  <2>11. SumFunctionOnSet(g, U \cup {b}) = g[b] + SumFunctionOnSet(g, U)
    BY <1>6, <2>7, <2>10, SumAdd
  <2>12. Sum(b) = g[b] + Q
    <3>1. U \cup {b} = Beh(b)
      BY <2>7
    <3> QED BY <1>9, <2>10, <2>11, <3>1 DEF Q
  <2> HIDE DEF Q, n
  <2>13. SupportOf(p, i, j) = n + Q
    BY <1>6, <1>11, <2>12
  <2> QED BY <2>1, <2>2, <2>13 DEF Q, G, K
<1> QED BY <1>11, <1>12, <1>13

(* What updateTotalNumSSig computes, bin by bin.                           *)
NextTotal(p, t, i, j) ==
    p[i][j].blk.signers +
        IF i = Len(p) THEN 0 ELSE SumFunctionOnSet(t[i + 1], Pointing(p, i, j))

AddsUp(p, t) == t = [i \in 1..Len(p) |-> [j \in DOMAIN p[i] |-> NextTotal(p, t, i, j)]]

LEMMA NextTotalIs ==
    ASSUME NEW p, NEW c, SoundPool(p, c), NEW i \in DOMAIN p, NEW j \in DOMAIN p[i], NEW t,
           i # Len(p) => \A k \in DOMAIN p[i + 1] : t[i + 1][k] = SupportOf(p, i + 1, k)
    PROVE  NextTotal(p, t, i, j) = SupportOf(p, i, j)
<1> DEFINE n == p[i][j].blk.signers
           K == Pointing(p, i, j)
           f == [k \in K |-> SupportOf(p, i + 1, k)]
           u == t[i + 1]
<1>1. n \in Nat
  BY PlaceInPool, BlocksAssumption
<1>2. CASE i = Len(p)
  <2>1. SupportOf(p, i, j) = n
    <3>1. i = Len(p) => SupportOf(p, i, j) = p[i][j].blk.signers
      BY SupportOfEntry
    <3> QED BY ONLY <1>2, <3>1
  <2> HIDE DEF n
  <2>2. n + 0 = n
    BY <1>1
  <2> QED BY <1>2, <2>1, <2>2 DEF NextTotal, n
<1>3. CASE i # Len(p)
  <2>1. i + 1 \in DOMAIN p /\ IsFiniteSet(K)
        /\ SupportOf(p, i, j) = n + SumFunctionOnSet(f, K)
    <3>1. i # Len(p) =>
             /\ i + 1 \in DOMAIN p
             /\ IsFiniteSet(Pointing(p, i, j))
             /\ SupportOf(p, i, j) = p[i][j].blk.signers +
                   SumFunctionOnSet([k \in Pointing(p, i, j) |-> SupportOf(p, i + 1, k)],
                                    Pointing(p, i, j))
      BY SupportOfEntry
    <3> QED BY ONLY <1>3, <3>1
  <2>2. \A k \in K : f[k] \in Nat /\ f[k] = u[k]
    BY <1>3, <2>1, SupportOfEntry DEF Pointing
  <2> HIDE DEF f, K, u
  <2>3. Summable(f, K)
    BY <2>1, <2>2 DEF Summable
  <2>4. SumFunctionOnSet(f, K) = SumFunctionOnSet(u, K)
    BY <2>2, <2>3, SumSame
  <2> QED BY <1>3, <2>1, <2>4 DEF NextTotal, n, K, u
<1> QED BY <1>2, <1>3

(* The totals are the signatures behind each block.                        *)
LEMMA TotalsAreSupports ==
    ASSUME NEW p, NEW c, SoundPool(p, c), NEW i \in DOMAIN p, NEW j \in DOMAIN p[i]
    PROVE  TotalSSig(p)[i][j] = SupportOf(p, i, j)
<1> DEFINE total == TotalSSig(p)
           W == [m \in 1..Len(p) |-> [k \in DOMAIN p[m] |-> SupportOf(p, m, k)]]
<1>1. Len(p) \in Nat /\ DOMAIN p = 1..Len(p)
  BY PlaceInPool
<1>2. total = CHOOSE t : AddsUp(p, t)
  BY DEF TotalSSig, AddsUp, NextTotal, Pointing
<1>3. AddsUp(p, W)
  <2>1. \A m \in DOMAIN p : \A k \in DOMAIN p[m] : W[m][k] = SupportOf(p, m, k)
    BY <1>1
  <2> DEFINE w == W
  <2>2. \A m \in DOMAIN p : m # Len(p) => m + 1 \in DOMAIN p
    BY <1>1
  <2> HIDE DEF w
  <2>3. ASSUME NEW m \in 1..Len(p), NEW k \in DOMAIN p[m]
        PROVE  NextTotal(p, w, m, k) = SupportOf(p, m, k)
    <3>1. m \in DOMAIN p
      BY <1>1
    <3>2. m # Len(p) => \A l \in DOMAIN p[m + 1] : w[m + 1][l] = SupportOf(p, m + 1, l)
      BY <2>1, <2>2, <3>1 DEF w
    <3> HIDE DEF W
    <3> QED BY <3>1, <3>2, NextTotalIs
  <2>4. w = [m \in 1..Len(p) |-> [k \in DOMAIN p[m] |-> NextTotal(p, w, m, k)]]
    BY <2>3 DEF w
  <2>5. AddsUp(p, w)
    BY <2>4 DEF AddsUp
  <2> QED BY <2>5 DEF w
<1>4. AddsUp(p, total)
  <2> HIDE DEF W, total
  <2> QED BY <1>2, <1>3
<1> HIDE DEF total, W
<1>5. \A m \in DOMAIN p : \A k \in DOMAIN p[m] : total[m][k] = NextTotal(p, total, m, k)
  BY <1>1, <1>4 DEF AddsUp
<1> DEFINE T == {n \in Nat : \A m \in DOMAIN p : Len(p) - m = n =>
                    \A k \in DOMAIN p[m] : total[m][k] = SupportOf(p, m, k)}
<1>6. 0 \in T
  <2> SUFFICES ASSUME NEW m \in DOMAIN p, Len(p) - m = 0, NEW k \in DOMAIN p[m]
               PROVE  total[m][k] = SupportOf(p, m, k)
    OBVIOUS
  <2>1. m = Len(p)
    BY <1>1
  <2>2. NextTotal(p, total, m, k) = SupportOf(p, m, k)
    BY <2>1, NextTotalIs
  <2> QED BY <1>5, <2>2
<1>7. ASSUME NEW n \in T
      PROVE  n + 1 \in T
  <2> SUFFICES ASSUME NEW m \in DOMAIN p, Len(p) - m = n + 1, NEW k \in DOMAIN p[m]
               PROVE  total[m][k] = SupportOf(p, m, k)
    OBVIOUS
  <2>1. n \in Nat /\ m + 1 \in DOMAIN p /\ Len(p) - (m + 1) = n
    BY <1>1
  <2>2. \A l \in DOMAIN p[m + 1] : total[m + 1][l] = SupportOf(p, m + 1, l)
    BY <2>1
  <2>3. NextTotal(p, total, m, k) = SupportOf(p, m, k)
    BY <2>2, NextTotalIs
  <2> QED BY <1>5, <2>3
<1>8. T = Nat
  <2>1. T \in SUBSET Nat
    OBVIOUS
  <2> HIDE DEF T
  <2> QED BY <1>6, <1>7, <2>1, InductionOnSets
<1>9. total[i][j] = SupportOf(p, i, j)
  <2>1. Len(p) - i \in T
    <3> HIDE DEF T
    <3> QED BY <1>1, <1>8
  <2> QED BY <2>1
<1> QED BY <1>9 DEF total

-----------------------------------------------------------------------------
(* Steps of the pool, seen as steps of BlockTree.                          *)

LEMMA GrownHeld ==
    ASSUME NEW p \in Pools, NEW n \in Nat
    PROVE  Held(Grown(p, n)) = Held(p)
<1> DEFINE q == Grown(p, n)
<1>1. /\ q \in Pools
      /\ DOMAIN p \subseteq DOMAIN q
      /\ \A i \in DOMAIN p : q[i] = p[i]
      /\ \A i \in DOMAIN q \ DOMAIN p : q[i] = <<>>
  BY GrownPool, GrownEntries
<1> HIDE DEF q
<1>2. \A i \in DOMAIN q \ DOMAIN p : DOMAIN q[i] = {}
  BY <1>1
<1>3. \A d : d \in Held(q) <=> d \in Held(p)
  BY <1>1, <1>2, HeldIs
<1> QED BY <1>3 DEF q

LEMMA InsertedHeld ==
    ASSUME NEW p \in Pools, NEW c \in Tips, NEW b \in Blocks, BinOf(c, b) \in 1..Len(p)
    PROVE  Held(Inserted(p, c, b)) = Held(p) \cup {b}
<1> DEFINE n == BinOf(c, b)
           q == Inserted(p, c, b)
<1>1. /\ DOMAIN q = DOMAIN p /\ n \in DOMAIN p
      /\ \A i \in DOMAIN p : \A j \in DOMAIN p[i] :
            j \in DOMAIN q[i] /\ q[i][j].blk = p[i][j].blk
      /\ \A i \in DOMAIN q : \A j \in DOMAIN q[i] \ DOMAIN p[i] : q[i][j].blk = b
      /\ \E j \in DOMAIN q[n] : q[n][j].blk = b
  <2>1. Len(p[n]) + 1 \in DOMAIN q[n] /\ n \in DOMAIN p
    <3>1. n \in DOMAIN p /\ Len(p[n]) \in Nat
      BY BinsOfPool
    <3>2. DOMAIN q[n] = 1..(Len(p[n]) + 1)
      BY InsertedEntries
    <3> QED BY <3>1, <3>2
  <2> QED BY <2>1, InsertedEntries DEF SameEntry
<1>2. q \in Pools
  BY InsertedPool
<1> HIDE DEF q, n
<1>3. \A d : d \in Held(q) <=> d \in Held(p) \/ d = b
  <2>1. \A d : d \in Held(q) <=>
            \E i \in DOMAIN q : \E j \in DOMAIN q[i] : d = q[i][j].blk
    BY <1>2, HeldIs
  <2>2. \A d : d \in Held(p) <=>
            \E i \in DOMAIN p : \E j \in DOMAIN p[i] : d = p[i][j].blk
    BY HeldIs
  <2>3. ASSUME NEW d \in Held(q)
        PROVE  d \in Held(p) \/ d = b
    <3>1. PICK i \in DOMAIN q : \E j \in DOMAIN q[i] : d = q[i][j].blk
      BY <2>1
    <3>2. PICK j \in DOMAIN q[i] : d = q[i][j].blk
      BY <3>1
    <3>3. CASE j \in DOMAIN p[i]
      BY <1>1, <2>2, <3>2, <3>3
    <3>4. CASE j \notin DOMAIN p[i]
      BY <1>1, <3>2, <3>4
    <3> QED BY <3>3, <3>4
  <2>4. ASSUME NEW d \in Held(p)
        PROVE  d \in Held(q)
    BY <1>1, <2>1, <2>2
  <2>5. b \in Held(q)
    BY <1>1, <2>1
  <2> QED BY <2>3, <2>4, <2>5
<1> QED BY <1>3 DEF q

LEMMA PoppedHeld ==
    ASSUME NEW p, NEW c, SoundPool(p, c), Len(p) >= 2, NEW w \in 1..Len(p[1])
    PROVE  Held(Popped(p, w)) = {d \in Held(p) : d.height > c.height + 1}
<1> DEFINE q == Popped(p, w)
<1>1. /\ p \in Pools /\ c.height \in Nat
      /\ Len(p) \in Nat /\ DOMAIN p = 1..Len(p)
      /\ \A i \in DOMAIN p : \A j \in DOMAIN p[i] : p[i][j].blk.height = c.height + i
  BY PlaceInPool
<1>2. /\ q \in Pools /\ DOMAIN q = 1..(Len(p) - 1)
      /\ \A i \in DOMAIN q :
            /\ i + 1 \in DOMAIN p
            /\ DOMAIN q[i] = DOMAIN p[i + 1]
            /\ \A j \in DOMAIN q[i] : p[i + 1][j].blk = q[i][j].blk
  BY <1>1, PoppedPool, PoppedEntries DEF SameEntry
<1> HIDE DEF q
<1>3. \A d : d \in Held(q) <=>
          \E i \in DOMAIN q : \E j \in DOMAIN q[i] : d = q[i][j].blk
  BY <1>2, HeldIs
<1>4. \A d : d \in Held(p) <=>
          \E i \in DOMAIN p : \E j \in DOMAIN p[i] : d = p[i][j].blk
  BY <1>1, HeldIs
<1>5. ASSUME NEW d \in Held(q)
      PROVE  d \in Held(p) /\ d.height > c.height + 1
  <2>1. PICK i \in DOMAIN q : \E j \in DOMAIN q[i] : d = q[i][j].blk
    BY <1>3
  <2>2. PICK j \in DOMAIN q[i] : d = q[i][j].blk
    BY <2>1
  <2>3. i + 1 \in DOMAIN p /\ j \in DOMAIN p[i + 1] /\ d = p[i + 1][j].blk
    BY <1>2, <2>2
  <2>4. d.height = c.height + (i + 1) /\ i \in Nat /\ i >= 1
    BY <1>1, <1>2, <2>3
  <2> QED BY <1>1, <1>4, <2>3, <2>4
<1>6. ASSUME NEW d \in Held(p), d.height > c.height + 1
      PROVE  d \in Held(q)
  <2>1. PICK i \in DOMAIN p : \E j \in DOMAIN p[i] : d = p[i][j].blk
    BY <1>4
  <2>2. PICK j \in DOMAIN p[i] : d = p[i][j].blk
    BY <2>1
  <2>3. d.height = c.height + i /\ i \in Nat
    BY <1>1, <2>2
  <2>4. i - 1 \in DOMAIN q /\ (i - 1) + 1 = i
    BY <1>1, <1>2, <1>6, <2>3
  <2>5. j \in DOMAIN q[i - 1] /\ q[i - 1][j].blk = d
    BY <1>2, <2>2, <2>4
  <2> QED BY <1>3, <2>4, <2>5
<1>7. Held(q) = {d \in Held(p) : d.height > c.height + 1}
  BY <1>5, <1>6
<1> QED BY <1>7 DEF q

LEMMA ProcessedHeld ==
    ASSUME NEW p \in Pools, NEW m \in DOMAIN p, NEW k \in DOMAIN p[m],
           [p EXCEPT ![m][k].processed = TRUE] \in Pools
    PROVE  Held([p EXCEPT ![m][k].processed = TRUE]) = Held(p)
<1> DEFINE q == [p EXCEPT ![m][k].processed = TRUE]
<1>1. /\ q \in Pools /\ DOMAIN q = DOMAIN p
      /\ \A i \in DOMAIN p : /\ DOMAIN q[i] = DOMAIN p[i]
                             /\ \A j \in DOMAIN p[i] : q[i][j].blk = p[i][j].blk
  BY ProcessedEntries
<1> HIDE DEF q
<1>2. \A d : d \in Held(q) <=> d \in Held(p)
  BY <1>1, HeldIs
<1> QED BY <1>2 DEF q

LEMMA PushedSoundPool ==
    ASSUME IInv, NoDup(pool), NEW b \in Blocks, Accepted(b)
    PROVE  /\ SoundPool(pool, confirmed) /\ SoundPool(WithBlock(b), confirmed)
           /\ Held(WithBlock(b)) = Held(pool) \cup {b}
           /\ b.height > confirmed.height
           /\ b.height = confirmed.height + 1 => b.prev = confirmed.id
           /\ \A d \in Held(pool) : d.height = b.height => d.hash # b.hash
<1> DEFINE n == BinOf(confirmed, b)
           g == Grown(pool, n)
<1>1. /\ pool \in Pools /\ confirmed \in Tips /\ n \in Nat \ {0}
      /\ g \in Pools /\ n \in 1..Len(g)
  BY AcceptedPools
<1>2. PoolOK(pool, confirmed) /\ PoolOK(WithBlock(b), confirmed)
  BY AcceptedBin DEF IInv, Accepted
<1>3. NoDup(WithBlock(b))
  BY <1>1, InsertedNoDup DEF WithBlock, Accepted
<1>4. Held(WithBlock(b)) = Held(pool) \cup {b}
  <2>1. Held(g) = Held(pool)
    BY <1>1, GrownHeld
  <2>2. Held(Inserted(g, confirmed, b)) = Held(g) \cup {b}
    BY <1>1, InsertedHeld
  <2> QED BY <2>1, <2>2 DEF WithBlock
<1>5. b.height \in Nat /\ confirmed.height \in Nat /\ b.height > confirmed.height
  BY <1>1, BlockFields DEF Accepted, Admitted, Tips
<1>6. b.height = confirmed.height + 1 => b.prev = confirmed.id
  BY <1>5 DEF Accepted, Linkable, BinOf
<1>7. ASSUME NEW d \in Held(pool), d.height = b.height
      PROVE  d.hash # b.hash
  <2>1. PICK i \in DOMAIN pool : \E j \in DOMAIN pool[i] : d = pool[i][j].blk
    BY <1>1, HeldIs
  <2>2. PICK j \in DOMAIN pool[i] : d = pool[i][j].blk
    BY <2>1
  <2>3. d.height = confirmed.height + i /\ i \in Nat
    BY <1>1, <1>2, <2>2, BinsOfPool DEF PoolOK, ByHeight
  <2>4. i = n
    BY <1>5, <1>7, <2>3 DEF BinOf
  <2>5. ~SameBlock(pool[n][j].blk, b)
    BY <2>2, <2>4 DEF Accepted, Duplicate
  <2> QED BY <1>7, <2>2, <2>4, <2>5 DEF SameBlock
<1> QED BY <1>2, <1>3, <1>4, <1>5, <1>6, <1>7 DEF SoundPool

(* The block resolveBlock confirms is the one BlockTree lets be confirmed. *)
LEMMA HeaviestIsChosen ==
    ASSUME NEW p, NEW c, SoundPool(p, c), NEW b \in Blocks, NEW w \in DOMAIN p[1],
           Resolves(p, c, b, w)
    PROVE  LET R == Held(p)
               heir == HeirOf(p)
               d == p[1][w].blk
           IN  /\ d \in R /\ d.height = c.height + 1 /\ d.prev = c.id
               /\ Tree!Children(R, heir, d) # {}
               /\ Tree!Support(R, heir, d) > 0
               /\ Tree!Support(R, heir, d) >= MinSignatures
               /\ \A e \in R : e.height = c.height + 1 /\ e.prev = c.id =>
                     Tree!Support(R, heir, e) <= Tree!Support(R, heir, d)
<1> DEFINE R == Held(p)
           heir == HeirOf(p)
           d == p[1][w].blk
           total == TotalSSig(p)
           Sup(e) == Tree!Support(R, heir, e)
<1>1. /\ p \in Pools /\ c.height \in Nat
      /\ Len(p) \in Nat /\ DOMAIN p = 1..Len(p)
      /\ \A i \in DOMAIN p : p[i] \in Bin /\ DOMAIN p[i] = 1..Len(p[i])
      /\ \A i \in DOMAIN p : \A j \in DOMAIN p[i] :
            /\ p[i][j].blk \in Blocks
            /\ p[i][j].blk.height = c.height + i
            /\ p[i][j].blk \in R
  BY PlaceInPool
<1>2. /\ Len(p) >= 2
      /\ p[1][w].prev = 1
      /\ total[1][w] > 0
      /\ \A k \in DOMAIN p[1] :
            p[1][k].prev = 1 =>
                total[1][k] < total[1][w] \/ (total[1][k] = total[1][w] /\ w <= k)
      /\ total[1][w] >= MinSignatures
      /\ \E k \in DOMAIN p[2] : p[2][k].prev = w
  BY DEF Resolves, Heaviest
<1>3. 1 \in DOMAIN p /\ 2 \in DOMAIN p
  BY <1>1, <1>2
<1>4. \A k \in DOMAIN p[1] : p[1][k].prev = 1 <=> p[1][k].blk.prev = c.id
  BY <1>3 DEF SoundPool, PoolOK, WellLinked
<1>5. \A k \in DOMAIN p[1] : total[1][k] = Sup(p[1][k].blk) /\ Sup(p[1][k].blk) \in Nat
  <2> SUFFICES ASSUME NEW k \in DOMAIN p[1]
               PROVE  total[1][k] = Sup(p[1][k].blk) /\ Sup(p[1][k].blk) \in Nat
    OBVIOUS
  <2>1. total[1][k] = SupportOf(p, 1, k) /\ SupportOf(p, 1, k) \in Nat
    BY <1>3, TotalsAreSupports, SupportOfEntry
  <2> QED BY <2>1 DEF SupportOf
<1>6. d \in R /\ d.height = c.height + 1 /\ d.prev = c.id
  BY <1>1, <1>2, <1>3, <1>4
<1>7. Tree!Children(R, heir, d) # {}
  <2>1. PICK k \in DOMAIN p[2] : p[2][k].prev = w
    BY <1>2
  <2> DEFINE e == p[2][k].blk
  <2>2. d \in Parents(R, heir, e)
    <3>1. 1 + 1 = 2
      OBVIOUS
    <3>2. d \in Parents(R, heir, p[1 + 1][k].blk) <=> p[1 + 1][k].prev = w
      BY <1>3, PrevIsParent
    <3> QED BY <2>1, <3>1, <3>2
  <2>3. e \in R
    BY <1>1, <1>3
  <2>4. e \in Tree!Children(R, heir, d)
    BY <2>2, <2>3 DEF Parents, Tree!Children
  <2> QED BY <2>4
<1>8. ASSUME NEW e \in R, e.height = c.height + 1, e.prev = c.id
      PROVE  Sup(e) <= Sup(d)
  <2>1. PICK i \in DOMAIN p : \E j \in DOMAIN p[i] : e = p[i][j].blk
    BY <1>1, HeldIs
  <2>2. PICK j \in DOMAIN p[i] : e = p[i][j].blk
    BY <2>1
  <2>3. i = 1
    <3>1. c.height + i = c.height + 1 /\ i \in Nat
      BY <1>1, <1>8, <2>2
    <3> QED BY <1>1, <3>1
  <2>4. p[1][j].prev = 1 /\ j \in DOMAIN p[1] /\ e = p[1][j].blk
    BY <1>4, <1>8, <2>2, <2>3
  <2>5. total[1][j] <= total[1][w]
    <3>1. total[1][j] \in Nat /\ total[1][w] \in Nat
      BY <1>5, <2>4
    <3> QED BY <1>2, <2>4, <3>1
  <2> QED BY <1>5, <2>4, <2>5
<1>9. Sup(d) = total[1][w]
  BY <1>5
<1> HIDE DEF total
<1> QED BY <1>2, <1>6, <1>7, <1>8, <1>9

(* The pool implements BlockTree: it keeps exactly the acceptable blocks,  *)
(* and what it confirms with its bins, indices and running totals is the   *)
(* child of the confirmed block with the most signatures behind it,        *)
(* counted along parent ids.                                               *)
THEOREM AlwaysConfirmsHeaviest == Spec => ConfirmsHeaviestBranch
<1>1. Init => Tree!TreeInit
  BY DEF Init, Tree!TreeInit
<1>2. IInv /\ NoDuplicates /\ [Next]_vars => [Tree!TreeNext]_(Tree!treeVars)
  <2> SUFFICES ASSUME IInv, NoDup(pool), [Next]_vars
               PROVE  \/ Tree!TreeNext
                      \/ Held(pool') = Held(pool) /\ UNCHANGED confirmed
    BY DEF NoDuplicates, NoDup, Held, Tree!treeVars
  <2>1. pool \in Pools /\ confirmed \in Tips /\ PoolOK(pool, confirmed)
    BY DEF IInv, PoolOK
  <2>2. ASSUME NEW b \in Blocks, Drop(b)
        PROVE  Held(pool') = Held(pool) /\ UNCHANGED confirmed
    <3>1. BinOf(confirmed, b) \in Nat
      BY <2>2, AcceptedBin DEF Drop
    <3> QED BY <2>1, <2>2, <3>1, GrownHeld DEF Drop
  <2>3. ASSUME NEW b \in Blocks, Push(b)
        PROVE  Tree!TreeNext
    <3>1. Accepted(b) /\ pool' = WithBlock(b) /\ UNCHANGED confirmed
      BY <2>3 DEF Push
    <3>2. /\ Held(pool') = Held(pool) \cup {b}
          /\ b.height > confirmed.height
          /\ b.height = confirmed.height + 1 => b.prev = confirmed.id
          /\ \A d \in Held(pool) : d.height = b.height => d.hash # b.hash
      BY <3>1, PushedSoundPool
    <3>3. Tree!Accept(b)
      BY <3>1, <3>2 DEF Held, Tree!Accept, Tree!Acceptable
    <3> QED BY <3>3 DEF Tree!TreeNext
  <2>4. ASSUME NEW b \in Blocks, PushAndResolve(b)
        PROVE  Tree!TreeNext
    <3> DEFINE p == WithBlock(b)
    <3>1. Accepted(b)
      BY <2>4 DEF PushAndResolve
    <3>2. PICK w \in DOMAIN p[1] :
             /\ Resolves(p, confirmed, b, w)
             /\ pool' = Popped(p, w)
             /\ confirmed' = ConfirmedBy(p, confirmed, w)
      BY <2>4 DEF PushAndResolve
    <3>3. /\ SoundPool(p, confirmed)
          /\ Held(p) = Held(pool) \cup {b}
          /\ b.height > confirmed.height
          /\ b.height = confirmed.height + 1 => b.prev = confirmed.id
          /\ \A d \in Held(pool) : d.height = b.height => d.hash # b.hash
      BY <3>1, PushedSoundPool
    <3> DEFINE d == p[1][w].blk
               R == Held(p)
               heir == HeirOf(p)
    <3>4. /\ d \in R /\ d.height = confirmed.height + 1 /\ d.prev = confirmed.id
          /\ Tree!Children(R, heir, d) # {}
          /\ Tree!Support(R, heir, d) > 0
          /\ Tree!Support(R, heir, d) >= MinSignatures
          /\ \A e \in R : e.height = confirmed.height + 1 /\ e.prev = confirmed.id =>
                Tree!Support(R, heir, e) <= Tree!Support(R, heir, d)
      BY <3>2, <3>3, HeaviestIsChosen
    <3>5. heir \in Tree!Heirs(R)
      BY <3>3, HeirIsFirst
    <3>6. Held(pool') = {e \in R : e.height > d.height}
      <4>1. Len(p) >= 2 /\ w \in 1..Len(p[1])
        BY <3>1, <3>2, ResolvesPops
      <4>2. Held(Popped(p, w)) = {e \in R : e.height > confirmed.height + 1}
        BY <3>3, <4>1, PoppedHeld
      <4> HIDE DEF R, d, p
      <4> QED BY <3>2, <3>4, <4>2
    <3>7. confirmed' = [id |-> d.id, height |-> d.height, prev |-> confirmed.id]
      BY <3>2 DEF ConfirmedBy
    <3>8. d \in Blocks
      BY <3>1, <3>2, ResolvedPool
    <3>9. b.height > confirmed.height + ConfirmLevel
      <4>1. b.height - confirmed.height > ConfirmLevel
        BY <3>2 DEF Resolves
      <4>2. b.height \in Nat /\ confirmed.height \in Nat /\ ConfirmLevel \in Nat
        BY <2>1, BlockFields, LevelsAssumption DEF Tips
      <4> QED BY <4>1, <4>2
    <3> HIDE DEF d, heir, R, p
    <3>10. R = Held(pool) \cup {b}
      BY <3>3 DEF R
    <3>11. /\ d \in Tree!Candidates(R)
           /\ \A e \in Tree!Candidates(R) :
                 Tree!Support(R, heir, e) <= Tree!Support(R, heir, d)
      BY <3>4 DEF Tree!Candidates
    <3>12. Tree!Acceptable(b)
      BY <3>3 DEF Held, Tree!Acceptable
    <3>13. PICK v \in Blocks : v = d
      BY <3>8
    <3>14. Tree!AcceptAndConfirm(b, v)
      <4> DEFINE Q == Held(pool) \cup {b}
      <4>1. /\ v \in Tree!Candidates(Q)
            /\ Held(pool') = {e \in Q : e.height > v.height}
            /\ heir \in Tree!Heirs(Q)
            /\ Tree!Children(Q, heir, v) # {}
            /\ Tree!Support(Q, heir, v) > 0
            /\ Tree!Support(Q, heir, v) >= MinSignatures
            /\ \A e \in Tree!Candidates(Q) :
                  Tree!Support(Q, heir, e) <= Tree!Support(Q, heir, v)
            /\ confirmed' = [id |-> v.id, height |-> v.height, prev |-> confirmed.id]
        BY <3>4, <3>5, <3>6, <3>7, <3>10, <3>11, <3>13
      <4> QED BY <3>9, <3>12, <4>1 DEF Tree!AcceptAndConfirm, Held
    <3> QED BY <3>14 DEF Tree!TreeNext
  <2>5. ASSUME NEW i \in DOMAIN pool, NEW j \in DOMAIN pool[i], SetUnresolvedBlock(i, j)
        PROVE  Held(pool') = Held(pool) /\ UNCHANGED confirmed
    <3>1. PoolOK([pool EXCEPT ![i][j].processed = TRUE], confirmed)
      BY <2>1, ProcessedPoolOK
    <3>2. [pool EXCEPT ![i][j].processed = TRUE] \in Pools
      BY <3>1 DEF PoolOK
    <3> QED BY <2>1, <2>5, <3>2, ProcessedHeld DEF SetUnresolvedBlock
  <2>6. CASE UNCHANGED <<pool, confirmed>>
    BY <2>6
  <2> QED BY <2>2, <2>3, <2>4, <2>5, <2>6 DEF Next, Reject, Tick, vars
<1> QED
  BY <1>1, <1>2, Invariant, NeverADuplicate, PTL
     DEF Spec, ConfirmsHeaviestBranch, Tree!TreeSpec

=============================================================================
