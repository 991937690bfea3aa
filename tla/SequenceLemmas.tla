--------------------------- MODULE SequenceLemmas ---------------------------
(***************************************************************************)
(* Facts about sequences, least elements, functions that are built step by *)
(* step and sums over finite sets, for the proofs about several components.*)
(* None is about this code.                                                *)
(***************************************************************************)
EXTENDS Integers, Sequences, SequencesExt, SequenceTheorems,
        FiniteSetTheorems, WellFoundedInduction, TLAPS

-----------------------------------------------------------------------------
(* A function on 1..n is a sequence of length n.                           *)
LEMMA FunctionIsSeq ==
    ASSUME NEW S, NEW n \in Nat, NEW f \in [1..n -> S]
    PROVE  f \in Seq(S) /\ Len(f) = n /\ DOMAIN f = 1..n
  OBVIOUS

(* A sequence is a function on 1..Len with values in its base set.         *)
LEMMA SeqIsFunction ==
    ASSUME NEW S, NEW s \in Seq(S)
    PROVE  /\ Len(s) \in Nat
           /\ DOMAIN s = 1..Len(s)
           /\ s \in [1..Len(s) -> S]
           /\ \A i \in 1..Len(s) : s[i] \in S
  OBVIOUS

(* A sequence with one more element.                                       *)
LEMMA Appended ==
    ASSUME NEW s, s \in Seq(Range(s)), NEW x
    PROVE  /\ Append(s, x) \in Seq(Range(Append(s, x)))
           /\ Len(Append(s, x)) = Len(s) + 1 /\ Len(s) \in Nat
           /\ DOMAIN Append(s, x) = DOMAIN s \cup {Len(s) + 1}
           /\ DOMAIN s = 1..Len(s)
           /\ \A k \in DOMAIN s : Append(s, x)[k] = s[k]
           /\ Append(s, x)[Len(s) + 1] = x
<1> DEFINE S == Range(s) \cup {x}
           t == Append(s, x)
<1>1. s \in Seq(S)
  <2>1. \A k \in 1..Len(s) : s[k] \in S
    OBVIOUS
  <2> QED
    BY <2>1
<1>2. x \in S
  OBVIOUS
<1> HIDE DEF S
<1>3. /\ t \in Seq(S) /\ Len(t) = Len(s) + 1 /\ Len(s) \in Nat
      /\ DOMAIN t = 1..(Len(s) + 1) /\ DOMAIN s = 1..Len(s)
      /\ \A k \in DOMAIN s : t[k] = s[k]
      /\ t[Len(s) + 1] = x
  BY <1>1, <1>2
<1> HIDE DEF t
<1>4. t \in Seq(Range(t))
  <2>1. t = [k \in 1..Len(t) |-> t[k]] /\ Len(t) \in Nat
    BY <1>3
  <2>2. \A k \in 1..Len(t) : t[k] \in Range(t)
    BY <1>3 DEF Range
  <2> QED
    BY <2>1, <2>2
<1>5. DOMAIN t = DOMAIN s \cup {Len(s) + 1}
  BY <1>3
<1> QED
  BY <1>3, <1>4, <1>5 DEF t

LEMMA RangeOfAppend ==
    ASSUME NEW S, NEW s \in Seq(S), NEW x \in S
    PROVE  Range(Append(s, x)) = Range(s) \cup {x}
<1> DEFINE t == Append(s, x)
           n == Len(s)
<1>1. /\ n \in Nat /\ DOMAIN s = 1..n /\ DOMAIN t = 1..(n + 1)
      /\ \A k \in 1..n : t[k] = s[k]
      /\ t[n + 1] = x
  BY AppendProperties
<1>2. 1..(n + 1) = (1..n) \cup {n + 1}
  BY <1>1
<1> HIDE DEF t, n
<1>3. Range(t) = Range(s) \cup {x}
  BY <1>1, <1>2 DEF Range
<1> QED BY <1>3 DEF t

(* A sequence without its first element.                                   *)
LEMMA TailIs ==
    ASSUME NEW S, NEW s \in Seq(S), s # <<>>
    PROVE  /\ Head(s) = s[1] /\ Head(s) \in S /\ 1 \in DOMAIN s
           /\ Tail(s) \in Seq(S)
           /\ \A k \in Nat : k \in DOMAIN Tail(s) <=> k # 0 /\ k + 1 \in DOMAIN s
           /\ \A k \in DOMAIN Tail(s) : Tail(s)[k] = s[k + 1]
BY HeadTailProperties

(* A sequence without the element at k.                                    *)
LEMMA RemovedAt ==
    ASSUME NEW S, NEW s \in Seq(S), NEW k \in DOMAIN s
    PROVE  /\ RemoveAt(s, k) \in Seq(S)
           /\ Len(RemoveAt(s, k)) = Len(s) - 1
           /\ \A j \in 1..(Len(s) - 1) :
                 RemoveAt(s, k)[j] = IF j < k THEN s[j] ELSE s[j + 1]
<1> DEFINE a == SubSeq(s, 1, k - 1)
           b == SubSeq(s, k + 1, Len(s))
<1>1. k \in 1..Len(s) /\ Len(s) \in Nat
  OBVIOUS
<1>2. /\ a \in Seq(S) /\ Len(a) = k - 1
      /\ \A i \in 1..(k - 1) : a[i] = s[i]
  <2>1. \A i \in 1..(k - 1) : s[i] \in S
    BY <1>1
  <2> QED
    BY <1>1, <2>1, SubSeqProperties
<1>3. /\ b \in Seq(S) /\ Len(b) = Len(s) - k
      /\ \A i \in 1..(Len(s) - k) : b[i] = s[k + i]
  <2>1. \A i \in (k + 1)..Len(s) : s[i] \in S
    BY <1>1
  <2>2. /\ SubSeq(s, k + 1, Len(s)) \in Seq(S)
        /\ Len(SubSeq(s, k + 1, Len(s)))
             = IF k + 1 <= Len(s) THEN Len(s) - (k + 1) + 1 ELSE 0
        /\ \A i \in 1..(Len(s) - (k + 1) + 1) :
              SubSeq(s, k + 1, Len(s))[i] = s[k + 1 + i - 1]
    <3>1. k + 1 \in Int /\ Len(s) \in Int
      BY <1>1
    <3> QED
      BY <2>1, <3>1, SubSeqProperties
  <2> QED
    BY <1>1, <2>2
<1>4. RemoveAt(s, k) = a \o b
  BY DEF RemoveAt
<1> HIDE DEF a, b
<1>5. /\ a \o b \in Seq(S) /\ Len(a \o b) = Len(a) + Len(b)
      /\ \A j \in 1..(Len(a) + Len(b)) :
            (a \o b)[j] = IF j <= Len(a) THEN a[j] ELSE b[j - Len(a)]
  BY <1>2, <1>3
<1> HIDE DEF a, b
<1>6. Len(a \o b) = Len(s) - 1
  BY <1>1, <1>2, <1>3, <1>5
<1>7. ASSUME NEW j \in 1..(Len(s) - 1)
      PROVE  (a \o b)[j] = IF j < k THEN s[j] ELSE s[j + 1]
  <2>1. (a \o b)[j] = IF j <= k - 1 THEN a[j] ELSE b[j - (k - 1)]
    <3>1. j \in 1..(Len(a) + Len(b)) /\ Len(a) = k - 1
      BY <1>1, <1>2, <1>3
    <3>2. (a \o b)[j] = IF j <= Len(a) THEN a[j] ELSE b[j - Len(a)]
      BY <1>5, <3>1
    <3> QED
      BY <3>1, <3>2
  <2>2. CASE j < k
    BY <1>1, <1>2, <2>1, <2>2
  <2>3. CASE ~(j < k)
    <3>1. j - (k - 1) \in 1..(Len(s) - k) /\ k + (j - (k - 1)) = j + 1
      BY <1>1, <2>3
    <3>2. b[j - (k - 1)] = s[k + (j - (k - 1))]
      BY <1>3, <3>1
    <3> QED
      BY <1>1, <2>1, <2>3, <3>1, <3>2
  <2> QED
    BY <2>2, <2>3
<1> QED
  BY <1>4, <1>5, <1>6, <1>7

(* What it has left of the elements.                                       *)
LEMMA RemovedRange ==
    ASSUME NEW S, NEW s \in Seq(S), NEW k \in DOMAIN s
    PROVE  /\ Range(RemoveAt(s, k)) \subseteq Range(s)
           /\ \A j \in DOMAIN s : j # k => s[j] \in Range(RemoveAt(s, k))
<1> DEFINE r == RemoveAt(s, k)
           n == Len(s)
<1>1. /\ n \in Nat \ {0} /\ DOMAIN s = 1..n /\ k \in 1..n
      /\ r \in Seq(S) /\ Len(r) = n - 1
      /\ \A j \in 1..(n - 1) : r[j] = IF j < k THEN s[j] ELSE s[j + 1]
  BY RemovedAt
<1> HIDE DEF r, n
<1>2. DOMAIN r = 1..(n - 1)
  BY <1>1
<1>3. ASSUME NEW j \in DOMAIN r
      PROVE  r[j] \in Range(s)
  <2>1. j \in 1..n /\ j + 1 \in 1..n /\ (r[j] = s[j] \/ r[j] = s[j + 1])
    BY <1>1, <1>2
  <2> QED
    BY <1>1, <2>1 DEF Range
<1>4. ASSUME NEW j \in DOMAIN s, j # k
      PROVE  s[j] \in Range(r)
  <2>1. CASE j < k
    <3>1. j \in 1..(n - 1)
      BY <1>1, <2>1
    <3> QED
      BY <1>1, <1>2, <2>1, <3>1 DEF Range
  <2>2. CASE j > k
    <3>1. j - 1 \in 1..(n - 1) /\ ~(j - 1 < k) /\ (j - 1) + 1 = j
      BY <1>1, <2>2
    <3>2. r[j - 1] = s[j]
      BY <1>1, <3>1
    <3> QED
      BY <1>2, <3>1, <3>2 DEF Range
  <2> QED
    BY <1>1, <1>4, <2>1, <2>2
<1> QED
  BY <1>3, <1>4 DEF r, Range

(* A sequence without its last element.                                    *)
LEMMA FrontAndLast ==
    ASSUME NEW S, NEW s \in Seq(S), s # <<>>
    PROVE  /\ Front(s) \in Seq(S) /\ Last(s) \in S
           /\ Range(s) = Range(Front(s)) \cup {Last(s)}
<1> DEFINE n == Len(s)
           f == Front(s)
<1>1. n \in Nat \ {0} /\ DOMAIN s = 1..n /\ \A k \in 1..n : s[k] \in S
  OBVIOUS
<1>2. f \in Seq(S) /\ Len(f) = n - 1 /\ \A k \in 1..(n - 1) : f[k] = s[k]
  <2>1. \A k \in 1..(n - 1) : s[k] \in S
    BY <1>1
  <2>2. 1 \in Int /\ n - 1 \in Int
    BY <1>1
  <2>3. /\ SubSeq(s, 1, n - 1) \in Seq(S)
        /\ Len(SubSeq(s, 1, n - 1)) = IF 1 <= n - 1 THEN (n - 1) - 1 + 1 ELSE 0
        /\ \A k \in 1..((n - 1) - 1 + 1) : SubSeq(s, 1, n - 1)[k] = s[1 + k - 1]
    BY <2>1, <2>2, SubSeqProperties
  <2> QED
    BY <1>1, <2>3 DEF Front
<1>3. Last(s) = s[n]
  BY DEF Last
<1> HIDE DEF n, f
<1>4. DOMAIN f = 1..(n - 1)
  BY <1>1, <1>2
<1>5. 1..n = (1..(n - 1)) \cup {n} /\ n \in 1..n
  BY <1>1
<1> QED
  BY <1>1, <1>2, <1>3, <1>4, <1>5 DEF Range, f

(* Two elements in place of the one at i.                                  *)
TwoAt(s, i, x, y) == SubSeq(s, 1, i - 1) \o <<x, y>> \o SubSeq(s, i + 1, Len(s))

IsTwoAt(S, s, i, x, y, u) ==
    /\ u \in Seq(S) /\ Len(u) = Len(s) + 1
    /\ \A k \in 1..(Len(s) + 1) :
          u[k] = IF k < i THEN s[k] ELSE IF k = i THEN x
                 ELSE IF k = i + 1 THEN y ELSE s[k - 1]

LEMMA TwoForOne ==
    ASSUME NEW S, NEW s \in Seq(S), NEW i \in DOMAIN s, NEW x \in S, NEW y \in S,
           NEW u, u = TwoAt(s, i, x, y)
    PROVE  IsTwoAt(S, s, i, x, y, u)
<1> DEFINE N == Len(s)
           a == SubSeq(s, 1, i - 1)
           b == SubSeq(s, i + 1, N)
           c == <<x, y>>
           d == a \o c
<1>1. N \in Nat /\ i \in 1..N /\ \A k \in 1..N : s[k] \in S
  OBVIOUS
<1>2. a \in Seq(S) /\ Len(a) = i - 1 /\ \A k \in 1..(i - 1) : a[k] = s[k]
  <2>1. \A k \in 1..(i - 1) : s[k] \in S
    BY <1>1
  <2> QED BY <1>1, <2>1, SubSeqProperties
<1>3. b \in Seq(S) /\ Len(b) = N - i /\ \A k \in 1..(N - i) : b[k] = s[i + k]
  <2>1. \A k \in (i + 1)..N : s[k] \in S
    BY <1>1
  <2>2. /\ SubSeq(s, i + 1, N) \in Seq(S)
        /\ Len(SubSeq(s, i + 1, N)) = IF i + 1 <= N THEN N - (i + 1) + 1 ELSE 0
        /\ \A k \in 1..(N - (i + 1) + 1) :
              SubSeq(s, i + 1, N)[k] = s[i + 1 + k - 1]
    <3>1. i + 1 \in Int /\ N \in Int
      BY <1>1
    <3> QED BY <2>1, <3>1, SubSeqProperties
  <2> QED BY <1>1, <2>2
<1>4. c \in Seq(S) /\ Len(c) = 2 /\ c[1] = x /\ c[2] = y
  OBVIOUS
<1> HIDE DEF N, a, b, c
<1>5. /\ d \in Seq(S) /\ Len(d) = i + 1
      /\ \A k \in 1..(i - 1) : d[k] = s[k]
      /\ d[i] = x /\ d[i + 1] = y
  <2>1. /\ d \in Seq(S) /\ Len(d) = Len(a) + Len(c)
        /\ \A k \in 1..(Len(a) + Len(c)) :
              d[k] = IF k <= Len(a) THEN a[k] ELSE c[k - Len(a)]
    BY <1>2, <1>4, ConcatProperties
  <2> HIDE DEF d
  <2>2. i \in Nat /\ i >= 1 /\ Len(d) = i + 1
    BY <1>1, <1>2, <1>4, <2>1
  <2>3. \A k \in 1..(i + 1) : d[k] = IF k <= i - 1 THEN a[k] ELSE c[k - (i - 1)]
    BY <1>2, <1>4, <2>1, <2>2
  <2>4. ASSUME NEW k \in 1..(i - 1)
        PROVE  d[k] = s[k]
    <3>1. k \in 1..(i + 1) /\ k <= i - 1
      BY <2>2
    <3> QED BY <1>2, <2>3, <3>1
  <2>5. i - (i - 1) = 1 /\ (i + 1) - (i - 1) = 2 /\ i \in 1..(i + 1) /\ i + 1 \in 1..(i + 1)
        /\ ~(i <= i - 1) /\ ~(i + 1 <= i - 1)
    BY <2>2
  <2>6. d[i] = x /\ d[i + 1] = y
    BY <1>4, <2>3, <2>5
  <2> QED BY <2>1, <2>2, <2>4, <2>6
<1> HIDE DEF d
<1>6. u = d \o b
  BY DEF a, b, c, d, N, TwoAt
<1>7. /\ u \in Seq(S) /\ Len(u) = Len(d) + Len(b)
      /\ \A k \in 1..(Len(d) + Len(b)) :
            u[k] = IF k <= Len(d) THEN d[k] ELSE b[k - Len(d)]
  <2>1. /\ d \o b \in Seq(S) /\ Len(d \o b) = Len(d) + Len(b)
        /\ \A k \in 1..(Len(d) + Len(b)) :
              (d \o b)[k] = IF k <= Len(d) THEN d[k] ELSE b[k - Len(d)]
    BY <1>3, <1>5, ConcatProperties
  <2> QED BY <1>6, <2>1
<1>8. Len(u) = N + 1
  BY <1>1, <1>3, <1>5, <1>7
<1>9. ASSUME NEW k \in 1..(N + 1)
      PROVE  u[k] = IF k < i THEN s[k] ELSE IF k = i THEN x
                    ELSE IF k = i + 1 THEN y ELSE s[k - 1]
  <2>1. u[k] = IF k <= i + 1 THEN d[k] ELSE b[k - (i + 1)]
    <3>1. Len(d) = i + 1 /\ Len(d) + Len(b) = N + 1
      BY <1>1, <1>3, <1>5
    <3> QED BY <1>7, <3>1
  <2>2. CASE k <= i + 1
    <3>1. k \in 1..(i - 1) \/ k = i \/ k = i + 1
      BY <1>1, <2>2
    <3>2. \A j \in 1..(i - 1) : j < i
      BY <1>1
    <3>3. ~(i < i) /\ ~(i + 1 < i) /\ i + 1 # i
      BY <1>1
    <3> QED BY <1>5, <2>1, <2>2, <3>1, <3>2, <3>3
  <2>3. CASE ~(k <= i + 1)
    <3>0. i \in Int /\ N \in Int /\ k \in Int /\ k <= N + 1 /\ k > i + 1
      BY <1>1, <2>3
    <3>1. k - (i + 1) \in 1..(N - i) /\ i + (k - (i + 1)) = k - 1
          /\ ~(k < i) /\ k # i /\ k # i + 1
      BY <3>0
    <3>2. b[k - (i + 1)] = s[i + (k - (i + 1))]
      BY <1>3, <3>1
    <3> QED BY <2>1, <2>3, <3>1, <3>2
  <2> QED BY <2>2, <2>3
<1> QED BY <1>7, <1>8, <1>9 DEF N, IsTwoAt

-----------------------------------------------------------------------------

(* Every non-empty set of naturals has a least element, and Min is it.     *)
LEMMA MinIsLeast ==
    ASSUME NEW S \in SUBSET Nat, S # {}
    PROVE  Min(S) \in S /\ \A x \in S : Min(S) <= x
  <1>1. \E x \in S : \A y \in S : ~ (<<y, x>> \in OpToRel(<, Nat))
    BY NatLessThanWellFounded, WFMin
  <1>2. PICK x \in S : \A y \in S : ~ (<<y, x>> \in OpToRel(<, Nat))
    BY <1>1
  <1>3. ASSUME NEW y \in S, y < x
        PROVE  FALSE
    <2>1. <<y, x>> \in Nat \X Nat
      BY <1>2
    <2>2. <<y, x>>[1] < <<y, x>>[2]
      BY <1>3
    <2>3. <<y, x>> \in {ss \in Nat \X Nat : ss[1] < ss[2]}
      BY <2>1, <2>2, Zenon
    <2> QED
      BY <1>2, <2>3 DEF OpToRel
  <1>4. \A y \in S : x <= y
    <2>1. \A y \in S : y \in Nat /\ x \in Nat
      OBVIOUS
    <2> QED
      BY <1>3, <2>1
  <1> QED
    BY <1>4 DEF Min

(* Every non-empty set of the first naturals has a greatest element.       *)
LEMMA MaxIsGreatest ==
    ASSUME NEW n \in Nat, NEW S \in SUBSET (1..n), S # {}
    PROVE  Max(S) \in S /\ \A x \in S : x <= Max(S)
<1> DEFINE T == {n - x : x \in S}
           m == Min(T)
<1>1. T \in SUBSET Nat /\ T # {}
  <2>1. \A x \in S : n - x \in Nat
    OBVIOUS
  <2> QED BY <2>1
<1>2. m \in T /\ \A y \in T : m <= y
  BY <1>1, MinIsLeast
<1>3. PICK x \in S : m = n - x
  BY <1>2
<1>4. \A y \in S : n - x <= n - y
  BY <1>2, <1>3
<1>5. \A y \in S : y \in Nat
  OBVIOUS
<1>6. \A y \in S : x >= y
  BY <1>4, <1>5
<1> HIDE DEF T, m
<1>7. \E z \in S : \A y \in S : z >= y
  BY <1>6
<1> QED BY <1>5, <1>7 DEF Max

(* Induction, as a fact about a set of naturals.                           *)
LEMMA InductionOnSets ==
    ASSUME NEW S \in SUBSET Nat, 0 \in S, \A n \in S : n + 1 \in S
    PROVE  S = Nat
<1> SUFFICES ASSUME Nat \ S # {}
             PROVE  FALSE
  OBVIOUS
<1> DEFINE T == Nat \ S
           m == Min(T)
<1>1. m \in T /\ \A x \in T : m <= x
  BY MinIsLeast
<1> HIDE DEF m
<1>2. m - 1 \in Nat /\ m - 1 \notin T
  BY <1>1
<1>3. (m - 1) + 1 \in S
  BY <1>2
<1> QED BY <1>1, <1>3

(* G takes a value to the next one, N times.                               *)
StepsIn(G, N, V) == \A i \in 1..N : \A v \in V : G[<<i, v>>] \in V

(* f lists the values on the way, from the base on.                        *)
BuiltBy(G, N, V, base, f) ==
    /\ f \in [0..N -> V]
    /\ f[0] = base
    /\ \A i \in 1..N : f[i] = G[<<i, f[i - 1]>>]

(* A function on 0..N can be built from its first value and a way to get   *)
(* each value from the one before it.                                      *)
LEMMA Recursion ==
    ASSUME NEW V, NEW base \in V, NEW N \in Nat, NEW G, StepsIn(G, N, V)
    PROVE  \E f : BuiltBy(G, N, V, base, f)
<1> USE DEF StepsIn, BuiltBy
<1> DEFINE Built(n, f) ==
              f[0] = base /\ \A i \in 1..n : f[i] = G[<<i, f[i - 1]>>]
           S == {n \in Nat : n <= N => \E f \in [0..n -> V] : Built(n, f)}
<1>1. 0 \in S
  <2> DEFINE f == [i \in 0..0 |-> base]
  <2>1. f \in [0..0 -> V] /\ Built(0, f)
    OBVIOUS
  <2> QED BY <2>1
<1>2. ASSUME NEW n \in S
      PROVE  n + 1 \in S
  <2> SUFFICES ASSUME n + 1 <= N
               PROVE  \E f \in [0..(n + 1) -> V] : Built(n + 1, f)
    OBVIOUS
  <2>1. PICK f \in [0..n -> V] : Built(n, f)
    BY <1>2
  <2> DEFINE h == [i \in 0..(n + 1) |-> IF i = n + 1 THEN G[<<n + 1, f[n]>>] ELSE f[i]]
  <2>2. n + 1 \in 1..N /\ f[n] \in V
    BY <1>2
  <2>3. h \in [0..(n + 1) -> V]
    BY <1>2, <2>2
  <2>4. h[n + 1] = G[<<n + 1, f[n]>>] /\ \A i \in 0..n : h[i] = f[i]
    BY <1>2
  <2> HIDE DEF h
  <2>5. h[0] = base
    BY <1>2, <2>1, <2>4
  <2>6. ASSUME NEW i \in 1..(n + 1)
        PROVE  h[i] = G[<<i, h[i - 1]>>]
    <3>1. CASE i = n + 1
      BY <1>2, <2>4, <3>1
    <3>2. CASE i # n + 1
      <4>1. i \in 1..n /\ i \in 0..n /\ i - 1 \in 0..n
        BY <1>2, <3>2
      <4> QED BY <2>1, <2>4, <4>1
    <3> QED BY <3>1, <3>2
  <2> QED BY <2>3, <2>5, <2>6
<1>3. S = Nat
  <2> HIDE DEF S
  <2>1. S \in SUBSET Nat
    BY DEF S
  <2> QED BY <1>1, <1>2, <2>1, InductionOnSets
<1>4. N \in S
  BY <1>3
<1> QED BY <1>4

-----------------------------------------------------------------------------
(* FlattenSeq joins one sequence after the other.                          *)
FlatBy(seqs, flat) ==
    /\ flat[1] = seqs[1]
    /\ \A i \in 1..Len(seqs) : i # 1 => flat[i] = flat[i - 1] \o seqs[i]
    /\ FlattenSeq(seqs) = flat[Len(seqs)]

LEMMA FlatSteps ==
    ASSUME NEW S, NEW seqs \in Seq(Seq(S)), Len(seqs) # 0
    PROVE  \E flat : FlatBy(seqs, flat)
<1> DEFINE N == Len(seqs)
           IsFlat(f) == f = [i \in 1..N |->
                               IF i = 1 THEN seqs[i] ELSE f[i - 1] \o seqs[i]]
           flat == CHOOSE f : IsFlat(f)
<1>1. N \in Nat /\ N >= 1 /\ DOMAIN seqs = 1..N /\ \A i \in 1..N : seqs[i] \in Seq(S)
  OBVIOUS
<1>2. FlattenSeq(seqs) = flat[N]
  BY DEF FlattenSeq
<1> HIDE DEF N
<1>3. \E f : IsFlat(f)
  <2> DEFINE G == [q \in (1..N) \X Seq(S) |-> q[2] \o seqs[q[1]]]
  <2>1. \A i \in 1..N : \A s \in Seq(S) :
            s \o seqs[i] \in Seq(S) /\ G[<<i, s>>] = s \o seqs[i]
    BY <1>1, ConcatProperties
  <2> HIDE DEF G
  <2>3. <<>> \in Seq(S)
    OBVIOUS
  <2>2. StepsIn(G, N, Seq(S))
    BY <2>1 DEF StepsIn
  <2>4. PICK f : BuiltBy(G, N, Seq(S), <<>>, f)
    <3> DEFINE V == Seq(S)
               none == <<>>
    <3>1. N \in Nat /\ none \in V /\ StepsIn(G, N, V)
      BY <1>1, <2>2, <2>3
    <3> HIDE DEF V, none
    <3>2. \E f : BuiltBy(G, N, V, none, f)
      BY <3>1, Recursion
    <3> QED BY <3>2 DEF V, none
  <2>5. /\ f \in [0..N -> Seq(S)] /\ f[0] = <<>>
        /\ \A i \in 1..N : f[i] = f[i - 1] \o seqs[i]
    <3>1. f \in [0..N -> Seq(S)] /\ f[0] = <<>>
          /\ \A i \in 1..N : f[i] = G[<<i, f[i - 1]>>]
      BY <2>4 DEF BuiltBy
    <3>2. ASSUME NEW i \in 1..N
          PROVE  f[i - 1] \in Seq(S)
      BY <1>1, <3>1
    <3> QED BY <2>1, <3>1, <3>2
  <2> DEFINE h == [i \in 1..N |-> f[i]]
  <2>6. ASSUME NEW i \in 1..N
        PROVE  h[i] = IF i = 1 THEN seqs[i] ELSE h[i - 1] \o seqs[i]
    <3>1. CASE i = 1
      <4>1. <<>> \o seqs[i] = seqs[i]
        BY <1>1, ConcatEmptySeq
      <4>2. f[i - 1] = <<>>
        BY <2>5, <3>1
      <4> QED BY <2>5, <3>1, <4>1, <4>2
    <3>2. CASE i # 1
      <4>1. i - 1 \in 1..N
        BY <1>1, <3>2
      <4> QED BY <2>5, <3>2, <4>1
    <3> QED BY <3>1, <3>2
  <2>7. IsFlat(h)
    BY <2>6
  <2> QED BY <2>7
<1>4. IsFlat(flat)
  BY <1>3
<1> HIDE DEF flat
<1>5. FlatBy(seqs, flat)
  <2>1. 1 \in 1..N
    BY <1>1
  <2>2. flat[1] = seqs[1]
    BY <1>4, <2>1
  <2>3. \A i \in 1..N : i # 1 => flat[i] = flat[i - 1] \o seqs[i]
    BY <1>4
  <2> QED BY <1>2, <2>2, <2>3 DEF FlatBy, N
<1> QED BY <1>5

(* FlattenSeq is a sequence of the elements of its sequences, no longer    *)
(* than there are sequences if none has two elements.                      *)
LEMMA FlattenedSeq ==
    ASSUME NEW S, NEW seqs \in Seq(Seq(S))
    PROVE  /\ FlattenSeq(seqs) \in Seq(S)
           /\ Range(FlattenSeq(seqs)) = UNION {Range(seqs[i]) : i \in DOMAIN seqs}
           /\ (\A i \in DOMAIN seqs : Len(seqs[i]) <= 1) =>
                 Len(FlattenSeq(seqs)) <= Len(seqs)
<1>1. CASE Len(seqs) = 0
  <2>1. seqs = <<>>
    BY <1>1
  <2> QED BY <1>1, <2>1 DEF FlattenSeq, Range
<1>2. CASE Len(seqs) # 0
  <2> DEFINE N == Len(seqs)
             Short == \A i \in 1..N : Len(seqs[i]) <= 1
  <2>1. N \in Nat /\ N >= 1 /\ DOMAIN seqs = 1..N /\ \A i \in 1..N : seqs[i] \in Seq(S)
    BY <1>2
  <2>3. PICK flat : FlatBy(seqs, flat)
    BY <1>2, FlatSteps
  <2>2. FlattenSeq(seqs) = flat[N]
    BY <2>3 DEF FlatBy
  <2>4. /\ flat[1] = seqs[1]
        /\ \A i \in 1..N : i # 1 => flat[i] = flat[i - 1] \o seqs[i]
    BY <2>3 DEF FlatBy
  <2> HIDE DEF N
  <2> DEFINE T == {n \in Nat : n + 1 \in 1..N =>
                      /\ flat[n + 1] \in Seq(S)
                      /\ Range(flat[n + 1]) = UNION {Range(seqs[i]) : i \in 1..(n + 1)}
                      /\ Short => Len(flat[n + 1]) <= n + 1}
  <2>5. 0 \in T
    <3>1. flat[1] = seqs[1] /\ seqs[1] \in Seq(S)
      BY <2>1, <2>4
    <3>2. 1..(0 + 1) = {1} /\ 0 + 1 = 1
      OBVIOUS
    <3>3. UNION {Range(seqs[i]) : i \in {1}} = Range(seqs[1])
      OBVIOUS
    <3>4. Short => Len(flat[1]) <= 1
      BY <2>1, <3>1
    <3> HIDE DEF Short
    <3> QED BY <3>1, <3>2, <3>3, <3>4
  <2>6. ASSUME NEW n \in T
        PROVE  n + 1 \in T
    <3> SUFFICES ASSUME (n + 1) + 1 \in 1..N
                 PROVE  /\ flat[(n + 1) + 1] \in Seq(S)
                        /\ Range(flat[(n + 1) + 1]) =
                               UNION {Range(seqs[i]) : i \in 1..((n + 1) + 1)}
                        /\ Short => Len(flat[(n + 1) + 1]) <= (n + 1) + 1
      OBVIOUS
    <3>0. n \in Nat /\ (n + 1) + 1 = n + 2 /\ n + 2 \in 1..N
      OBVIOUS
    <3>1. n \in Nat /\ n + 1 \in 1..N
      BY <2>1
    <3>2. /\ flat[n + 1] \in Seq(S)
          /\ Range(flat[n + 1]) = UNION {Range(seqs[i]) : i \in 1..(n + 1)}
          /\ Short => Len(flat[n + 1]) <= n + 1
      BY <3>1
    <3>3. flat[n + 2] = flat[n + 1] \o seqs[n + 2]
      <4>1. n + 2 # 1 /\ (n + 2) - 1 = n + 1
        BY <3>1
      <4> QED BY <2>4, <3>0, <4>1
    <3>4. flat[n + 2] \in Seq(S)
          /\ Range(flat[n + 2]) = Range(flat[n + 1]) \cup Range(seqs[n + 2])
      <4>1. seqs[n + 2] \in Seq(S)
        BY <2>1
      <4> QED BY <3>2, <3>3, <4>1, ConcatProperties, RangeConcatenation
    <3>5. 1..(n + 2) = (1..(n + 1)) \cup {n + 2}
      BY <3>1
    <3>6. Short => Len(flat[n + 2]) <= n + 2
      <4>1. seqs[n + 2] \in Seq(S) /\ flat[n + 1] \in Seq(S)
        BY <2>1, <3>0, <3>2
      <4>2. Len(flat[n + 2]) = Len(flat[n + 1]) + Len(seqs[n + 2])
        BY <3>3, <4>1, ConcatProperties
      <4>3. Len(flat[n + 1]) \in Nat /\ Len(seqs[n + 2]) \in Nat
        BY <4>1
      <4>4. ASSUME Short
            PROVE  Len(flat[n + 1]) <= n + 1 /\ Len(seqs[n + 2]) <= 1
        <5>1. Len(seqs[n + 2]) <= 1
          BY <3>0, <4>4
        <5> HIDE DEF Short
        <5> QED BY <3>2, <4>4, <5>1
      <4> HIDE DEF Short
      <4>5. ASSUME Short
            PROVE  Len(flat[n + 2]) <= n + 2
        <5> DEFINE x == Len(flat[n + 1])
                   y == Len(seqs[n + 2])
                   z == Len(flat[n + 2])
        <5>1. x <= n + 1 /\ y <= 1 /\ z = x + y /\ x \in Nat /\ y \in Nat /\ n \in Nat
          BY <3>1, <4>2, <4>3, <4>4, <4>5
        <5> HIDE DEF x, y, z
        <5>2. z <= n + 2
          BY <5>1
        <5> QED BY <5>2 DEF z
      <4> QED BY <4>5
    <3> HIDE DEF Short
    <3>7. Range(flat[n + 2]) = UNION {Range(seqs[i]) : i \in 1..(n + 2)}
      <4> DEFINE A == 1..(n + 1)
                 R == [i \in 1..N |-> Range(seqs[i])]
      <4>1. A \cup {n + 2} \subseteq 1..N
        BY <3>0, <3>1, <2>1
      <4>2. /\ Range(flat[n + 1]) = UNION {R[i] : i \in A}
            /\ Range(seqs[n + 2]) = R[n + 2]
            /\ UNION {Range(seqs[i]) : i \in A \cup {n + 2}} =
                   UNION {R[i] : i \in A \cup {n + 2}}
        BY <3>2, <4>1
      <4> HIDE DEF A, R
      <4>3. UNION {R[i] : i \in A \cup {n + 2}} = (UNION {R[i] : i \in A}) \cup R[n + 2]
        OBVIOUS
      <4>4. Range(flat[n + 2]) = UNION {Range(seqs[i]) : i \in A \cup {n + 2}}
        BY <3>4, <4>2, <4>3
      <4> QED BY <3>5, <4>4 DEF A
    <3> QED BY <3>0, <3>4, <3>6, <3>7
  <2>7. T = Nat
    <3> HIDE DEF T
    <3>1. T \in SUBSET Nat
      BY DEF T
    <3> QED BY <2>5, <2>6, <3>1, InductionOnSets
  <2>8. N - 1 \in T /\ (N - 1) + 1 = N
    BY <2>1, <2>7
  <2> QED BY <2>1, <2>2, <2>8
<1>3. Len(seqs) \in Nat
  OBVIOUS
<1> QED BY <1>1, <1>2

-----------------------------------------------------------------------------
(* Sums.                                                                   *)

(* SumFunctionOnSet takes one element after the other: what is left to     *)
(* take decides which.                                                     *)
Picked(s) == CHOOSE x \in s : TRUE

SumsUp(g, D, f) ==
    f = [s \in SUBSET D |-> IF s = {} THEN 0 ELSE g[Picked(s)] + f[s \ {Picked(s)}]]

SumBy(g, D) == CHOOSE f : SumsUp(g, D, f)

Summable(g, D) == IsFiniteSet(D) /\ \A x \in D : g[x] \in Int

LEMMA SumIsSumBy ==
    ASSUME NEW g, NEW D
    PROVE  SumFunctionOnSet(g, D) = SumBy(g, D)[D]
BY DEF SumFunctionOnSet, FoldFunctionOnSet, MapThenFoldSet, SumBy, SumsUp, Picked

LEMMA PickedIs ==
    ASSUME NEW s, s # {}
    PROVE  Picked(s) \in s
BY DEF Picked

(* There is such a function: the sums of sets of up to n elements do not   *)
(* change after n steps.                                                   *)
LEMMA SumExists ==
    ASSUME NEW g, NEW D, Summable(g, D)
    PROVE  \E f \in [SUBSET D -> Int] : SumsUp(g, D, f)
<1> DEFINE Subs == SUBSET D
           V == [Subs -> Int]
           N == Cardinality(D) + 1
           Step(v) == [s \in Subs |-> IF s = {} THEN 0
                                      ELSE g[Picked(s)] + v[s \ {Picked(s)}]]
           G == [q \in (1..N) \X V |-> Step(q[2])]
           zero == [s \in Subs |-> 0]
<1>1. N \in Nat /\ IsFiniteSet(D) /\ \A x \in D : g[x] \in Int
  BY FS_CardinalityType DEF Summable
<1>2. \A s \in Subs : s # {} => Picked(s) \in D /\ s \ {Picked(s)} \in Subs
  BY PickedIs
<1>3. \A v \in V : Step(v) \in V
  <2> SUFFICES ASSUME NEW v \in V, NEW s \in Subs
               PROVE  (IF s = {} THEN 0 ELSE g[Picked(s)] + v[s \ {Picked(s)}]) \in Int
    OBVIOUS
  <2>1. CASE s = {}
    BY <2>1
  <2>2. CASE s # {}
    <3>1. g[Picked(s)] \in Int /\ v[s \ {Picked(s)}] \in Int
      BY <1>1, <1>2, <2>2
    <3> QED BY <2>2, <3>1
  <2> QED BY <2>1, <2>2
<1> HIDE DEF Step, N
<1>4. \A i \in 1..N : \A v \in V : G[<<i, v>>] = Step(v)
  OBVIOUS
<1> HIDE DEF G
<1>5. zero \in V
  OBVIOUS
<1> HIDE DEF zero
<1>6. StepsIn(G, N, V)
  BY <1>3, <1>4 DEF StepsIn
<1> HIDE DEF V
<1>7. PICK h : BuiltBy(G, N, V, zero, h)
  BY <1>1, <1>5, <1>6, Recursion
<1>8. h \in [0..N -> V] /\ \A i \in 1..N : h[i] = Step(h[i - 1])
  <2>1. /\ h \in [0..N -> V]
        /\ \A i \in 1..N : h[i] = G[<<i, h[i - 1]>>]
    BY <1>7 DEF BuiltBy
  <2>2. \A i \in 1..N : h[i - 1] \in V
    BY <1>1, <2>1
  <2> QED BY <1>4, <2>1, <2>2
<1>9. \A s \in Subs : Cardinality(s) \in Nat /\ Cardinality(s) < N
  BY <1>1, FS_Subset, FS_CardinalityType DEF N
<1> DEFINE S == {n \in Nat : n + 1 \in 1..N =>
                    \A s \in Subs : Cardinality(s) <= n => h[n + 1][s] = h[n][s]}
           T == {n \in Nat : \A i \in 1..N : i > n =>
                    \A s \in Subs : Cardinality(s) < n => h[i][s] = h[i - 1][s]}
<1>10. 0 \in T
  BY <1>9
<1>11. ASSUME NEW n \in T
       PROVE  n + 1 \in T
  <2> SUFFICES ASSUME NEW i \in 1..N, i > n + 1, NEW s \in Subs, Cardinality(s) < n + 1
               PROVE  h[i][s] = h[i - 1][s]
    OBVIOUS
  <2>1. n \in Nat /\ i - 1 \in 1..N /\ i - 1 > n /\ i \in Nat
    BY <1>1
  <2>2. \A t \in Subs : Cardinality(t) < n => h[i - 1][t] = h[(i - 1) - 1][t]
    BY <2>1
  <2>3. h[i] = Step(h[i - 1]) /\ h[i - 1] = Step(h[(i - 1) - 1])
    BY <1>8, <2>1
  <2>4. CASE s = {}
    BY <2>3, <2>4 DEF Step
  <2>5. CASE s # {}
    <3> DEFINE t == s \ {Picked(s)}
    <3>1. t \in Subs
      BY <1>2, <2>5
    <3>2. Cardinality(t) < n
      <4>1. IsFiniteSet(s) /\ Picked(s) \in s
        BY <1>1, <2>5, FS_Subset, PickedIs
      <4>2. Cardinality(t) = Cardinality(s) - 1
        BY <4>1, FS_RemoveElement
      <4>3. Cardinality(s) \in Nat
        BY <1>9
      <4> HIDE DEF t
      <4> QED BY <2>1, <4>2, <4>3
    <3>3. h[i - 1][t] = h[(i - 1) - 1][t]
      BY <2>2, <3>1, <3>2
    <3>4. \A v : Step(v)[s] = g[Picked(s)] + v[t]
      BY <2>5 DEF Step
    <3> HIDE DEF t
    <3> QED BY <2>3, <3>3, <3>4
  <2> QED BY <2>4, <2>5
<1>12. T = Nat
  <2>1. T \in SUBSET Nat
    OBVIOUS
  <2> HIDE DEF T
  <2> QED BY <1>10, <1>11, <2>1, InductionOnSets
<1> DEFINE f == h[N]
<1>13. f \in V /\ f = Step(h[N - 1]) /\ h[N - 1] \in V
  <2>1. N \in 1..N /\ N \in 0..N /\ N - 1 \in 0..N
    BY <1>1, <1>9, FS_CardinalityType DEF N
  <2> QED BY <1>8, <2>1
<1>14. \A s \in Subs : Cardinality(s) < N - 1 => f[s] = h[N - 1][s]
  <2>1. N - 1 \in T /\ N \in 1..N /\ N > N - 1
    <3>1. N - 1 \in Nat /\ N \in Nat
      BY <1>1, FS_CardinalityType DEF N
    <3> QED BY <1>12, <3>1
  <2> QED BY <2>1
<1>15. \A s \in Subs : f[s] = IF s = {} THEN 0 ELSE g[Picked(s)] + f[s \ {Picked(s)}]
  <2> SUFFICES ASSUME NEW s \in Subs
               PROVE  f[s] = IF s = {} THEN 0 ELSE g[Picked(s)] + f[s \ {Picked(s)}]
    OBVIOUS
  <2>1. f[s] = IF s = {} THEN 0 ELSE g[Picked(s)] + h[N - 1][s \ {Picked(s)}]
    BY <1>13 DEF Step
  <2>2. CASE s # {}
    <3> DEFINE t == s \ {Picked(s)}
    <3>1. t \in Subs
      BY <1>2, <2>2
    <3>2. Cardinality(t) < N - 1
      <4>1. IsFiniteSet(s) /\ Picked(s) \in s
        BY <1>1, <2>2, FS_Subset, PickedIs
      <4>2. Cardinality(t) = Cardinality(s) - 1
        BY <4>1, FS_RemoveElement
      <4>3. Cardinality(s) \in Nat /\ Cardinality(s) < N
        BY <1>9
      <4> HIDE DEF t
      <4> QED BY <1>1, <4>2, <4>3
    <3>3. f[t] = h[N - 1][t]
      BY <1>14, <3>1, <3>2
    <3> QED BY <2>1, <2>2, <3>3
  <2> QED BY <2>1, <2>2
<1>16. f \in [Subs -> Int]
  BY <1>13 DEF V
<1> HIDE DEF f
<1>17. SumsUp(g, D, f)
  BY <1>15, <1>16 DEF SumsUp
<1> QED BY <1>16, <1>17

(* It is determined by g on the subsets.                                   *)
LEMMA SumUnique ==
    ASSUME NEW g, NEW h, NEW D, NEW E, NEW f, NEW k, SumsUp(g, D, f), SumsUp(h, E, k),
           NEW s, s \subseteq D, s \subseteq E, IsFiniteSet(s), \A x \in s : g[x] = h[x]
    PROVE  f[s] = k[s]
<1> DEFINE T == {n \in Nat : \A t \in SUBSET s : Cardinality(t) = n => f[t] = k[t]}
<1>1. \A t \in SUBSET s : /\ t \in SUBSET D /\ t \in SUBSET E /\ IsFiniteSet(t)
                          /\ Cardinality(t) \in Nat
  BY FS_Subset, FS_CardinalityType
<1>2. 0 \in T
  <2> SUFFICES ASSUME NEW t \in SUBSET s, Cardinality(t) = 0
               PROVE  f[t] = k[t]
    OBVIOUS
  <2>1. t = {}
    BY <1>1, FS_EmptySet
  <2> QED BY <1>1, <2>1 DEF SumsUp
<1>3. ASSUME NEW n \in T
      PROVE  n + 1 \in T
  <2> SUFFICES ASSUME NEW t \in SUBSET s, Cardinality(t) = n + 1
               PROVE  f[t] = k[t]
    OBVIOUS
  <2> DEFINE x == Picked(t)
             u == t \ {x}
  <2>1. t # {} /\ n \in Nat
    <3>1. n \in Nat
      OBVIOUS
    <3>2. t = {} => Cardinality(t) = 0
      BY FS_EmptySet
    <3> QED BY <3>1, <3>2
  <2>2. x \in t /\ x \in s /\ u \in SUBSET s
    BY <2>1, PickedIs
  <2>3. Cardinality(u) = n
    <3>1. Cardinality(u) = Cardinality(t) - 1
      BY <1>1, <2>2, FS_RemoveElement
    <3> QED BY <2>1, <3>1
  <2>4. f[u] = k[u]
    BY <2>2, <2>3
  <2>5. f[t] = g[x] + f[u] /\ k[t] = h[x] + k[u]
    BY <1>1, <2>1 DEF SumsUp
  <2> QED BY <2>2, <2>4, <2>5
<1>4. T = Nat
  <2>1. T \in SUBSET Nat
    OBVIOUS
  <2> HIDE DEF T
  <2> QED BY <1>2, <1>3, <2>1, InductionOnSets
<1>5. Cardinality(s) \in T /\ s \in SUBSET s
  BY <1>1, <1>4
<1> QED BY <1>5

(* The sum over a set is the picked element's and that over the rest.      *)
LEMMA SumStep ==
    ASSUME NEW g, NEW D, Summable(g, D)
    PROVE  /\ SumFunctionOnSet(g, D) \in Int
           /\ D = {} => SumFunctionOnSet(g, D) = 0
           /\ D # {} => SumFunctionOnSet(g, D) =
                 g[Picked(D)] + SumFunctionOnSet(g, D \ {Picked(D)})
<1>1. PICK f \in [SUBSET D -> Int] : SumsUp(g, D, f)
  BY SumExists
<1>2. SumsUp(g, D, SumBy(g, D))
  BY <1>1 DEF SumBy
<1>3. ASSUME NEW s \in SUBSET D
      PROVE  SumFunctionOnSet(g, s) = f[s]
  <2>1. Summable(g, s) /\ IsFiniteSet(s)
    BY FS_Subset DEF Summable
  <2>2. SumsUp(g, s, SumBy(g, s))
    <3>1. \E k \in [SUBSET s -> Int] : SumsUp(g, s, k)
      BY <2>1, SumExists
    <3> QED BY <3>1 DEF SumBy
  <2>3. SumBy(g, s)[s] = f[s]
    BY <1>1, <2>1, <2>2, SumUnique
  <2> QED BY <2>3, SumIsSumBy
<1>4. D # {} => Picked(D) \in D
  BY PickedIs
<1>5. f[D] \in Int
  OBVIOUS
<1>6. f[D] = IF D = {} THEN 0 ELSE g[Picked(D)] + f[D \ {Picked(D)}]
  BY <1>1 DEF SumsUp
<1> QED BY <1>3, <1>5, <1>6

LEMMA SumSame ==
    ASSUME NEW g, NEW h, NEW D, Summable(g, D), \A x \in D : g[x] = h[x]
    PROVE  SumFunctionOnSet(g, D) = SumFunctionOnSet(h, D)
<1>1. Summable(h, D) /\ IsFiniteSet(D)
  BY DEF Summable
<1>2. SumsUp(g, D, SumBy(g, D)) /\ SumsUp(h, D, SumBy(h, D))
  BY <1>1, SumExists DEF SumBy
<1>3. SumBy(g, D)[D] = SumBy(h, D)[D]
  BY <1>1, <1>2, SumUnique
<1> QED BY <1>3, SumIsSumBy

(* It does not matter which element is taken first.                        *)
LEMMA SumTake ==
    ASSUME NEW g, NEW D, Summable(g, D), NEW x \in D
    PROVE  SumFunctionOnSet(g, D) = g[x] + SumFunctionOnSet(g, D \ {x})
<1> DEFINE Sum(s) == SumFunctionOnSet(g, s)
           T == {n \in Nat : \A t \in SUBSET D : Cardinality(t) = n =>
                    \A y \in t : Sum(t) = g[y] + Sum(t \ {y})}
<1>1. \A t \in SUBSET D : /\ Summable(g, t) /\ IsFiniteSet(t)
                          /\ Cardinality(t) \in Nat /\ Sum(t) \in Int
  <2> SUFFICES ASSUME NEW t \in SUBSET D
               PROVE  /\ Summable(g, t) /\ IsFiniteSet(t)
                      /\ Cardinality(t) \in Nat /\ Sum(t) \in Int
    OBVIOUS
  <2>1. Summable(g, t) /\ IsFiniteSet(t)
    BY FS_Subset DEF Summable
  <2> QED BY <2>1, FS_CardinalityType, SumStep
<1>2. \A t \in SUBSET D : t # {} => Picked(t) \in t /\ Sum(t) = g[Picked(t)] + Sum(t \ {Picked(t)})
  BY <1>1, PickedIs, SumStep
<1>3. \A y \in D : g[y] \in Int
  BY DEF Summable
<1> HIDE DEF Sum
<1>4. 0 \in T
  <2>1. \A t \in SUBSET D : Cardinality(t) = 0 => t = {}
    BY <1>1, FS_EmptySet
  <2> QED BY <2>1
<1>5. ASSUME NEW n \in T
      PROVE  n + 1 \in T
  <2> SUFFICES ASSUME NEW t \in SUBSET D, Cardinality(t) = n + 1, NEW y \in t
               PROVE  Sum(t) = g[y] + Sum(t \ {y})
    OBVIOUS
  <2> DEFINE c == Picked(t)
  <2>1. c \in t /\ Sum(t) = g[c] + Sum(t \ {c})
    BY <1>2
  <2> HIDE DEF c
  <2>2. CASE c = y
    BY <2>1, <2>2
  <2>3. CASE c # y
    <3>1. Cardinality(t \ {c}) = n /\ Cardinality(t \ {y}) = n
      <4>1. Cardinality(t \ {c}) = Cardinality(t) - 1 /\ Cardinality(t \ {y}) = Cardinality(t) - 1
        BY <1>1, <2>1, FS_RemoveElement
      <4>2. n \in Nat
        OBVIOUS
      <4> QED BY <4>1, <4>2
    <3>2. y \in t \ {c} /\ c \in t \ {y} /\ t \ {c} \in SUBSET D /\ t \ {y} \in SUBSET D
      BY <2>1, <2>3
    <3>3. Sum(t \ {c}) = g[y] + Sum((t \ {c}) \ {y})
      BY <3>1, <3>2
    <3>4. Sum(t \ {y}) = g[c] + Sum((t \ {y}) \ {c})
      BY <3>1, <3>2
    <3>5. (t \ {c}) \ {y} = (t \ {y}) \ {c}
      OBVIOUS
    <3> DEFINE u == (t \ {c}) \ {y}
    <3>6. g[y] \in Int /\ g[c] \in Int /\ Sum(u) \in Int
      BY <1>1, <1>3, <2>1
    <3> DEFINE yy == g[y]
               cc == g[c]
               rest == Sum(u)
               ofC == Sum(t \ {c})
               ofY == Sum(t \ {y})
               all == Sum(t)
    <3>7. /\ yy \in Int /\ cc \in Int /\ rest \in Int
          /\ all = cc + ofC /\ ofC = yy + rest /\ ofY = cc + rest
      BY <2>1, <3>3, <3>4, <3>5, <3>6
    <3> HIDE DEF yy, cc, rest, ofC, ofY, all
    <3>8. all = yy + ofY
      BY <3>7
    <3> QED BY <3>8 DEF yy, ofY, all
  <2> QED BY <2>2, <2>3
<1>6. T = Nat
  <2>1. T \in SUBSET Nat
    OBVIOUS
  <2> HIDE DEF T
  <2> QED BY <1>4, <1>5, <2>1, InductionOnSets
<1>7. Cardinality(D) \in T /\ D \in SUBSET D
  BY <1>1, <1>6
<1>8. Sum(D) = g[x] + Sum(D \ {x})
  BY <1>7
<1> QED BY <1>8 DEF Sum

(* A sum is a sum with one more element's value.                           *)
LEMMA SumAdd ==
    ASSUME NEW g, NEW D, Summable(g, D), NEW x, x \notin D, g[x] \in Int
    PROVE  /\ Summable(g, D \cup {x})
           /\ SumFunctionOnSet(g, D \cup {x}) = g[x] + SumFunctionOnSet(g, D)
<1>1. Summable(g, D \cup {x})
  BY FS_AddElement DEF Summable
<1>2. (D \cup {x}) \ {x} = D
  OBVIOUS
<1>3. SumFunctionOnSet(g, D \cup {x}) =
        g[x] + SumFunctionOnSet(g, (D \cup {x}) \ {x})
  BY <1>1, SumTake
<1> QED BY <1>1, <1>2, <1>3

(* The sum of natural numbers is one, and zero only if all of them are.    *)
LEMMA SumNat ==
    ASSUME NEW g, NEW D, IsFiniteSet(D), \A x \in D : g[x] \in Nat
    PROVE  SumFunctionOnSet(g, D) \in Nat
<1> DEFINE Sum(s) == SumFunctionOnSet(g, s)
           T == {n \in Nat : \A t \in SUBSET D : Cardinality(t) = n => Sum(t) \in Nat}
<1>1. \A t \in SUBSET D : /\ Summable(g, t) /\ IsFiniteSet(t)
                          /\ Cardinality(t) \in Nat
  BY FS_Subset, FS_CardinalityType DEF Summable
<1>2. 0 \in T
  <2> SUFFICES ASSUME NEW t \in SUBSET D, Cardinality(t) = 0
               PROVE  SumFunctionOnSet(g, t) \in Nat
    OBVIOUS
  <2>1. t = {} /\ Summable(g, t)
    BY <1>1, FS_EmptySet
  <2>2. SumFunctionOnSet(g, t) = 0
    BY <2>1, SumStep
  <2> QED BY <2>2
<1>3. ASSUME NEW n \in T
      PROVE  n + 1 \in T
  <2> SUFFICES ASSUME NEW t \in SUBSET D, Cardinality(t) = n + 1
               PROVE  Sum(t) \in Nat
    OBVIOUS
  <2>1. n \in Nat
    OBVIOUS
  <2>2. t # {}
    <3>1. t = {} => Cardinality(t) = 0
      BY FS_EmptySet
    <3> QED BY <2>1, <3>1
  <2>3. PICK x : x \in t
    BY <2>2
  <2>4. t \ {x} \in SUBSET D /\ Cardinality(t \ {x}) = n
    <3>1. Cardinality(t \ {x}) = Cardinality(t) - 1
      BY <1>1, <2>3, FS_RemoveElement
    <3> QED BY <2>1, <3>1
  <2>5. Sum(t \ {x}) \in Nat
    BY <2>4
  <2>6. Sum(t) = g[x] + Sum(t \ {x}) /\ g[x] \in Nat
    BY <1>1, <2>3, SumTake
  <2> HIDE DEF Sum
  <2> QED BY <2>5, <2>6
<1>4. T = Nat
  <2>1. T \in SUBSET Nat
    OBVIOUS
  <2> HIDE DEF T
  <2> QED BY <1>2, <1>3, <2>1, InductionOnSets
<1>5. Cardinality(D) \in T /\ D \in SUBSET D
  BY <1>1, <1>4
<1> QED BY <1>5

LEMMA SumDisjoint ==
    ASSUME NEW g, NEW A, NEW B, Summable(g, A), Summable(g, B), A \cap B = {}
    PROVE  /\ Summable(g, A \cup B)
           /\ SumFunctionOnSet(g, A \cup B) =
                 SumFunctionOnSet(g, A) + SumFunctionOnSet(g, B)
<1> DEFINE Sum(s) == SumFunctionOnSet(g, s)
           T == {n \in Nat : \A t \in SUBSET A : Cardinality(t) = n =>
                    Sum(t \cup B) = Sum(t) + Sum(B)}
<1>1. Summable(g, A \cup B)
  BY FS_Union DEF Summable
<1>2. \A t \in SUBSET (A \cup B) : /\ Summable(g, t) /\ IsFiniteSet(t)
                                 /\ Cardinality(t) \in Nat /\ Sum(t) \in Int
  <2> SUFFICES ASSUME NEW t \in SUBSET (A \cup B)
               PROVE  /\ Summable(g, t) /\ IsFiniteSet(t)
                      /\ Cardinality(t) \in Nat /\ Sum(t) \in Int
    OBVIOUS
  <2>1. Summable(g, t) /\ IsFiniteSet(t)
    BY <1>1, FS_Subset DEF Summable
  <2> QED BY <2>1, FS_CardinalityType, SumStep
<1>3. 0 \in T
  <2> SUFFICES ASSUME NEW t \in SUBSET A, Cardinality(t) = 0
               PROVE  Sum(t \cup B) = Sum(t) + Sum(B)
    OBVIOUS
  <2>1. t = {}
    BY <1>2, FS_EmptySet
  <2>2. Sum(t) = 0 /\ t \cup B = B
    BY <1>2, <2>1, SumStep
  <2>3. Sum(B) \in Int
    BY <1>2
  <2> DEFINE sb == Sum(B)
             st == Sum(t)
  <2>4. st = 0 /\ sb \in Int /\ Sum(t \cup B) = sb
    BY <2>2, <2>3
  <2> HIDE DEF st, sb
  <2>5. Sum(t \cup B) = st + sb
    BY <2>4
  <2> QED BY <2>5 DEF st, sb
<1>4. ASSUME NEW n \in T
      PROVE  n + 1 \in T
  <2> SUFFICES ASSUME NEW t \in SUBSET A, Cardinality(t) = n + 1
               PROVE  Sum(t \cup B) = Sum(t) + Sum(B)
    OBVIOUS
  <2>1. n \in Nat
    OBVIOUS
  <2>2. t # {}
    <3>1. t = {} => Cardinality(t) = 0
      BY FS_EmptySet
    <3> QED BY <2>1, <3>1
  <2>3. PICK x : x \in t
    BY <2>2
  <2>4. t \ {x} \in SUBSET A /\ Cardinality(t \ {x}) = n
    <3>1. Cardinality(t \ {x}) = Cardinality(t) - 1
      BY <1>2, <2>3, FS_RemoveElement
    <3> QED BY <2>1, <3>1
  <2> DEFINE u == t \ {x}
  <2>5. Sum(u \cup B) = Sum(u) + Sum(B)
    BY <2>4
  <2>6. Sum(t) = g[x] + Sum(u)
    BY <1>2, <2>3, SumTake
  <2>7. Sum(t \cup B) = g[x] + Sum(u \cup B)
    <3>1. (t \cup B) \ {x} = u \cup B
      BY <2>3
    <3>2. t \cup B \in SUBSET (A \cup B) /\ x \in t \cup B
      BY <2>3
    <3>3. Summable(g, t \cup B)
      BY <1>2, <3>2
    <3>4. Sum(t \cup B) = g[x] + Sum((t \cup B) \ {x})
      BY <3>2, <3>3, SumTake
    <3> QED BY <3>1, <3>4
  <2>8. g[x] \in Int /\ Sum(u) \in Int /\ Sum(B) \in Int
    BY <1>1, <1>2, <2>3, <2>4 DEF Summable
  <2> DEFINE xx == g[x]
             su == Sum(u)
             sb == Sum(B)
             sub == Sum(u \cup B)
             st == Sum(t)
             stb == Sum(t \cup B)
  <2>9. /\ sub = su + sb /\ st = xx + su /\ stb = xx + sub
        /\ xx \in Int /\ su \in Int /\ sb \in Int
    BY <2>5, <2>6, <2>7, <2>8
  <2> HIDE DEF xx, su, sb, sub, st, stb
  <2>10. stb = st + sb
    BY <2>9
  <2> QED BY <2>10 DEF stb, st, sb
<1>5. T = Nat
  <2>1. T \in SUBSET Nat
    OBVIOUS
  <2> HIDE DEF T
  <2> QED BY <1>3, <1>4, <2>1, InductionOnSets
<1>6. Cardinality(A) \in T /\ A \in SUBSET A
  BY <1>2, <1>5
<1>7. Sum(A \cup B) = Sum(A) + Sum(B)
  BY <1>6
<1> QED BY <1>1, <1>7

(* U is the union of the sets A[k], which share no element and over which  *)
(* g sums up to G[k].                                                      *)
SplitSum(g, U, K, A, G) ==
    /\ IsFiniteSet(K)
    /\ \A k \in K : Summable(g, A[k]) /\ G[k] = SumFunctionOnSet(g, A[k])
    /\ \A k, l \in K : k # l => A[k] \cap A[l] = {}
    /\ \A x : x \in U <=> \E k \in K : x \in A[k]

(* The sum over such a union is the sum of the sums.                       *)
LEMMA SumUnion ==
    ASSUME NEW g, NEW U, NEW K, NEW A, NEW G, SplitSum(g, U, K, A, G)
    PROVE  /\ Summable(g, U) /\ Summable(G, K)
           /\ SumFunctionOnSet(g, U) = SumFunctionOnSet(G, K)
<1> USE DEF SplitSum
<1> DEFINE All(L) == UNION {A[k] : k \in L}
           Same(L) == /\ Summable(g, All(L))
                      /\ SumFunctionOnSet(g, All(L)) = SumFunctionOnSet(G, L)
           T == {n \in Nat : \A L \in SUBSET K : Cardinality(L) = n => Same(L)}
<1>1. \A k \in K : G[k] = SumFunctionOnSet(g, A[k]) /\ G[k] \in Int
  <2> SUFFICES ASSUME NEW k \in K
               PROVE  G[k] \in Int
    OBVIOUS
  <2> DEFINE a == A[k]
  <2>1. Summable(g, a) /\ G[k] = SumFunctionOnSet(g, a)
    OBVIOUS
  <2> HIDE DEF a
  <2>2. SumFunctionOnSet(g, a) \in Int
    BY ONLY <2>1, SumStep
  <2> QED BY <2>1, <2>2
<1>2. \A L \in SUBSET K : IsFiniteSet(L) /\ Cardinality(L) \in Nat /\ Summable(G, L)
  BY <1>1, FS_Subset, FS_CardinalityType DEF Summable
<1>3. 0 \in T
  <2> SUFFICES ASSUME NEW L \in SUBSET K, Cardinality(L) = 0
               PROVE  Same(L)
    OBVIOUS
  <2>1. L = {} /\ All(L) = {}
    BY <1>2, FS_EmptySet
  <2>2. Summable(g, {}) /\ Summable(G, {})
    BY FS_EmptySet DEF Summable
  <2>3. SumFunctionOnSet(g, {}) = 0 /\ SumFunctionOnSet(G, {}) = 0
    BY <2>2, SumStep
  <2> QED BY <2>1, <2>2, <2>3
<1>4. ASSUME NEW n \in T
      PROVE  n + 1 \in T
  <2> SUFFICES ASSUME NEW L \in SUBSET K, Cardinality(L) = n + 1
               PROVE  Same(L)
    OBVIOUS
  <2>1. n \in Nat
    OBVIOUS
  <2>2. L # {}
    <3>1. L = {} => Cardinality(L) = 0
      BY FS_EmptySet
    <3> QED BY <2>1, <3>1
  <2>3. PICK k : k \in L
    BY <2>2
  <2> DEFINE M == L \ {k}
  <2>4. M \in SUBSET K /\ Cardinality(M) = n
    <3>1. Cardinality(L \ {k}) = Cardinality(L) - 1
      BY <1>2, <2>3, FS_RemoveElement
    <3> QED BY <2>1, <3>1
  <2>5. Same(M)
    BY <2>4
  <2>6. All(L) = A[k] \cup All(M)
    BY <2>3
  <2>7. A[k] \cap All(M) = {}
    BY <2>3, <2>4
  <2>8. Summable(g, A[k]) /\ k \in K
    BY <2>3
  <2>9. /\ Summable(g, A[k] \cup All(M))
        /\ SumFunctionOnSet(g, A[k] \cup All(M)) =
              SumFunctionOnSet(g, A[k]) + SumFunctionOnSet(g, All(M))
    <3> DEFINE a == A[k]
               rest == All(M)
    <3>1. Summable(g, a) /\ Summable(g, rest) /\ a \cap rest = {}
      BY <2>5, <2>7, <2>8
    <3> HIDE DEF a, rest
    <3>2. /\ Summable(g, a \cup rest)
          /\ SumFunctionOnSet(g, a \cup rest) =
                SumFunctionOnSet(g, a) + SumFunctionOnSet(g, rest)
      BY ONLY <3>1, SumDisjoint
    <3> QED BY <3>2 DEF a, rest
  <2>10. SumFunctionOnSet(G, L) = G[k] + SumFunctionOnSet(G, M)
    BY <1>2, <2>3, SumTake
  <2> QED
    <3>1. SumFunctionOnSet(g, All(M)) = SumFunctionOnSet(G, M)
      BY <2>5
    <3> HIDE DEF All, M
    <3>2. Summable(g, All(L)) /\ SumFunctionOnSet(g, All(L)) = SumFunctionOnSet(G, L)
      BY <1>1, <2>6, <2>8, <2>9, <2>10, <3>1
    <3> QED BY <3>2
<1>5. T = Nat
  <2>1. T \in SUBSET Nat
    OBVIOUS
  <2> HIDE DEF T
  <2> QED BY <1>3, <1>4, <2>1, InductionOnSets
<1>6. Cardinality(K) \in T /\ K \in SUBSET K
  BY <1>2, <1>5
<1>7. Same(K)
  BY <1>6
<1>8. All(K) = U
  OBVIOUS
<1> QED BY <1>2, <1>6, <1>7, <1>8

(* h goes through the values of g on U in the order w.                     *)
Reorders(g, U, h, K, w) ==
    /\ IsFiniteSet(K)
    /\ \A k \in K : h[k] = g[w[k]] /\ h[k] \in Int
    /\ \A k, l \in K : w[k] = w[l] => k = l
    /\ \A x : x \in U <=> \E k \in K : x = w[k]

(* The order of the addends does not matter.                               *)
LEMMA SumReordered ==
    ASSUME NEW g, NEW U, NEW h, NEW K, NEW w, Reorders(g, U, h, K, w)
    PROVE  SumFunctionOnSet(g, U) = SumFunctionOnSet(h, K)
<1> USE DEF Reorders
<1> DEFINE A == [k \in K |-> {w[k]}]
<1>1. ASSUME NEW k \in K
      PROVE  Summable(g, A[k]) /\ h[k] = SumFunctionOnSet(g, A[k])
  <2> DEFINE x == w[k]
  <2>1. Summable(g, {}) /\ SumFunctionOnSet(g, {}) = 0
    <3>1. Summable(g, {})
      BY FS_EmptySet DEF Summable
    <3> QED BY <3>1, SumStep
  <2>2. h[k] = g[x] /\ h[k] \in Int /\ A[k] = {x}
    OBVIOUS
  <2> HIDE DEF x, A
  <2>3. g[x] \in Int /\ x \notin {}
    BY <2>2
  <2>4. /\ Summable(g, {} \cup {x})
        /\ SumFunctionOnSet(g, {} \cup {x}) = g[x] + SumFunctionOnSet(g, {})
    BY ONLY <2>1, <2>3, SumAdd
  <2>5. g[x] + 0 = g[x] /\ {} \cup {x} = {x}
    BY <2>3
  <2> QED BY <2>1, <2>2, <2>4, <2>5
<1>2. \A k, l \in K : k # l => A[k] \cap A[l] = {}
  OBVIOUS
<1>3. \A x : x \in U <=> \E k \in K : x \in A[k]
  OBVIOUS
<1> HIDE DEF A
<1>4. SplitSum(g, U, K, A, h)
  BY <1>1, <1>2, <1>3 DEF SplitSum
<1> QED BY <1>4, SumUnion

-----------------------------------------------------------------------------
(* FlattenSeq is as long as its sequences together, and begins with the    *)
(* first of them.                                                          *)
Begins(long, s) == Len(s) <= Len(long) /\ \A k \in 1..Len(s) : long[k] = s[k]

LEMMA FlattenedLength ==
    ASSUME NEW S, NEW seqs \in Seq(Seq(S)), Len(seqs) # 0, NEW lens,
           \A i \in DOMAIN seqs : lens[i] = Len(seqs[i])
    PROVE  /\ FlattenSeq(seqs) \in Seq(S)
           /\ Len(FlattenSeq(seqs)) = SumFunctionOnSet(lens, DOMAIN seqs)
           /\ Begins(FlattenSeq(seqs), seqs[1])
<1> DEFINE N == Len(seqs)
           Sum(n) == SumFunctionOnSet(lens, 1..n)
<1>1. /\ N \in Nat /\ N >= 1 /\ DOMAIN seqs = 1..N
      /\ \A i \in 1..N : seqs[i] \in Seq(S) /\ lens[i] = Len(seqs[i]) /\ lens[i] \in Nat
  OBVIOUS
<1>2. PICK flat : FlatBy(seqs, flat)
  BY FlatSteps
<1>3. /\ flat[1] = seqs[1] /\ FlattenSeq(seqs) = flat[N]
      /\ \A i \in 1..N : i # 1 => flat[i] = flat[i - 1] \o seqs[i]
  BY <1>2 DEF FlatBy
<1> HIDE DEF N
<1> DEFINE Long(n) == /\ flat[n] \in Seq(S)
                      /\ Summable(lens, 1..n) /\ Len(flat[n]) = Sum(n)
                      /\ Begins(flat[n], seqs[1])
           T == {n \in Nat : n + 1 <= N => Long(n + 1)}
<1>4. 0 \in T
  <2>1. 1 \in 1..N
    BY <1>1
  <2>2. Summable(lens, {}) /\ SumFunctionOnSet(lens, {}) = 0
    <3>1. Summable(lens, {})
      BY FS_EmptySet DEF Summable
    <3> QED BY <3>1, SumStep
  <2>3. lens[1] \in Int
    BY <1>1, <2>1
  <2>4. /\ Summable(lens, {} \cup {1})
        /\ SumFunctionOnSet(lens, {} \cup {1}) = lens[1] + SumFunctionOnSet(lens, {})
    BY <2>2, <2>3, SumAdd
  <2>5. {} \cup {1} = 1..1 /\ lens[1] + 0 = lens[1]
    BY <2>3
  <2>6. Summable(lens, 1..1) /\ Sum(1) = Len(seqs[1])
    BY <1>1, <2>1, <2>2, <2>4, <2>5
  <2>7. Begins(seqs[1], seqs[1])
    BY <1>1, <2>1 DEF Begins
  <2>8. Long(1)
    BY <1>1, <1>3, <2>1, <2>6, <2>7
  <2> QED BY <2>8
<1>5. ASSUME NEW n \in T
      PROVE  n + 1 \in T
  <2> SUFFICES ASSUME (n + 1) + 1 <= N
               PROVE  Long((n + 1) + 1)
    OBVIOUS
  <2> DEFINE m == n + 1
             i == (n + 1) + 1
  <2>1. /\ n \in Nat /\ Long(m) /\ i \in 1..N /\ i # 1 /\ i - 1 = m
        /\ i \notin 1..m /\ 1..i = (1..m) \cup {i}
    BY <1>1
  <2> HIDE DEF m, i
  <2>2. lens[i] \in Int
    BY <1>1, <2>1
  <2>3. Summable(lens, 1..i) /\ Sum(i) = lens[i] + Sum(m)
    <3> DEFINE D == 1..m
    <3>1. Summable(lens, D) /\ i \notin D /\ 1..i = D \cup {i}
      BY <2>1
    <3> HIDE DEF D
    <3>2. /\ Summable(lens, D \cup {i})
          /\ SumFunctionOnSet(lens, D \cup {i}) = lens[i] + SumFunctionOnSet(lens, D)
      BY <2>2, <3>1, SumAdd
    <3> QED BY <3>1, <3>2 DEF D
  <2>4. flat[i] = flat[m] \o seqs[i]
    BY <1>3, <2>1
  <2> DEFINE a == flat[m]
             c == seqs[i]
             s == seqs[1]
  <2>5. a \in Seq(S) /\ c \in Seq(S) /\ s \in Seq(S) /\ Begins(a, s)
        /\ Len(c) = lens[i] /\ Len(a) = Sum(m) /\ flat[i] = a \o c
    BY <1>1, <2>1, <2>4
  <2> HIDE DEF a, c, s
  <2>6. /\ a \o c \in Seq(S) /\ Len(a \o c) = Len(a) + Len(c)
        /\ \A k \in 1..Len(a) : (a \o c)[k] = a[k]
    <3>1. Len(a) \in Nat /\ Len(c) \in Nat
      BY <2>5
    <3>2. /\ a \o c \in Seq(S) /\ Len(a \o c) = Len(a) + Len(c)
          /\ \A k \in 1..(Len(a) + Len(c)) :
                 (a \o c)[k] = IF k <= Len(a) THEN a[k] ELSE c[k - Len(a)]
      <4>1. a \in Seq(S) /\ c \in Seq(S)
        BY <2>5
      <4> QED BY ONLY <4>1, ConcatProperties, Zenon
    <3>3. \A k \in 1..Len(a) : k \in 1..(Len(a) + Len(c)) /\ k <= Len(a)
      BY <3>1
    <3> QED BY <3>2, <3>3
  <2>7. Len(a) \in Nat /\ Len(c) \in Nat /\ Len(s) \in Nat
    BY <2>5
  <2>8. Begins(a \o c, s)
    BY <2>5, <2>6, <2>7 DEF Begins
  <2>9. Len(a) + Len(c) = Len(c) + Len(a)
    BY <2>7
  <2> QED BY <2>3, <2>5, <2>6, <2>8, <2>9 DEF i, s
<1>6. T = Nat
  <2> HIDE DEF T
  <2>1. T \in SUBSET Nat
    BY DEF T
  <2> QED BY <1>4, <1>5, <2>1, InductionOnSets
<1>7. Long(N)
  <2> HIDE DEF T
  <2>1. N - 1 \in T /\ (N - 1) + 1 = N /\ N <= N
    BY <1>1, <1>6
  <2> QED BY <2>1 DEF T
<1> QED BY <1>1, <1>3, <1>7

=============================================================================
