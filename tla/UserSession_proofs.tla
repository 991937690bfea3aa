------------------------- MODULE UserSession_proofs -------------------------
(***************************************************************************)
(* Theorems about UserSession, for every set of users and streams and all  *)
(* bounds.  Types is what every other invariant builds on.                 *)
(***************************************************************************)
EXTENDS UserSession, FiniteSetTheorems, TLAPS

Member == [mode : Modes, key : Nat]
Exchange == [mode : {"joining"}, nonce : Nat, late : BOOLEAN, key : Nat]
StreamState == {"unused", "open", "hung up", "deleted"}

Types ==
    /\ pool \in [Users -> {None} \cup Member]
    /\ temp \in [Users -> {None} \cup Exchange]
    /\ conn \in [Users -> Streams \cup {NoStream}]
    /\ stream \in [Streams -> StreamState]
    /\ nonces \in [Users -> Nat] /\ keys \in [Users -> Nat]
    /\ joins \in [Users -> BOOLEAN]
    /\ registered \in [Users -> Seq(Nat)]
    /\ numSigners \in Int /\ overwritten \in Nat

(* A user is either in none of the modes or in one of them.                *)
LEMMA ModesDiffer ==
    /\ None.mode = "none" /\ None \notin Member /\ None \notin Exchange
    /\ \A e \in Member : e.mode \in Modes
    /\ \A e \in Exchange : e.mode = "joining"
  BY DEF None, Member, Exchange, Modes

LEMMA InitTypes == SessionInit => Types
  BY DEF SessionInit, Types, StreamState

(* Each request keeps the tables what they are.                            *)
LEMMA StepTypes == Types /\ [SessionNext]_sessionVars => Types'
<1> SUFFICES ASSUME Types, [SessionNext]_sessionVars
             PROVE  Types'
  OBVIOUS
<1> USE OwnerAssumption, BoundsAssumption
<1>1. ASSUME NEW u \in Users, Join(u)
      PROVE  Types'
  <2>1. CASE Joining(u)
    <3>1. temp[u].key \in Nat
      BY <2>1, ModesDiffer DEF Joining, Types, Exchange
    <3> QED BY <1>1, <2>1, <3>1 DEF Join, Types, Exchange
  <2>2. CASE ~Joining(u)
    BY <1>1, <2>2 DEF Join, Types, Exchange
  <2> QED BY <2>1, <2>2
<1>2. ASSUME NEW u \in Users, TimePasses(u)
      PROVE  Types'
  <2>1. temp[u] \in Exchange
    BY <1>2, ModesDiffer DEF TimePasses, Joining, Types
  <2>2. [temp[u] EXCEPT !.late = TRUE] \in Exchange
    BY <2>1 DEF Exchange
  <2>3. temp' \in [Users -> {None} \cup Exchange]
    BY <1>2, <2>2 DEF TimePasses, Types
  <2> QED BY <1>2, <2>3 DEF TimePasses, Types
<1>3. ASSUME NEW u \in Users, NEW n \in 1..MaxJoins, Response1(u, n)
      PROVE  Types'
  <2>1. temp[u] \in Exchange
    BY <1>3, ModesDiffer DEF Response1, Joining, Types
  <2>2. keys[u] + 1 \in Nat
    BY DEF Types
  <2>3. [temp[u] EXCEPT !.key = keys[u] + 1] \in Exchange
    BY <2>1, <2>2 DEF Exchange
  <2>4. temp' \in [Users -> {None} \cup Exchange]
    BY <1>3, <2>3 DEF Response1, Types
  <2> QED BY <1>3, <2>2, <2>4 DEF Response1, Types
<1>4. ASSUME NEW u \in Users, NEW k \in 0..MaxKeys, NEW mode \in Modes,
             Success(u, k, mode)
      PROVE  Types'
  <2>1. [mode |-> mode, key |-> k] \in Member
    BY DEF Member
  <2>2. pool' \in [Users -> {None} \cup Member]
    BY <1>4, <2>1 DEF Success, Types
  <2>3. Append(registered[u], k) \in Seq(Nat)
    BY DEF Types
  <2>4. registered' \in [Users -> Seq(Nat)]
    BY <1>4, <2>3 DEF Success, Types
  <2>5. numSigners' \in Int /\ overwritten' \in Nat
    BY <1>4 DEF Success, Types, PushUser
  <2>6. temp' \in [Users -> {None} \cup Exchange]
    BY <1>4 DEF Success, Types, Erased
  <2> QED BY <1>4, <2>2, <2>4, <2>5, <2>6 DEF Success, Types
<1>5. ASSUME NEW s \in Streams, Open(s)
      PROVE  Types'
  BY <1>5 DEF Open, Types, StreamState
<1>6. ASSUME NEW s \in Streams, HangUp(s)
      PROVE  Types'
  BY <1>6 DEF HangUp, Types, StreamState
<1>7. ASSUME NEW s \in Streams, Cancelled(s)
      PROVE  Types'
  <2>1. Owner[s] \in Users
    OBVIOUS
  <2>2. /\ stream' \in [Streams -> StreamState]
        /\ conn' \in [Users -> Streams \cup {NoStream}]
    BY <1>7 DEF Cancelled, Types, StreamState, EraseRpcInfo
  <2>3. /\ pool' \in [Users -> {None} \cup Member]
        /\ temp' \in [Users -> {None} \cup Exchange]
    BY <1>7 DEF Cancelled, Types, RemoveTempUser
  <2>4. joins' \in [Users -> BOOLEAN]
    BY <1>7 DEF Cancelled, Types
  <2>5. numSigners' = numSigners - (IF IsSigner(Owner[s]) THEN 1 ELSE 0)
    BY <1>7 DEF Cancelled, EraseUser
  <2>6. numSigners' \in Int
    BY <2>5 DEF Types
  <2> QED BY <1>7, <2>2, <2>3, <2>4, <2>6 DEF Cancelled, Types
<1>8. ASSUME NEW u \in Users, SuccessUnknown(u)
      PROVE  Types'
  BY <1>8 DEF SuccessUnknown, Types, Exchange
<1>9. CASE UNCHANGED sessionVars
  BY <1>9 DEF sessionVars, Types
<1> QED
  BY <1>1, <1>2, <1>3, <1>4, <1>5, <1>6, <1>7, <1>8, <1>9 DEF SessionNext

-----------------------------------------------------------------------------
(* What a removal and a registration do to the set of signers.             *)
LEMMA SignersOf ==
  Types => /\ Signers \subseteq Users /\ IsFiniteSet(Signers)
           /\ Cardinality(Signers) \in Nat
  BY OwnerAssumption, FS_Subset, FS_CardinalityType DEF Signers

(* The count exceeds the signers by the entries that were replaced.        *)
LEMMA StepSignersCounted ==
  Types /\ SignersCounted /\ [SessionNext]_sessionVars => SignersCounted'
<1> SUFFICES ASSUME Types, SignersCounted, [SessionNext]_sessionVars
             PROVE  SignersCounted'
  OBVIOUS
<1>0. IsFiniteSet(Signers) /\ Cardinality(Signers) \in Nat
  BY SignersOf
<1>1. ASSUME UNCHANGED <<pool, numSigners, overwritten>>
      PROVE  SignersCounted'
  BY <1>1 DEF SignersCounted, Signers, IsSigner
<1>2. ASSUME NEW u \in Users, NEW k \in 0..MaxKeys, NEW mode \in Modes,
             Success(u, k, mode)
      PROVE  SignersCounted'
  <2>1. pool'[u].mode = mode /\ \A v \in Users \ {u} : pool'[v] = pool[v]
    BY <1>2 DEF Success, Types
  <2>2. CASE mode = "signer"
    <3>1. Signers' = Signers \cup {u}
      BY <2>1, <2>2 DEF Signers, IsSigner
    <3>2. Cardinality(Signers') =
            Cardinality(Signers) + IF u \in Signers THEN 0 ELSE 1
      BY <1>0, <3>1, FS_AddElement
    <3>3. u \in Signers <=> IsSigner(u)
      BY DEF Signers
    <3> QED
      BY <1>0, <1>2, <2>2, <3>2, <3>3 DEF Success, PushUser, SignersCounted, Types
  <2>3. CASE mode # "signer"
    <3>1. Signers' = Signers \ {u}
      BY <2>1, <2>3 DEF Signers, IsSigner
    <3>2. Cardinality(Signers') =
            IF u \in Signers THEN Cardinality(Signers) - 1
                             ELSE Cardinality(Signers)
      BY <1>0, <3>1, FS_RemoveElement
    <3>3. u \in Signers <=> IsSigner(u)
      BY DEF Signers
    <3> QED
      BY <1>0, <1>2, <2>3, <3>2, <3>3 DEF Success, PushUser, SignersCounted, Types
  <2> QED BY <2>2, <2>3
<1>3. ASSUME NEW s \in Streams, Cancelled(s)
      PROVE  SignersCounted'
  <2> DEFINE u == Owner[s]
  <2>1. u \in Users
    BY OwnerAssumption
  <2>2. pool' = [pool EXCEPT ![u] = None]
    BY <1>3 DEF Cancelled
  <2>3. Signers' = Signers \ {u}
    BY <2>1, <2>2, ModesDiffer DEF Signers, IsSigner, Types
  <2>4. Cardinality(Signers') =
          IF u \in Signers THEN Cardinality(Signers) - 1
                           ELSE Cardinality(Signers)
    BY <1>0, <2>3, FS_RemoveElement
  <2>5. u \in Signers <=> IsSigner(u)
    BY <2>1 DEF Signers
  <2>6. numSigners' = numSigners - (IF IsSigner(u) THEN 1 ELSE 0)
        /\ overwritten' = overwritten
    BY <1>3 DEF Cancelled, EraseUser
  <2> HIDE DEF u
  <2> QED BY <1>0, <2>4, <2>5, <2>6 DEF SignersCounted, Types
<1> QED
  BY <1>1, <1>2, <1>3 DEF SessionNext, sessionVars, Join, TimePasses, Response1,
                          SuccessUnknown, Open, HangUp

(* The counter of signers, after any number of repeated joins and removals,*)
(* is the number of signers plus the replaced entries.                     *)
THEOREM SignersAlwaysCounted == SessionSpec => []SignersCounted
<1>1. SessionInit => Types /\ SignersCounted
  <2>1. SessionInit => Signers = {}
    BY ModesDiffer DEF SessionInit, Signers, IsSigner
  <2>2. Cardinality({}) = 0
    BY FS_EmptySet
  <2>3. SessionInit => numSigners = 0 /\ overwritten = 0
    BY DEF SessionInit
  <2>4. SessionInit => SignersCounted
    BY <2>1, <2>2, <2>3 DEF SignersCounted
  <2> QED BY <2>4, InitTypes
<1>2. Types /\ SignersCounted /\ [SessionNext]_sessionVars
        => Types' /\ SignersCounted'
  BY StepTypes, StepSignersCounted
<1> QED BY <1>1, <1>2, PTL DEF SessionSpec

-----------------------------------------------------------------------------
(* Only MSG_JOIN begins an exchange that is not late, and only such an     *)
(* exchange brings a user into the pool: what a noticed hang-up removed    *)
(* stays away until then.                                                  *)
THEOREM GoneUsersAlwaysStayGone == SessionSpec => []GoneUsersStayGone
<1>1. SessionInit => Types /\ GoneUsersStayGone
  BY InitTypes, ModesDiffer DEF SessionInit, GoneUsersStayGone, Joining
<1>2. Types /\ GoneUsersStayGone /\ [SessionNext]_sessionVars
        => Types' /\ GoneUsersStayGone'
  <2> SUFFICES ASSUME Types, GoneUsersStayGone, [SessionNext]_sessionVars
               PROVE  GoneUsersStayGone'
    BY StepTypes
  <2>1. ASSUME NEW u \in Users, Join(u)
        PROVE  GoneUsersStayGone'
    <3>1. /\ joins' = [joins EXCEPT ![u] = TRUE] /\ pool' = pool
          /\ \A v \in Users \ {u} : temp'[v] = temp[v]
      BY <2>1 DEF Join, Types
    <3> QED BY <3>1 DEF GoneUsersStayGone, Joining, Types
  <2>2. ASSUME NEW u \in Users, Joining(u), ~temp[u].late, joins' = joins,
               \A v \in Users \ {u} : pool'[v] = pool[v] /\ temp'[v] = temp[v]
        PROVE  GoneUsersStayGone'
    <3>1. joins[u]
      BY <2>2 DEF GoneUsersStayGone
    <3> QED BY <2>2, <3>1 DEF GoneUsersStayGone, Joining
  <2>3. ASSUME NEW u \in Users, TimePasses(u)
        PROVE  GoneUsersStayGone'
    BY <2>2, <2>3 DEF TimePasses, Types
  <2>4. ASSUME NEW u \in Users, NEW n \in 1..MaxJoins, Response1(u, n)
        PROVE  GoneUsersStayGone'
    BY <2>2, <2>4 DEF Response1, Types
  <2>5. ASSUME NEW u \in Users, NEW k \in 0..MaxKeys, NEW mode \in Modes,
               Success(u, k, mode)
        PROVE  GoneUsersStayGone'
    BY <2>2, <2>5 DEF Success, Erased, Types
  <2>8. ASSUME NEW u \in Users, SuccessUnknown(u)
        PROVE  GoneUsersStayGone'
    <3>1. /\ pool' = pool /\ joins' = joins /\ temp'[u].late
          /\ \A v \in Users \ {u} : temp'[v] = temp[v]
      BY <2>8 DEF SuccessUnknown, Types
    <3> QED BY <3>1 DEF GoneUsersStayGone, Joining
  <2>6. ASSUME NEW s \in Streams, Cancelled(s)
        PROVE  GoneUsersStayGone'
    <3> DEFINE u == Owner[s]
    <3>1. u \in Users
      BY OwnerAssumption
    <3>2. /\ pool' = [pool EXCEPT ![u] = None]
          /\ temp' = [temp EXCEPT ![u] = None]
          /\ joins' = [joins EXCEPT ![u] = FALSE]
      BY <2>6 DEF Cancelled, RemoveTempUser
    <3> HIDE DEF u
    <3> QED BY <3>1, <3>2, ModesDiffer DEF GoneUsersStayGone, Joining, Types
  <2>7. ASSUME UNCHANGED <<pool, temp, joins>>
        PROVE  GoneUsersStayGone'
    BY <2>7 DEF GoneUsersStayGone, Joining
  <2> QED
    BY <2>1, <2>3, <2>4, <2>5, <2>6, <2>7, <2>8
       DEF SessionNext, sessionVars, Open, HangUp
<1> QED BY <1>1, <1>2, PTL DEF SessionSpec

(* Both tables are left by the same event, so the connection table never   *)
(* keeps a stream that PushService has deleted.                            *)
THEOREM NeverADanglingStream == SessionSpec => []NoDanglingStream
<1>1. SessionInit => Types /\ NoDanglingStream
  BY InitTypes DEF SessionInit, NoDanglingStream
<1>2. Types /\ NoDanglingStream /\ [SessionNext]_sessionVars
        => Types' /\ NoDanglingStream'
  <2> SUFFICES ASSUME Types, NoDanglingStream, [SessionNext]_sessionVars
               PROVE  NoDanglingStream'
    BY StepTypes
  <2>1. ASSUME UNCHANGED <<conn, stream>>
        PROVE  NoDanglingStream'
    BY <2>1 DEF NoDanglingStream
  <2>2. ASSUME NEW s \in Streams, Open(s)
        PROVE  NoDanglingStream'
    <3>1. /\ Owner[s] \in Users /\ conn \in [Users -> Streams \cup {NoStream}]
          /\ stream \in [Streams -> StreamState]
      BY OwnerAssumption DEF Types
    <3>2. /\ stream[s] = "unused"
          /\ conn' = [conn EXCEPT ![Owner[s]] = s]
          /\ stream' = [stream EXCEPT ![s] = "open"]
      BY <2>2 DEF Open
    <3>3. ASSUME NEW v \in Users, conn'[v] # NoStream
          PROVE  Owner[conn'[v]] = v /\ stream'[conn'[v]] \in {"open", "hung up"}
      <4>1. CASE v = Owner[s]
        BY <3>1, <3>2, <4>1
      <4>2. CASE v # Owner[s]
        <5>1. conn'[v] = conn[v] /\ conn[v] \in Streams
          BY <3>1, <3>2, <3>3, <4>2
        <5>2. Owner[conn[v]] = v /\ stream[conn[v]] \in {"open", "hung up"}
          BY <3>3, <5>1 DEF NoDanglingStream
        <5>3. stream'[conn[v]] = stream[conn[v]]
          BY <3>1, <3>2, <5>1, <5>2
        <5> QED BY <5>1, <5>2, <5>3
      <4> QED BY <4>1, <4>2
    <3> QED BY <3>3 DEF NoDanglingStream
  <2>3. ASSUME NEW s \in Streams, HangUp(s)
        PROVE  NoDanglingStream'
    <3>1. /\ conn' = conn /\ stream' = [stream EXCEPT ![s] = "hung up"]
          /\ stream \in [Streams -> StreamState]
          /\ conn \in [Users -> Streams \cup {NoStream}]
      BY <2>3 DEF HangUp, Types
    <3>2. ASSUME NEW v \in Users, conn[v] # NoStream
          PROVE  Owner[conn[v]] = v /\ stream'[conn[v]] \in {"open", "hung up"}
      <4>1. Owner[conn[v]] = v /\ stream[conn[v]] \in {"open", "hung up"}
        BY <3>2 DEF NoDanglingStream
      <4>2. conn[v] \in Streams
        BY <3>1, <3>2
      <4> QED BY <3>1, <4>1, <4>2
    <3> QED BY <3>1, <3>2 DEF NoDanglingStream
  <2>4. ASSUME NEW s \in Streams, Cancelled(s)
        PROVE  NoDanglingStream'
    <3>1. Owner[s] \in Users
      BY OwnerAssumption
    <3>2. /\ conn' = [conn EXCEPT ![Owner[s]] = NoStream]
          /\ stream' = [stream EXCEPT ![s] = "deleted"]
      BY <2>4 DEF Cancelled, EraseRpcInfo
    <3>3. ASSUME NEW v \in Users, conn'[v] # NoStream
          PROVE  Owner[conn'[v]] = v /\ stream'[conn'[v]] \in {"open", "hung up"}
      <4>1. v # Owner[s] /\ conn'[v] = conn[v]
        BY <3>1, <3>2, <3>3 DEF Types
      <4>2. Owner[conn[v]] = v /\ stream[conn[v]] \in {"open", "hung up"}
        BY <3>3, <4>1 DEF NoDanglingStream
      <4>3. conn[v] # s /\ conn[v] \in Streams
        BY <3>3, <4>1, <4>2 DEF Types
      <4>4. stream'[conn[v]] = stream[conn[v]]
        BY <3>2, <4>3 DEF Types
      <4> QED BY <4>1, <4>2, <4>4
    <3> QED BY <3>3 DEF NoDanglingStream
  <2> QED
    BY <2>1, <2>2, <2>3, <2>4
       DEF SessionNext, sessionVars, Join, TimePasses, Response1, Success,
           SuccessUnknown
<1> QED BY <1>1, <1>2, PTL DEF SessionSpec

-----------------------------------------------------------------------------
(* The keys of u in the pool so far are below the key of its exchange, and *)
(* no user's key is beyond the last it was given.                          *)
KeysBelow(u) ==
    /\ \A i \in DOMAIN registered[u] : registered[u][i] \in 0..keys[u]
    /\ Joining(u) =>
          /\ temp[u].key <= keys[u]
          /\ temp[u].key > 0 =>
                \A i \in DOMAIN registered[u] : registered[u][i] < temp[u].key

KeysInv == KeysRegisteredInOrder /\ \A u \in Users : KeysBelow(u)

(* Each request keeps the keys in order: a new key is above all others, and*)
(* a registered one ends its exchange.                                     *)
LEMMA StepKeys == Types /\ KeysInv /\ [SessionNext]_sessionVars => KeysInv'
<1> SUFFICES ASSUME Types, KeysInv, [SessionNext]_sessionVars
             PROVE  KeysInv'
  OBVIOUS
<1> USE OwnerAssumption, BoundsAssumption
<1>1. ASSUME NEW u \in Users, KeysBelow(u)', UNCHANGED registered,
             \A v \in Users \ {u} : temp'[v] = temp[v] /\ keys'[v] = keys[v]
      PROVE  KeysInv'
  BY <1>1 DEF KeysInv, KeysRegisteredInOrder, KeysBelow, Joining
<1>2. ASSUME NEW u \in Users, Join(u)
      PROVE  KeysInv'
  <2>1. temp'[u].key = IF Joining(u) THEN temp[u].key ELSE 0
    BY <1>2 DEF Join, Types
  <2>2. KeysBelow(u)'
    BY <1>2, <2>1 DEF Join, KeysInv, KeysBelow, Types
  <2> QED BY <1>1, <1>2, <2>2 DEF Join, Types
<1>3. ASSUME NEW u \in Users, TimePasses(u)
      PROVE  KeysInv'
  <2>1. temp'[u].key = temp[u].key
    BY <1>3, ModesDiffer DEF TimePasses, Joining, Types, Exchange
  <2>2. KeysBelow(u)'
    BY <1>3, <2>1 DEF TimePasses, KeysInv, KeysBelow
  <2> QED BY <1>1, <1>3, <2>2 DEF TimePasses, Types
<1>4. ASSUME NEW u \in Users, NEW n \in 1..MaxJoins, Response1(u, n)
      PROVE  KeysInv'
  <2>1. temp'[u].key = keys[u] + 1 /\ keys'[u] = keys[u] + 1 /\ keys[u] \in Nat
    BY <1>4, ModesDiffer DEF Response1, Joining, Types, Exchange
  <2>2. \A i \in DOMAIN registered[u] : registered[u][i] \in 0..keys[u]
    BY DEF KeysInv, KeysBelow
  <2>3. KeysBelow(u)'
    BY <1>4, <2>1, <2>2 DEF Response1, KeysBelow
  <2> QED BY <1>1, <1>4, <2>3 DEF Response1, Types
<1>5. ASSUME NEW u \in Users, NEW k \in 0..MaxKeys, NEW mode \in Modes,
             Success(u, k, mode)
      PROVE  KeysInv'
  <2> DEFINE old == registered[u]
             new == registered'[u]
  <2>1. old \in Seq(Nat) /\ new = Append(old, k) /\ k \in Nat
    BY <1>5 DEF Success, Types
  <2>2. /\ \A i \in DOMAIN old :
              old[i] \in 0..keys[u] /\ (k = 0 \/ old[i] < k)
        /\ k <= keys[u] /\ keys[u] \in Nat
    BY <1>5, <2>1 DEF Success, KeysInv, KeysBelow, Types
  <2>3. /\ Len(old) \in Nat /\ DOMAIN old = 1..Len(old)
        /\ DOMAIN new = 1..(Len(old) + 1) /\ new[Len(old) + 1] = k
        /\ \A i \in DOMAIN old : new[i] = old[i]
    BY <2>1
  <2>4. \A i, j \in DOMAIN new : i < j => new[j] = 0 \/ new[i] < new[j]
    <3>1. \A i, j \in DOMAIN old : i < j => old[j] = 0 \/ old[i] < old[j]
      BY DEF KeysInv, KeysRegisteredInOrder
    <3> HIDE DEF old, new
    <3> QED BY <2>2, <2>3, <3>1
  <2>5. \A i \in DOMAIN new : new[i] \in 0..keys[u]
    <3> HIDE DEF old, new
    <3> SUFFICES ASSUME NEW i \in DOMAIN new
                 PROVE  new[i] \in 0..keys[u]
      OBVIOUS
    <3>1. CASE i = Len(old) + 1
      BY <2>1, <2>2, <2>3, <3>1
    <3>2. CASE i # Len(old) + 1
      <4>1. i \in DOMAIN old
        BY <2>3, <3>2
      <4> QED BY <2>2, <2>3, <4>1
    <3> QED BY <3>1, <3>2
  <2>6. /\ keys' = keys /\ ~Joining(u)'
        /\ \A v \in Users \ {u} :
              temp'[v] = temp[v] /\ registered'[v] = registered[v]
    BY <1>5, ModesDiffer DEF Success, Erased, Joining, Types
  <2>7. \A v \in Users : KeysBelow(v)'
    BY <2>5, <2>6 DEF KeysInv, KeysBelow, Joining
  <2>8. KeysRegisteredInOrder'
    BY <2>4, <2>6 DEF KeysInv, KeysRegisteredInOrder
  <2> QED BY <2>7, <2>8 DEF KeysInv
<1>6. ASSUME NEW s \in Streams, Cancelled(s)
      PROVE  KeysInv'
  <2>1. /\ Owner[s] \in Users /\ ~Joining(Owner[s])'
        /\ \A v \in Users \ {Owner[s]} : temp'[v] = temp[v]
    BY <1>6, ModesDiffer DEF Cancelled, RemoveTempUser, Joining, Types
  <2>2. UNCHANGED <<keys, registered>>
    BY <1>6 DEF Cancelled
  <2>3. KeysBelow(Owner[s])'
    BY <2>1, <2>2 DEF KeysInv, KeysBelow
  <2> QED BY <1>1, <2>1, <2>2, <2>3
<1>7. ASSUME UNCHANGED <<temp, keys, registered>>
      PROVE  KeysInv'
  BY <1>7 DEF KeysInv, KeysRegisteredInOrder, KeysBelow, Joining
<1>8. ASSUME NEW u \in Users, SuccessUnknown(u)
      PROVE  KeysInv'
  <2>1. temp'[u].key = 0 /\ keys' = keys /\ keys[u] \in Nat
    BY <1>8 DEF SuccessUnknown, Types
  <2>2. KeysBelow(u)'
    BY <1>8, <2>1 DEF SuccessUnknown, KeysInv, KeysBelow
  <2> QED BY <1>1, <1>8, <2>2 DEF SuccessUnknown, Types
<1> QED
  BY <1>2, <1>3, <1>4, <1>5, <1>6, <1>7, <1>8
     DEF SessionNext, sessionVars, Open, HangUp

(* A late or repeated MSG_SUCCESS never puts an older key over a newer one.*)
THEOREM KeysAlwaysRegisteredInOrder == SessionSpec => []KeysRegisteredInOrder
<1>1. SessionInit => Types /\ KeysInv
  BY InitTypes, ModesDiffer
     DEF SessionInit, KeysInv, KeysRegisteredInOrder, KeysBelow, Joining
<1>2. Types /\ KeysInv /\ [SessionNext]_sessionVars => Types' /\ KeysInv'
  BY StepTypes, StepKeys
<1>3. KeysInv => KeysRegisteredInOrder
  BY DEF KeysInv
<1> QED BY <1>1, <1>2, <1>3, PTL DEF SessionSpec

-----------------------------------------------------------------------------
(* What SessionTypeOK says of one user.                                    *)
Limits(u) ==
    /\ nonces[u] \in 0..MaxJoins /\ keys[u] \in 0..MaxKeys
    /\ pool[u] = None \/ pool[u] \in [mode : Modes, key : 0..keys[u]]
    /\ temp[u] = None \/
          temp[u] \in [mode : {"joining"}, nonce : 0..nonces[u],
                       key : 0..keys[u], late : BOOLEAN]
    /\ registered[u] \in Seq(0..keys[u])

LEMMA StepLimits ==
  Types /\ (\A u \in Users : Limits(u)) /\ [SessionNext]_sessionVars
      => \A u \in Users : Limits(u)'
<1> SUFFICES ASSUME Types, \A u \in Users : Limits(u),
                    [SessionNext]_sessionVars
             PROVE  \A u \in Users : Limits(u)'
  OBVIOUS
<1> USE OwnerAssumption, BoundsAssumption
<1>1. ASSUME NEW u \in Users, Limits(u)',
             \A v \in Users \ {u} :
                /\ pool'[v] = pool[v] /\ temp'[v] = temp[v]
                /\ nonces'[v] = nonces[v] /\ keys'[v] = keys[v]
                /\ registered'[v] = registered[v]
      PROVE  \A v \in Users : Limits(v)'
  <2> SUFFICES ASSUME NEW v \in Users \ {u}
               PROVE  Limits(v)'
    BY <1>1
  <2>1. Limits(v)
    OBVIOUS
  <2> QED BY <1>1, <2>1 DEF Limits
<1>2. ASSUME NEW u \in Users, Join(u)
      PROVE  \A v \in Users : Limits(v)'
  <2>1. /\ temp'[u] = [mode |-> "joining", nonce |-> nonces[u] + 1, late |-> FALSE,
                       key |-> IF Joining(u) THEN temp[u].key ELSE 0]
        /\ nonces'[u] = nonces[u] + 1
        /\ nonces[u] < MaxJoins /\ nonces[u] \in Nat
    BY <1>2 DEF Join, Types
  <2>2. (IF Joining(u) THEN temp[u].key ELSE 0) \in 0..keys[u]
    <3>1. CASE Joining(u)
      BY <3>1, ModesDiffer DEF Joining, Limits
    <3>2. CASE ~Joining(u)
      BY <3>2 DEF Types
    <3> QED BY <3>1, <3>2
  <2>3. temp'[u] \in [mode : {"joining"}, nonce : 0..nonces'[u],
                      key : 0..keys[u], late : BOOLEAN]
    BY <2>1, <2>2
  <2>4. Limits(u)'
    <3>1. nonces'[u] \in 0..MaxJoins
      BY <2>1
    <3>2. /\ keys[u] \in 0..MaxKeys
          /\ pool[u] = None \/ pool[u] \in [mode : Modes, key : 0..keys[u]]
          /\ registered[u] \in Seq(0..keys[u])
      BY DEF Limits
    <3> QED BY <1>2, <2>3, <3>1, <3>2 DEF Join, Limits
  <2> QED BY <1>1, <1>2, <2>4 DEF Join, Types
<1>3. ASSUME NEW u \in Users, TimePasses(u)
      PROVE  \A v \in Users : Limits(v)'
  <2>1. temp[u] \in [mode : {"joining"}, nonce : 0..nonces[u],
                     key : 0..keys[u], late : BOOLEAN]
    BY <1>3, ModesDiffer DEF TimePasses, Joining, Limits
  <2>2. temp'[u] = [temp[u] EXCEPT !.late = TRUE]
    BY <1>3 DEF TimePasses, Types
  <2>3. temp'[u] \in [mode : {"joining"}, nonce : 0..nonces[u],
                      key : 0..keys[u], late : BOOLEAN]
    BY <2>1, <2>2
  <2>4. Limits(u)'
    <3>1. Limits(u)
      OBVIOUS
    <3> QED BY <1>3, <2>3, <3>1 DEF TimePasses, Limits
  <2> QED BY <1>1, <1>3, <2>4 DEF TimePasses, Types
<1>4. ASSUME NEW u \in Users, NEW n \in 1..MaxJoins, Response1(u, n)
      PROVE  \A v \in Users : Limits(v)'
  <2>1. temp[u] \in [mode : {"joining"}, nonce : 0..nonces[u],
                     key : 0..keys[u], late : BOOLEAN]
    BY <1>4, ModesDiffer DEF Response1, Joining, Limits
  <2>2. /\ temp'[u] = [temp[u] EXCEPT !.key = keys[u] + 1]
        /\ keys'[u] = keys[u] + 1 /\ keys[u] \in Nat /\ keys[u] < MaxKeys
    BY <1>4 DEF Response1, Types
  <2>3. temp'[u] \in [mode : {"joining"}, nonce : 0..nonces[u],
                      key : 0..keys'[u], late : BOOLEAN]
    BY <2>1, <2>2
  <2>4. 0..keys[u] \subseteq 0..keys'[u] /\ keys'[u] \in 0..MaxKeys
    BY <2>2
  <2>5. registered[u] \in Seq(0..keys'[u])
    <3>1. registered[u] \in Seq(0..keys[u])
      BY DEF Limits
    <3> DEFINE old == 0..keys[u]
               new == 0..keys'[u]
    <3>2. registered[u] \in Seq(old) /\ old \subseteq new
      BY <2>4, <3>1
    <3> HIDE DEF old, new
    <3>3. registered[u] \in Seq(new)
      BY <3>2
    <3> QED BY <3>3 DEF new
  <2>6. pool[u] = None \/ pool[u] \in [mode : Modes, key : 0..keys'[u]]
    BY <2>4 DEF Limits
  <2>7. Limits(u)'
    <3>1. nonces[u] \in 0..MaxJoins
      BY DEF Limits
    <3> QED BY <1>4, <2>3, <2>4, <2>5, <2>6, <3>1 DEF Response1, Limits
  <2> QED BY <1>1, <1>4, <2>7 DEF Response1, Types
<1>5. ASSUME NEW u \in Users, NEW k \in 0..MaxKeys, NEW mode \in Modes,
             Success(u, k, mode)
      PROVE  \A v \in Users : Limits(v)'
  <2>1. k \in 0..keys[u]
    <3>1. temp[u] \in [mode : {"joining"}, nonce : 0..nonces[u],
                       key : 0..keys[u], late : BOOLEAN]
      BY <1>5, ModesDiffer DEF Success, Joining, Limits
    <3>2. k = temp[u].key
      BY <1>5 DEF Success
    <3> QED BY <3>1, <3>2
  <2>2. /\ pool'[u] = [mode |-> mode, key |-> k]
        /\ temp'[u] = None
        /\ registered'[u] = Append(registered[u], k)
    BY <1>5 DEF Success, Erased, Types
  <2>3. registered'[u] \in Seq(0..keys[u])
    <3>1. registered[u] \in Seq(0..keys[u])
      BY DEF Limits
    <3> QED BY <2>1, <2>2, <3>1
  <2>4. pool'[u] \in [mode : Modes, key : 0..keys[u]]
    BY <2>1, <2>2
  <2>5. Limits(u)'
    <3>1. nonces[u] \in 0..MaxJoins /\ keys[u] \in 0..MaxKeys
      BY DEF Limits
    <3> QED BY <1>5, <2>2, <2>3, <2>4, <3>1 DEF Success, Limits
  <2> QED BY <1>1, <1>5, <2>5 DEF Success, Erased, Types
<1>6. ASSUME NEW s \in Streams, Cancelled(s)
      PROVE  \A v \in Users : Limits(v)'
  <2> DEFINE u == Owner[s]
  <2>1. u \in Users
    OBVIOUS
  <2>2. /\ pool' = [pool EXCEPT ![u] = None]
        /\ temp' = [temp EXCEPT ![u] = None]
        /\ UNCHANGED <<nonces, keys, registered>>
    BY <1>6 DEF Cancelled, RemoveTempUser
  <2> HIDE DEF u
  <2>3. Limits(u)'
    <3>1. Limits(u)
      BY <2>1
    <3>2. pool'[u] = None /\ temp'[u] = None
      BY <2>1, <2>2 DEF Types
    <3> QED BY <2>2, <3>1, <3>2 DEF Limits
  <2> QED BY <1>1, <2>1, <2>2, <2>3 DEF Types
<1>7. ASSUME UNCHANGED <<pool, temp, nonces, keys, registered>>
      PROVE  \A v \in Users : Limits(v)'
  BY <1>7 DEF Limits
<1>8. ASSUME NEW u \in Users, SuccessUnknown(u)
      PROVE  \A v \in Users : Limits(v)'
  <2>1. /\ temp'[u] = [mode |-> "joining", nonce |-> 0, late |-> TRUE, key |-> 0]
        /\ UNCHANGED <<pool, nonces, keys, registered>>
        /\ nonces[u] \in Nat /\ keys[u] \in Nat
    BY <1>8 DEF SuccessUnknown, Types
  <2>2. temp'[u] \in [mode : {"joining"}, nonce : 0..nonces[u],
                      key : 0..keys[u], late : BOOLEAN]
    BY <2>1
  <2>3. Limits(u)'
    <3>1. Limits(u)
      OBVIOUS
    <3> QED BY <2>1, <2>2, <3>1 DEF Limits
  <2> QED BY <1>1, <1>8, <2>1, <2>3 DEF SuccessUnknown, Types
<1> QED
  BY <1>2, <1>3, <1>4, <1>5, <1>6, <1>7, <1>8
     DEF SessionNext, sessionVars, Open, HangUp

(* Nonces and keys stay among those a user was given, and the signer count *)
(* never goes below zero: it is at least the number of signers.            *)
THEOREM SessionTypeCorrect == SessionSpec => []SessionTypeOK
<1> DEFINE Inv == Types /\ SignersCounted /\ \A u \in Users : Limits(u)
<1>1. SessionInit => Inv
  <2>1. SessionInit => Signers = {}
    BY ModesDiffer DEF SessionInit, Signers, IsSigner
  <2>2. SessionInit => SignersCounted
    <3> SUFFICES ASSUME SessionInit
                 PROVE  SignersCounted
      OBVIOUS
    <3>1. Cardinality(Signers) = 0
      BY <2>1, FS_EmptySet
    <3>2. numSigners = 0 /\ overwritten = 0
      BY DEF SessionInit
    <3> QED BY <3>1, <3>2 DEF SignersCounted
  <2>3. SessionInit => \A u \in Users : Limits(u)
    BY BoundsAssumption DEF SessionInit, Limits
  <2> QED BY <2>2, <2>3, InitTypes
<1>2. Inv /\ [SessionNext]_sessionVars => Inv'
  BY StepTypes, StepSignersCounted, StepLimits
<1>3. Inv => SessionTypeOK
  <2> SUFFICES ASSUME Inv
               PROVE  SessionTypeOK
    OBVIOUS
  <2>1. numSigners \in Nat /\ overwritten \in Nat
    BY SignersOf DEF SignersCounted, Types
  <2>2. nonces \in [Users -> 0..MaxJoins] /\ keys \in [Users -> 0..MaxKeys]
    BY DEF Types, Limits
  <2>3. \A u \in Users :
           /\ pool[u] = None \/ pool[u] \in [mode : Modes, key : 0..keys[u]]
           /\ temp[u] = None \/
                 temp[u] \in [mode : {"joining"}, nonce : 0..nonces[u],
                              key : 0..keys[u], late : BOOLEAN]
           /\ registered[u] \in Seq(0..keys[u])
    BY DEF Limits
  <2>4. /\ conn \in [Users -> Streams \cup {NoStream}]
        /\ stream \in [Streams -> {"unused", "open", "hung up", "deleted"}]
        /\ joins \in [Users -> BOOLEAN]
    BY DEF Types, StreamState
  <2> QED BY <2>1, <2>2, <2>3, <2>4 DEF SessionTypeOK
<1> HIDE DEF Inv
<1> QED BY <1>1, <1>2, <1>3, PTL DEF SessionSpec

=============================================================================
