---------------------------- MODULE UserSession ----------------------------
(***************************************************************************)
(* How a user or signer joins a merger and leaves it: the key exchange of  *)
(* KeyExService and UserPoolManager, the push stream of PushService, and   *)
(* the tables both write.  Every request is served by the io thread in one *)
(* go, so what interleaves are the requests: a client may repeat one, may  *)
(* start over before an earlier exchange has ended, and may open a new     *)
(* stream before the merger has noticed that the old one is gone.          *)
(*                                                                         *)
(* A nonce or a key is the number of it its user was given, 0 the empty one*)
(* that value_or or a new entry of the table supplies.  A request that is  *)
(* refused changes nothing and is not an action, except SuccessUnknown.    *)
(***************************************************************************)
EXTENDS Integers, Sequences, FiniteSets

CONSTANTS
    Users,
    Streams,    \* the push streams, of which
    Owner,      \* each is opened by one user
    MaxSigner,  \* MAX_SIGNER
    MaxJoins,   \* bound: how often a user sends MSG_JOIN
    MaxKeys     \* bound: how often a user is given a key

ASSUME OwnerAssumption == Owner \in [Streams -> Users] /\ IsFiniteSet(Users)
ASSUME BoundsAssumption == {MaxSigner, MaxJoins, MaxKeys} \subseteq Nat

VARIABLES
    pool,         \* user_pool: the mode and the key of each user in it
    numSigners,   \* num_of_signers
    temp,         \* temp_user_pool: the unfinished exchanges
    conn,         \* user_conn_table: the stream of each user
    stream,       \* where each push stream is
    nonces, keys, \* how many of them each user was given
    overwritten,  \* how often a signer's entry was replaced
    joins,        \* whether a user sent MSG_JOIN since it was last removed
    registered    \* the keys of each user that ended up in the pool

sessionVars == <<pool, numSigners, temp, conn, stream, nonces, keys,
                 overwritten, joins, registered>>

None == [mode |-> "none"]
NoStream == "no stream"
Modes == {"user", "signer"}  \* SIGNER_ONLY and ALL count alike

IsSigner(u) == pool[u].mode = "signer"
Signers == {u \in Users : IsSigner(u)}
Joining(u) == temp[u].mode # "none"

SessionInit ==
    /\ pool = [u \in Users |-> None] /\ numSigners = 0
    /\ temp = [u \in Users |-> None]
    /\ conn = [u \in Users |-> NoStream]
    /\ stream = [s \in Streams |-> "unused"]
    /\ nonces = [u \in Users |-> 0] /\ keys = [u \in Users |-> 0]
    /\ overwritten = 0
    /\ joins = [u \in Users |-> FALSE]
    /\ registered = [u \in Users |-> <<>>]

-----------------------------------------------------------------------------
(* MSG_JOIN, unless UserPool::full (which says when it is not): a new      *)
(* nonce and start time.  A key of an earlier exchange stays.              *)
Join(u) ==
    /\ MaxSigner >= numSigners /\ nonces[u] < MaxJoins
    /\ nonces' = [nonces EXCEPT ![u] = @ + 1]
    /\ temp' = [temp EXCEPT ![u] =
          [mode |-> "joining", nonce |-> nonces[u] + 1, late |-> FALSE,
           key |-> IF Joining(u) THEN temp[u].key ELSE 0]]
    /\ joins' = [joins EXCEPT ![u] = TRUE]
    /\ UNCHANGED <<pool, numSigners, conn, stream, keys, overwritten,
                   registered>>

(* JOIN_TIMEOUT_SEC passes after the last MSG_JOIN.                        *)
TimePasses(u) ==
    /\ Joining(u) /\ ~temp[u].late
    /\ temp' = [temp EXCEPT ![u].late = TRUE]
    /\ UNCHANGED <<pool, numSigners, conn, stream, nonces, keys, overwritten,
                   joins, registered>>

(* MSG_RESPONSE_1, signed over nonce n: the merger makes a new key.        *)
Response1(u, n) ==
    /\ Joining(u) /\ ~temp[u].late /\ n = temp[u].nonce
    /\ keys[u] < MaxKeys
    /\ keys' = [keys EXCEPT ![u] = @ + 1]
    /\ temp' = [temp EXCEPT ![u].key = keys[u] + 1]
    /\ UNCHANGED <<pool, numSigners, conn, stream, nonces, overwritten, joins,
                   registered>>

(* Mutant of PushUser: a user who is in the pool already is not counted.   *)
PushUserCountsNew(u, mode) ==
    numSigners + IF mode = "signer" /\ pool[u] = None THEN 1 ELSE 0

(* UserPool::pushUser counts the user again if it is in the pool.          *)
PushUser(u, mode) == numSigners + IF mode = "signer" THEN 1 ELSE 0

(* Mutant of Erased: a finished exchange stays.                            *)
ErasedNever(t, u) == t

(* temp_user_pool.erase                                                    *)
Erased(t, u) == [t EXCEPT ![u] = None]

(* MSG_SUCCESS, authenticated with key k: the user is in the pool.  Nothing*)
(* asks whether MSG_RESPONSE_1 has come: without it the key is the empty   *)
(* one.                                                                    *)
Success(u, k, mode) ==
    /\ Joining(u) /\ ~temp[u].late /\ k = temp[u].key
    /\ pool' = [pool EXCEPT ![u] = [mode |-> mode, key |-> k]]
    /\ numSigners' = PushUser(u, mode)
    /\ overwritten' = overwritten + IF IsSigner(u) THEN 1 ELSE 0
    /\ registered' = [registered EXCEPT ![u] = Append(@, k)]
    /\ temp' = Erased(temp, u)
    /\ UNCHANGED <<conn, stream, nonces, keys, joins>>

(* MSG_SUCCESS of a user with no exchange under way is refused as late, by *)
(* a question that leaves an entry, begun at time 0, in the table.         *)
SuccessUnknown(u) ==
    /\ ~Joining(u)
    /\ temp' = [temp EXCEPT ![u] =
          [mode |-> "joining", nonce |-> 0, late |-> TRUE, key |-> 0]]
    /\ UNCHANGED <<pool, numSigners, conn, stream, nonces, keys, overwritten,
                   joins, registered>>

(* PushService: a client opens its stream; setRpcInfo.                     *)
Open(s) ==
    /\ stream[s] = "unused"
    /\ stream' = [stream EXCEPT ![s] = "open"]
    /\ conn' = [conn EXCEPT ![Owner[s]] = s]
    /\ UNCHANGED <<pool, numSigners, temp, nonces, keys, overwritten, joins,
                   registered>>

(* The client drops the stream; the merger's event is still in the queue.  *)
HangUp(s) ==
    /\ stream[s] = "open"
    /\ stream' = [stream EXCEPT ![s] = "hung up"]
    /\ UNCHANGED <<pool, numSigners, temp, conn, nonces, keys, overwritten,
                   joins, registered>>

(* Mutant of EraseUser: users are discounted like signers.                 *)
EraseUserAny(u) == numSigners - IF pool[u] = None THEN 0 ELSE 1

(* UserPool::eraseUser                                                     *)
EraseUser(u) == numSigners - IF IsSigner(u) THEN 1 ELSE 0

(* Mutant of EraseRpcInfo: only the stream of a user in the pool is erased.*)
EraseRpcInfoOfMember(u) ==
    IF pool[u] = None THEN conn ELSE [conn EXCEPT ![u] = NoStream]

(* eraseRpcInfo asks by the user, not by the stream.                       *)
EraseRpcInfo(u) == [conn EXCEPT ![u] = NoStream]

(* Mutant of RemoveTempUser: an exchange under way goes on.                *)
RemoveTempUserNever(u) == temp

RemoveTempUser(u) == [temp EXCEPT ![u] = None]

(* PushService notices that stream s is gone and removes its user, whether *)
(* the user has a newer stream or not.                                     *)
Cancelled(s) ==
    /\ stream[s] = "hung up"
    /\ stream' = [stream EXCEPT ![s] = "deleted"]
    /\ LET u == Owner[s]
       IN  /\ conn' = EraseRpcInfo(u)
           /\ pool' = [pool EXCEPT ![u] = None]
           /\ numSigners' = EraseUser(u)
           /\ temp' = RemoveTempUser(u)
           /\ joins' = [joins EXCEPT ![u] = FALSE]
    /\ UNCHANGED <<nonces, keys, overwritten, registered>>

SessionNext ==
    \/ \E u \in Users : Join(u) \/ TimePasses(u) \/ SuccessUnknown(u)
    \/ \E u \in Users : \E n \in 1..MaxJoins : Response1(u, n)
    \/ \E u \in Users : \E k \in 0..MaxKeys : \E mode \in Modes :
          Success(u, k, mode)
    \/ \E s \in Streams : Open(s) \/ HangUp(s) \/ Cancelled(s)

SessionSpec == SessionInit /\ [][SessionNext]_sessionVars

-----------------------------------------------------------------------------
(* An exchange has a nonce and a key its user was given, and the count of  *)
(* signers does not go below zero.                                         *)
SessionTypeOK ==
    /\ numSigners \in Nat /\ overwritten \in Nat
    /\ nonces \in [Users -> 0..MaxJoins] /\ keys \in [Users -> 0..MaxKeys]
    /\ \A u \in Users :
          /\ pool[u] = None \/
                pool[u] \in [mode : Modes, key : 0..keys[u]]
          /\ temp[u] = None \/
                temp[u] \in [mode : {"joining"}, nonce : 0..nonces[u],
                             key : 0..keys[u], late : BOOLEAN]
          /\ registered[u] \in Seq(0..keys[u])
    /\ conn \in [Users -> Streams \cup {NoStream}]
    /\ stream \in [Streams -> {"unused", "open", "hung up", "deleted"}]
    /\ joins \in [Users -> BOOLEAN]

(* num_of_signers is too high by the signers that joined again while they  *)
(* were in the pool, and by nothing else: full() never lets a signer in on *)
(* a count that is too low, and the surplus never goes away.               *)
SignersCounted == numSigners = Cardinality(Signers) + overwritten

(* Each key that MSG_RESPONSE_1 made gets into the pool at most once, and  *)
(* never after a later one: a repeated or late MSG_SUCCESS does not bring  *)
(* an older key back.  The empty key of an exchange without MSG_RESPONSE_1 *)
(* has no place in this order.                                             *)
KeysRegisteredInOrder ==
    \A u \in Users : \A i, j \in DOMAIN registered[u] :
        i < j => registered[u][j] = 0 \/ registered[u][i] < registered[u][j]

(* Once a hang-up has been noticed, the user is out of the pool and no     *)
(* message but MSG_JOIN brings it back: what MSG_SUCCESS leaves in the     *)
(* table of exchanges is too late for every other message.                 *)
GoneUsersStayGone ==
    \A u \in Users :
        joins[u] \/ (pool[u] = None /\ (Joining(u) => temp[u].late))

(* The table never leads sendToUser to a stream of another user, or to one *)
(* that PushService has deleted.                                           *)
NoDanglingStream ==
    \A u \in Users :
        conn[u] # NoStream =>
            Owner[conn[u]] = u /\ stream[conn[u]] \in {"open", "hung up"}

=============================================================================
