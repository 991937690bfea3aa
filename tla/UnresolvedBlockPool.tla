------------------------ MODULE UnresolvedBlockPool ------------------------
(***************************************************************************)
(* The pool of blocks a merger has received and not yet confirmed          *)
(* (plugins/chain_plugin/unresolved_block_pool.cpp).                       *)
(*                                                                         *)
(* The pool is a deque of bins, one per height above the confirmed block;  *)
(* a bin is a vector of entries in order of arrival.  An entry points at   *)
(* its parent by the parent's index in the bin below, so every operation   *)
(* has to keep indices and block ids in agreement while blocks arrive in   *)
(* any order, fork, repeat, or name a parent that never comes.             *)
(*                                                                         *)
(* Sequences count from 1 where the code counts from 0: pool[i] is         *)
(* m_block_pool[i - 1], and the code's prev_vec_idx v is prev = v + 1, so  *)
(* prev = 0 stands for the code's -1 ("no previous") and, in bin 1,        *)
(* prev = 1 for its 0 ("linked to the confirmed block").                   *)
(*                                                                         *)
(* Definitions marked "Mutant" are no part of the model: each is a bug one *)
(* could have written in the definition that follows it, and is put in its *)
(* place to see that the properties notice.                                *)
(***************************************************************************)
EXTENDS Integers, Sequences, SequencesExt

CONSTANTS
    Blocks,         \* the blocks the network may deliver
    GenesisId,      \* id of the block the pool starts from
    ConfirmLevel,   \* config::BLOCK_CONFIRM_LEVEL
    MinSignatures,  \* config::MIN_SIGNATURE_COLLECT_SIZE
    MaxSlots        \* bound: block-production intervals the clock may count

(* A block's id is a hash over its height and its parent's id, and its     *)
(* hash is a hash over its id (verifyBlockID, verifyBlockHash): no two     *)
(* inputs collide.  Two blocks may share an id and differ in hash, because *)
(* the id does not cover the transactions.  signers is getNumSigners().    *)
ASSUME BlocksAssumption ==
    /\ \A b \in Blocks :
          /\ b = [id |-> b.id, hash |-> b.hash, height |-> b.height,
                  prev |-> b.prev, signers |-> b.signers]
          /\ b.height \in Nat
          /\ b.signers \in Nat
          /\ b.id # GenesisId
    /\ \A b, c \in Blocks :
          /\ b.id = c.id => b.height = c.height /\ b.prev = c.prev
          /\ b.hash = c.hash => b.id = c.id

ASSUME LevelsAssumption ==
    /\ ConfirmLevel \in Nat
    /\ MinSignatures \in Nat
    /\ MaxSlots \in Nat

VARIABLES
    pool,       \* m_block_pool: bins of entries, bin 1 above the confirmed block
    confirmed,  \* m_latest_confirmed_id, _height and _prev_id
    slots       \* whole BP_INTERVALs between m_latest_confirmed_time and now

vars == <<pool, confirmed, slots>>

Entry == [blk : Blocks, prev : Nat, processed : BOOLEAN]

BlockIds == {b.id : b \in Blocks} \cup {GenesisId}

-----------------------------------------------------------------------------
(* pushBlock                                                               *)

(* The bin a block of this height belongs to (deq_idx, counted from 1).    *)
BinOf(c, b) == b.height - c.height

(* Mutant of Admitted: any height above the confirmed one, at any time.    *)
AdmittedAnyTime(c, s, b) == c.height < b.height

(* prepareDeque accepts a height above the confirmed one, unless the time  *)
(* since the confirmed block has no room for the intervals in between.     *)
Admitted(c, s, b) ==
    /\ c.height < b.height
    /\ BinOf(c, b) - 1 <= s

(* prepareDeque resizes the deque so that bin n exists.                    *)
Grown(p, n) ==
    [i \in 1..(IF Len(p) < n THEN n ELSE Len(p)) |->
        IF i <= Len(p) THEN p[i] ELSE <<>>]

(* Block::operator== compares the height and the hash.                     *)
SameBlock(b, d) == b.height = d.height /\ b.hash = d.hash

(* Mutant of Duplicate: only the bin's latest entry is compared.           *)
DuplicateOfLast(p, c, b) ==
    /\ BinOf(c, b) \in DOMAIN p
    /\ p[BinOf(c, b)] # <<>>
    /\ SameBlock(Last(p[BinOf(c, b)]).blk, b)

Duplicate(p, c, b) ==
    /\ BinOf(c, b) \in DOMAIN p
    /\ \E j \in DOMAIN p[BinOf(c, b)] : SameBlock(p[BinOf(c, b)][j].blk, b)

(* Index in the bin of the first entry with this id, 0 if there is none.   *)
IndexOfId(bin, id) == SelectInSeq(bin, LAMBDA e : e.blk.id = id)

(* Mutant of ParentIndex: the index as it is, not counted from 1.          *)
ParentIndexFromZero(p, c, b) ==
    IF BinOf(c, b) = 1
    THEN IF b.prev = c.id THEN 1 ELSE 0
    ELSE IndexOfId(p[BinOf(c, b) - 1], b.prev) - 1

(* The index the new entry points at: its parent in the bin below or, in   *)
(* bin 1, whether its parent is the confirmed block.                       *)
ParentIndex(p, c, b) ==
    IF BinOf(c, b) = 1
    THEN IF b.prev = c.id THEN 1 ELSE 0
    ELSE IndexOfId(p[BinOf(c, b) - 1], b.prev)

(* A block of bin 1 that does not extend the confirmed block is dropped.   *)
Linkable(c, b) == BinOf(c, b) = 1 => b.prev = c.id

(* Mutant of Adopt: children that came before their parent stay unlinked.  *)
AdoptNone(bin, id, k) == bin

(* Entries that waited for the block id point at its index k from now on.  *)
Adopt(bin, id, k) ==
    [j \in DOMAIN bin |->
        IF bin[j].blk.prev = id /\ bin[j].prev = 0
        THEN [bin[j] EXCEPT !.prev = k]
        ELSE bin[j]]

(* The pool p, wide enough for b, with b appended and its waiting children *)
(* linked to it.                                                           *)
Inserted(p, c, b) ==
    LET n == BinOf(c, b)
        e == [blk |-> b, prev |-> ParentIndex(p, c, b), processed |-> FALSE]
    IN  [i \in DOMAIN p |->
            IF i = n THEN Append(p[i], e)
            ELSE IF i = n + 1 THEN Adopt(p[i], b.id, Len(p[n]) + 1)
            ELSE p[i]]

-----------------------------------------------------------------------------
(* resolveBlock                                                            *)

(* Mutant of TotalSSig: going up from the lowest bin, the signatures of    *)
(* grandchildren never arrive.                                             *)
TotalOfChildren(p) ==
    [i \in DOMAIN p |-> [j \in DOMAIN p[i] |->
        p[i][j].blk.signers +
        IF i = Len(p) THEN 0
        ELSE SumFunctionOnSet([k \in DOMAIN p[i + 1] |-> p[i + 1][k].blk.signers],
                 {k \in DOMAIN p[i + 1] : p[i + 1][k].prev = j})]]

(* updateTotalNumSSig: from the highest bin down, an entry's signatures    *)
(* are its block's and those of every entry that points at it.             *)
TotalSSig(p) ==
    LET sum[i \in 1..Len(p)] ==
            [j \in DOMAIN p[i] |->
                p[i][j].blk.signers +
                IF i = Len(p) THEN 0
                ELSE SumFunctionOnSet(sum[i + 1],
                         {k \in DOMAIN p[i + 1] : p[i + 1][k].prev = j})]
    IN  sum

(* The entry of bin 1, linked to the confirmed block, with the most        *)
(* signatures and at least one; the first of those that have as many.      *)
Heaviest(p, w) ==
    LET sum == TotalSSig(p)[1]
    IN  /\ p[1][w].prev = 1
        /\ sum[w] > 0
        /\ \A k \in DOMAIN p[1] :
              p[1][k].prev = 1 =>
                  sum[k] < sum[w] \/ (sum[k] = sum[w] /\ w <= k)

(* resolveBlock, called after b was pushed, confirms the block at index w  *)
(* of bin 1: b is high enough, and w is the heaviest, has the signatures   *)
(* it needs and has a child.                                               *)
Resolves(p, c, b, w) ==
    /\ b.height - c.height > ConfirmLevel
    /\ Len(p) >= 2
    /\ Heaviest(p, w)
    /\ TotalSSig(p)[1][w] >= MinSignatures
    /\ \E k \in DOMAIN p[2] : p[2][k].prev = w

(* Mutant of Relinked: whatever reaches bin 1 counts as linked.            *)
RelinkedAll(bin, id) == [j \in DOMAIN bin |-> [bin[j] EXCEPT !.prev = 1]]

(* The entries of the bin that becomes bin 1 are linked to the confirmed   *)
(* block or to nothing.                                                    *)
Relinked(bin, id) ==
    [j \in DOMAIN bin |->
        [bin[j] EXCEPT !.prev = IF bin[j].blk.prev = id THEN 1 ELSE 0]]

(* Mutant of Popped: branches that lost are deleted on the way.            *)
PoppedAndPruned(p, w) ==
    [i \in 1..(Len(p) - 1) |->
        IF i = 1
        THEN SelectSeq(Relinked(p[2], p[1][w].blk.id), LAMBDA e : e.prev = 1)
        ELSE p[i + 1]]

(* The pool after the block at index w of bin 1 is confirmed: pop_front,   *)
(* then the new first bin is relinked.                                     *)
Popped(p, w) ==
    [i \in 1..(Len(p) - 1) |->
        IF i = 1 THEN Relinked(p[2], p[1][w].blk.id) ELSE p[i + 1]]

(* Mutant of ConfirmedBy: m_latest_confirmed_height is left as it was.     *)
ConfirmedIdOnly(p, c, w) ==
    [id |-> p[1][w].blk.id, height |-> c.height, prev |-> c.id]

ConfirmedBy(p, c, w) ==
    [id |-> p[1][w].blk.id, height |-> p[1][w].blk.height, prev |-> c.id]

-----------------------------------------------------------------------------
(* setPool at start-up, before the first block.                            *)
Init ==
    /\ pool = <<>>
    /\ confirmed = [id |-> GenesisId, height |-> 0, prev |-> GenesisId]
    /\ slots \in 0..MaxSlots

(* prepareDeque refuses the height, or the block is already in its bin:    *)
(* nothing changes.                                                        *)
Reject(b) ==
    /\ ~Admitted(confirmed, slots, b) \/ Duplicate(pool, confirmed, b)
    /\ UNCHANGED vars

(* The block would be in bin 1 and its parent is not the confirmed block.  *)
(* The deque may have been resized already.                                *)
Drop(b) ==
    /\ Admitted(confirmed, slots, b)
    /\ ~Duplicate(pool, confirmed, b)
    /\ ~Linkable(confirmed, b)
    /\ pool' = Grown(pool, BinOf(confirmed, b))
    /\ UNCHANGED <<confirmed, slots>>

(* The conditions under which pushBlock appends b to the pool.             *)
Accepted(b) ==
    /\ Admitted(confirmed, slots, b)
    /\ ~Duplicate(pool, confirmed, b)
    /\ Linkable(confirmed, b)

WithBlock(b) == Inserted(Grown(pool, BinOf(confirmed, b)), confirmed, b)

(* pushBlock appends b; the resolveBlock that follows confirms nothing.    *)
Push(b) ==
    /\ Accepted(b)
    /\ ~\E w \in DOMAIN WithBlock(b)[1] :
            Resolves(WithBlock(b), confirmed, b, w)
    /\ pool' = WithBlock(b)
    /\ UNCHANGED <<confirmed, slots>>

(* pushBlock appends b, and resolveBlock confirms one block of bin 1.      *)
PushAndResolve(b) ==
    /\ Accepted(b)
    /\ \E w \in DOMAIN WithBlock(b)[1] :
          /\ Resolves(WithBlock(b), confirmed, b, w)
          /\ pool' = Popped(WithBlock(b), w)
          /\ confirmed' = ConfirmedBy(WithBlock(b), confirmed, w)
    /\ UNCHANGED slots

(* setUnresolvedBlock stores the entry a block's transactions produced and *)
(* marks it processed; the entry it was copied from has not moved since.   *)
SetUnresolvedBlock(i, j) ==
    /\ pool' = [pool EXCEPT ![i][j].processed = TRUE]
    /\ UNCHANGED <<confirmed, slots>>

(* The clock passes another BP_INTERVAL.                                   *)
Tick ==
    /\ slots < MaxSlots
    /\ slots' = slots + 1
    /\ UNCHANGED <<pool, confirmed>>

Next ==
    \/ \E b \in Blocks :
          Reject(b) \/ Drop(b) \/ Push(b) \/ PushAndResolve(b)
    \/ \E i \in DOMAIN pool : \E j \in DOMAIN pool[i] :
          SetUnresolvedBlock(i, j)
    \/ Tick

Spec == Init /\ [][Next]_vars

-----------------------------------------------------------------------------
(* The state is well formed: bins of entries, a known confirmed block.     *)
TypeOK ==
    /\ pool \in Seq(Seq(Entry))
    /\ confirmed \in [id : BlockIds, height : Nat, prev : BlockIds]
    /\ slots \in 0..MaxSlots

(* An entry's distance from the confirmed height is the bin that holds it: *)
(* the arithmetic by which pushBlock, setUnresolvedBlock and getPath find  *)
(* an entry stays true across pops and deque growth.                       *)
ByHeight(p, c) ==
    \A i \in DOMAIN p : \A j \in DOMAIN p[i] :
        p[i][j].blk.height = c.height + i

HeightsByBin == ByHeight(pool, confirmed)

(* Above bin 1 an entry points at the first entry of the bin below with    *)
(* its parent's id, and at nothing only while there is none, whatever the  *)
(* order of arrival.  In bin 1 it is linked exactly when its parent is the *)
(* confirmed block.                                                        *)
WellLinked(p, c) ==
    \A i \in DOMAIN p : \A j \in DOMAIN p[i] :
        p[i][j].prev =
            IF i = 1
            THEN IF p[i][j].blk.prev = c.id THEN 1 ELSE 0
            ELSE IndexOfId(p[i - 1], p[i][j].blk.prev)

LinksExact == WellLinked(pool, confirmed)

(* No block is held twice, however often it is delivered.                  *)
NoDuplicates ==
    \A i \in DOMAIN pool : \A j, k \in DOMAIN pool[i] :
        SameBlock(pool[i][j].blk, pool[i][k].blk) => j = k

(* The deque never reaches further above the confirmed block than there    *)
(* were block-production intervals to fill it.                             *)
WithinClock == pool # <<>> => Len(pool) - 1 <= slots

(* A block keeps its height and its index in the bin until its height is   *)
(* confirmed, and is never unprocessed again: what m_head_info and         *)
(* m_longest_chain_info rely on when they keep a vec_idx across calls.     *)
IndicesStable ==
    [][\A i \in DOMAIN pool : \A j \in DOMAIN pool[i] :
          LET m == confirmed.height + i - confirmed'.height
          IN  m >= 1 =>
                /\ m \in DOMAIN pool'
                /\ j \in DOMAIN pool'[m]
                /\ pool'[m][j].blk = pool[i][j].blk
                /\ pool[i][j].processed => pool'[m][j].processed]_vars

(* The confirmed block only ever moves to a child of the confirmed block.  *)
Chain == INSTANCE ConfirmedChain WITH tip <- confirmed

ConfirmedChainOnly == Chain!ChainSpec

(* Seen without bins, indices and totals, the pool keeps exactly the       *)
(* acceptable blocks and confirms the child of the confirmed block with    *)
(* the most signatures among its descendants, counted along parent ids.    *)
Tree ==
    INSTANCE BlockTree WITH
        tip <- confirmed,
        received <- UNION {{e.blk : e \in Range(pool[i])} : i \in DOMAIN pool}

ConfirmsHeaviestBranch == Tree!TreeSpec

=============================================================================
