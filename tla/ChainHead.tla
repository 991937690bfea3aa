----------------------------- MODULE ChainHead -----------------------------
(***************************************************************************)
(* Which block of the pool is processed next, and where the head is: the   *)
(* longest chain and the head that plugins/chain_plugin/chain.cpp keeps    *)
(* beside the pool, and the timer of chain_plugin.cpp that processes one   *)
(* block after the other.  The main thread pushes the seed blocks of       *)
(* start() while the timer already runs on the io thread.                  *)
(*                                                                         *)
(* m_longest_chain_info and m_head_info name a block by its indices in the *)
(* pool's deque and vector, counted from 0 here as in the code, with -1    *)
(* for none.  The code does not check them, and an index outside the pool  *)
(* is undefined behaviour: here the step then reads one of the values of   *)
(* Outside, or has no outcome at all (the process dies).  guessed keeps    *)
(* the ids of the blocks picked on the strength of such a read: ids,       *)
(* because processTxResult finds the entry to process by the block's id.   *)
(***************************************************************************)
EXTENDS UnresolvedBlockPool

CONSTANTS
    Seeds,  \* the blocks start() pushes, in order
    NoId    \* the empty block id

ASSUME HeadSeedsAssumption == Seeds \in Seq(Blocks)

VARIABLES
    longest,  \* m_longest_chain_info
    head,     \* m_head_info
    seeded,   \* how many seeds start() has pushed
    job,      \* the block the timer is processing, its entry and index
    guessed   \* the ids of the blocks picked by an index outside the pool

headVars == <<vars, longest, head, seeded, job, guessed>>

Nowhere == [id |-> NoId, height |-> 0, deq |-> -1, vec |-> -1]
Idle == [at |-> "idle"]

(* What a step finds outside the pool: an entry without a previous one or  *)
(* with index 0, processed or not, and a word -1 or 0 beside a path.       *)
Outside == [prev : {0, 1}, processed : BOOLEAN, word : {-1, 0}]

Inside(p, d, v) == d + 1 \in DOMAIN p /\ v + 1 \in DOMAIN p[d + 1]
Read(p, o, d, v) == IF Inside(p, d, v) THEN p[d + 1][v + 1] ELSE o

(* The vector indices met going down n bins from (d, v) by prev_vec_idx.   *)
Down(p, o, d, v, n) ==
    LET vec[k \in 0..n] ==
            IF k = 0 THEN v ELSE Read(p, o, d - k + 1, vec[k - 1]).prev - 1
    IN  vec

NonNeg(n) == IF n < 0 THEN 0 ELSE n

-----------------------------------------------------------------------------
(* Mutant of Longer: the chain of whatever block came last.                *)
LatestPushed(l, p, c, b) ==
    [id |-> b.id, height |-> b.height, deq |-> BinOf(c, b) - 1,
     vec |-> Len(p[BinOf(c, b)]) - 1]

(* Chain::pushBlock: a block higher than every block before it ends the    *)
(* longest chain.  p is the pool with b appended, above c.                 *)
Longer(l, p, c, b) ==
    IF l.height < b.height
    THEN [id |-> b.id, height |-> b.height, deq |-> BinOf(c, b) - 1,
          vec |-> Len(p[BinOf(c, b)]) - 1]
    ELSE l

(* Mutant of Lowest: the first unprocessed block met from the top.         *)
HighestUnprocessed(p, o, l) ==
    LET vec == Down(p, o, l.deq, l.vec, NonNeg(l.deq))
        hits == {n \in 0..(l.deq - 1) :
                    ~Read(p, o, l.deq - n, vec[n]).processed}
        n == Min(hits)
    IN  IF hits = {} THEN [deq |-> 0, vec |-> 0, down |-> l.deq]
        ELSE [deq |-> l.deq - n, vec |-> vec[n], down |-> n]

(* getLowestUnprocessedBlock goes down from the end of the longest chain   *)
(* to an unprocessed block whose parent is processed, and answers          *)
(* m_block_pool[0][0] if there is none.                                    *)
Lowest(p, o, l) ==
    LET vec == Down(p, o, l.deq, l.vec, NonNeg(l.deq))
        hits == {n \in 0..(l.deq - 1) :
                    /\ ~Read(p, o, l.deq - n, vec[n]).processed
                    /\ Read(p, o, l.deq - n - 1, vec[n + 1]).processed}
        n == Min(hits)
    IN  IF hits = {} THEN [deq |-> 0, vec |-> 0, down |-> l.deq]
        ELSE [deq |-> l.deq - n, vec |-> vec[n], down |-> n + 1]

(* The walk to the lowest block left the pool.                             *)
Guesses(p, o, l) ==
    LET vec == Down(p, o, l.deq, l.vec, NonNeg(l.deq))
    IN  \E n \in 0..Lowest(p, o, l).down : ~Inside(p, l.deq - n, vec[n])

-----------------------------------------------------------------------------
(* getPath: the vector index of the block and of each of its ancestors, by *)
(* deque index, down to bin 0; only the first if the lowest is not linked. *)
GetPath(p, c, o, id, height) ==
    LET top == height - c.height - 1
        vec == Down(p, o, top, IndexOfId(p[top + 1], id) - 1, top)
    IN  IF top < 0 THEN <<>>
        ELSE IF Read(p, o, 0, vec[top]).prev = 1
        THEN [d \in 0..top |-> vec[top - d]]
        ELSE [d \in {0} |-> vec[top]]

(* moveHead from h to a block: back down to a bin where the head's line    *)
(* meets the block's path, then forward along the path.  It gives up below *)
(* bin 0 without an index, and dies if the line never meets the path, or   *)
(* of a path with a negative size.                                         *)
MoveHead(p, c, o, h, id, height) ==
    LET path == GetPath(p, c, o, id, height)
        onPath(d) == IF d \in DOMAIN path THEN path[d] ELSE o.word
        level == NonNeg(h.height - height)
        last == level + NonNeg(h.deq) + 2
        vec == Down(p, o, h.deq, h.vec, last)
        meets == {n \in level..last :
                     path = <<>> \/ vec[n] = onPath(h.deq - n)}
        gaveUp == {n \in (level + 1)..last : h.deq - n < 0 /\ vec[n] < 0}
        deq == h.deq + height - h.height
        v == IF deq > h.deq - Min(meets) THEN onPath(deq) ELSE vec[Min(meets)]
        ids == IF Inside(p, deq, v) THEN {p[deq + 1][v + 1].blk.id}
               ELSE {NoId, id}
    IN  IF height < c.height THEN {}
        ELSE IF \E n \in gaveUp : \A m \in meets : n <= m THEN {h}
        ELSE IF meets = {} THEN {}
        ELSE [id : ids, height : {height}, deq : {deq}, vec : {v}]

-----------------------------------------------------------------------------
HeadInit ==
    /\ Init /\ slots = MaxSlots
    /\ longest = Nowhere /\ head = Nowhere
    /\ seeded = 0 /\ job = Idle /\ guessed = {}

(* Chain::pushBlock and Chain::resolveBlock: neither m_longest_chain_info  *)
(* nor m_head_info hears of a resolve.                                     *)
PushBlock(b) ==
    /\ Push(b) \/ PushAndResolve(b)
    /\ longest' = Longer(longest, WithBlock(b), confirmed, b)
    /\ UNCHANGED <<head, job, guessed>>

(* The main thread pushes the next seed, whatever the timer is doing.      *)
PushSeed(b) ==
    /\ seeded < Len(Seeds) /\ b = Seeds[seeded + 1]
    /\ PushBlock(b)
    /\ seeded' = seeded + 1

(* start() returns at the first seed that is not taken.                    *)
SeedFails(b) ==
    /\ seeded < Len(Seeds) /\ b = Seeds[seeded + 1]
    /\ Reject(b) \/ Drop(b)
    /\ seeded' = Len(Seeds)
    /\ UNCHANGED <<longest, head, job, guessed>>

(* A block from the network: handled on the io thread, like the timer, and *)
(* only once start() has returned.                                         *)
ReceiveBlock(b) ==
    /\ seeded = Len(Seeds) /\ job = Idle
    /\ \/ PushBlock(b)
       \/ (Reject(b) \/ Drop(b)) /\ UNCHANGED <<longest, head, job, guessed>>
    /\ UNCHANGED seeded

(* The timer fires and procBlock starts on the lowest unprocessed block.   *)
(* With m_block_pool[0][0] processed the code answers nothing.             *)
Monitor(o) ==
    /\ job = Idle
    /\ longest.height > head.height
    /\ LET at == Lowest(pool, o, longest)
       IN  /\ Inside(pool, at.deq, at.vec)
           /\ ~pool[at.deq + 1][at.vec + 1].processed
           /\ job' = [at |-> "procBlock",
                      blk |-> pool[at.deq + 1][at.vec + 1].blk]
    /\ guessed' = guessed \cup
           (IF Guesses(pool, o, longest) THEN {job'.blk.id} ELSE {})
    /\ UNCHANGED <<vars, longest, head, seeded>>

(* procBlock answers nullopt: the timer is set again.                      *)
NoResult ==
    /\ job.at = "procBlock"
    /\ job' = Idle
    /\ UNCHANGED <<vars, longest, head, seeded, guessed>>

(* processTxResult copies the block's entry and moves the head to its      *)
(* parent, unless there is no head yet.                                    *)
CopyEntry(o) ==
    /\ job.at = "procBlock"
    /\ LET b == job.blk
           bin == BinOf(confirmed, b)
           vec == IndexOfId(pool[bin], b.id)
       IN  /\ bin \in DOMAIN pool
           /\ job' = [at |-> "results", entry |-> pool[bin][vec], vec |-> vec]
           /\ IF head.id \in {NoId, b.id}
              THEN UNCHANGED head
              ELSE head' \in MoveHead(pool, confirmed, o, head, b.prev,
                                      b.height - 1)
    /\ UNCHANGED <<vars, longest, seeded, guessed>>

(* With the results, processTxResult puts its copy of the entry back where *)
(* the entry was, and moves the head there.  If a result lacks a member it *)
(* reads, an exception ends the process: this step has no outcome then.    *)
StoreEntry(o) ==
    /\ job.at = "results"
    /\ LET e == [job.entry EXCEPT !.processed = TRUE]
           bin == BinOf(confirmed, e.blk)
       IN  /\ pool' = IF bin < 1 THEN pool
                      ELSE [pool EXCEPT ![bin][job.vec] = e]
           /\ head' \in MoveHead(pool', confirmed, o, head, e.blk.id,
                                 e.blk.height)
    /\ job' = Idle
    /\ UNCHANGED <<confirmed, slots, longest, seeded, guessed>>

HeadNext ==
    \/ \E b \in Range(Seeds) : PushSeed(b) \/ SeedFails(b)
    \/ \E b \in Blocks : ReceiveBlock(b)
    \/ \E o \in Outside : Monitor(o) \/ CopyEntry(o) \/ StoreEntry(o)
    \/ NoResult

HeadSpec == HeadInit /\ [][HeadNext]_headVars

-----------------------------------------------------------------------------
Info == [id : BlockIds \cup {b.prev : b \in Blocks} \cup {NoId},
         height : Nat, deq : Int, vec : Int]

(* The infos are block_pool_infos, the job is one of the three.  The head  *)
(* may have the id of a parent that was never pushed.                      *)
HeadTypeOK ==
    /\ TypeOK
    /\ longest \in Info /\ head \in Info
    /\ seeded \in 0..Len(Seeds)
    /\ guessed \subseteq BlockIds
    /\ \/ job = Idle
       \/ job.at = "procBlock" /\ job.blk \in Blocks
       \/ job.at = "results" /\ job.entry \in Entry /\ job.vec \in Nat \ {0}

(* The end of the longest chain is in the pool, at its index in the bin of *)
(* its height, and no block of the pool is higher: what keeps vec_idx good *)
(* when deq_idx no longer is.                                              *)
LongestIsHighest ==
    longest # Nowhere =>
        LET bin == longest.height - confirmed.height
        IN  /\ Inside(pool, bin - 1, longest.vec)
            /\ pool[bin][longest.vec + 1].blk.id = longest.id
            /\ \A i \in DOMAIN pool : pool[i] # <<>> => i <= bin

(* Unless the timer guessed it, a block is processed only after its parent,*)
(* however the longest chain switches branches meanwhile: its queries read *)
(* the ledgers its parent left.                                            *)
ParentsProcessedFirst ==
    \A i \in DOMAIN pool \ {1} : \A j \in DOMAIN pool[i] :
        pool[i][j].processed /\ pool[i][j].blk.id \notin guessed =>
            /\ pool[i][j].prev # 0
            /\ pool[i - 1][pool[i][j].prev].processed

(* The blocks of the longest chain still in the pool, by its links.        *)
LongestChain ==
    LET n == longest.height - confirmed.height
        vec == Down(pool, [prev |-> 0], n - 1, longest.vec, NonNeg(n - 1))
    IN  {pool[n - k][vec[k] + 1].blk :
            k \in {m \in 0..(n - 1) : Inside(pool, n - 1 - m, vec[m])}}

(* Unless it guesses, the timer picks a block of the longest chain.        *)
PicksFromLongestChain ==
    [][job = Idle /\ job'.at = "procBlock" /\ job'.blk.id \notin guessed' =>
           job'.blk \in LongestChain]_headVars

=============================================================================
