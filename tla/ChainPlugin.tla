---------------------------- MODULE ChainPlugin ----------------------------
(***************************************************************************)
(* A merger's chain plugin around its unresolved block pool: what the      *)
(* handlers of plugins/chain_plugin/chain_plugin.cpp write to the key-     *)
(* value store and to the relational database, in which order, and what a  *)
(* start after a crash makes of it.                                        *)
(*                                                                         *)
(* A handler changes the pool and then performs its writes one by one;     *)
(* todo holds the writes a thread has still to perform.  The io thread     *)
(* runs the handlers of blocks and of the processing timer one after the   *)
(* other; the main thread pushes the seed blocks of start() while the      *)
(* timer already runs.  A crash loses the pool and every write to come.    *)
(* A write to the relational database may also fail; whoever makes it does *)
(* not ask, and goes on.                                                   *)
(***************************************************************************)
EXTENDS UnresolvedBlockPool

CONSTANTS
    Seeds,      \* the blocks start() pushes, in order
    Stores,     \* the result backups, in the order saveBackupResult has them
    MaxCrashes, \* bound: how often the process dies
    MaxFaults   \* bound: how many writes to the database fail

ASSUME SeedsAssumption == Seeds \in Seq(Blocks)

ASSUME StoresAssumption == Stores \in Seq(Range(Stores))

ASSUME CrashesAssumption == MaxCrashes \in Nat /\ MaxFaults \in Nat

(* The pool's clock starts at time 0: no block is ever too high for it.    *)
ASSUME ClockAssumption == \A b \in Blocks : b.height <= MaxSlots + 1

VARIABLES
    phase,        \* "down", "refused", "seeding" or "up"
    seeded,       \* how many of Seeds start() has pushed
    todo,         \* writes each thread has still to perform
    listed,       \* UNRESOLVED_BLOCK_IDS_KEY: the ids restorePool goes through
    blockBackup,  \* BACKUP_BLOCK: block by id
    resultBackup, \* the other BACKUP_*: the pairs of store and id present
    rows,         \* the blocks table, in order of insertion
    effects,      \* ids of which ledger lists were applied to the database
    failed,       \* the writes that failed with an error of the database
    lost,         \* result writes another thread's clearBatchAll swallowed
    crashes

disk == <<listed, blockBackup, resultBackup, rows, effects, failed, lost>>
pluginVars == <<vars, phase, seeded, todo, disk, crashes>>

Threads == {"main", "io"}
Genesis == [id |-> GenesisId, height |-> 0, prev |-> GenesisId]
SeedIds == {Seeds[n].id : n \in DOMAIN Seeds}
Idle == [t \in Threads |-> <<>>]

(* getPoolBlockIds: the ids of the pool, bin by bin.                       *)
PoolBlockIds(p) ==
    FlattenSeq([i \in DOMAIN p |-> [j \in DOMAIN p[i] |-> p[i][j].blk.id]])

-----------------------------------------------------------------------------
(* The writes of the handlers.                                             *)

SaveBackupBlock(b) == <<[op |-> "block", blk |-> b]>>

(* Mutant of SaveBlockIds: the lowest bin, about to be resolved, is left   *)
(* out of the list.                                                        *)
SaveHigherBlockIds(p) ==
    <<[op |-> "ids", ids |-> IF p = <<>> THEN <<>> ELSE PoolBlockIds(Tail(p))]>>

SaveBlockIds(p) == <<[op |-> "ids", ids |-> PoolBlockIds(p)]>>

(* Mutant of BackUp: the list names a block that has no backup yet.        *)
ListBeforeBackup(b, p) == SaveBlockIds(p) \o SaveBackupBlock(b)

(* The block first, then the list that names it.                           *)
BackUp(b, p) == SaveBackupBlock(b) \o SaveBlockIds(p)

(* Mutant of PerStore: store and key are swapped.                          *)
PerStoreSwapped(op, id) ==
    [k \in DOMAIN Stores |-> [op |-> op, key |-> <<id, Stores[k]>>]]

(* saveBackupResult commits one store after the other, and so does the     *)
(* commitBatchAll of a delBackup (in an order of its own, which makes no   *)
(* difference: a restore needs every store).                               *)
PerStore(op, id) ==
    [k \in DOMAIN Stores |-> [op |-> op, key |-> <<Stores[k], id>>]]

(* Mutant of SaveBackupResult: one of the stores is forgotten.             *)
SaveFirstResult(id) == <<PerStore("result", id)[1]>>

SaveBackupResult(id) == PerStore("result", id)

(* Mutant of ResolveWrites: the effects are applied before the block.      *)
EffectsBeforeRow(p, w) ==
    FlattenSeq([j \in DOMAIN p[1] |-> PerStore("forget", p[1][j].blk.id)])
    \o (IF p[1][w].processed
        THEN <<[op |-> "effects", id |-> p[1][w].blk.id]>>
        ELSE <<>>)
    \o <<[op |-> "row", blk |-> p[1][w].blk]>>

(* Chain::resolveBlock deletes the results of every block of the popped    *)
(* bin; then the resolved block's row, and the effects its processing      *)
(* left in its ledger lists, are applied to the database.                  *)
ResolveWrites(p, w) ==
    FlattenSeq([j \in DOMAIN p[1] |-> PerStore("forget", p[1][j].blk.id)])
    \o <<[op |-> "row", blk |-> p[1][w].blk]>>
    \o (IF p[1][w].processed
        THEN <<[op |-> "effects", id |-> p[1][w].blk.id]>>
        ELSE <<>>)

(* A write reaches its store; but the INSERT of a block that has a row     *)
(* changes nothing.                                                        *)
Perform(w) ==
    /\ listed' = IF w.op = "ids" THEN w.ids ELSE listed
    /\ blockBackup' =
          IF w.op = "block"
          THEN [id \in DOMAIN blockBackup \cup {w.blk.id} |->
                   IF id = w.blk.id THEN w.blk ELSE blockBackup[id]]
          ELSE blockBackup
    /\ resultBackup' = CASE w.op = "result" -> resultBackup \cup {w.key}
                         [] w.op = "forget" -> resultBackup \ {w.key}
                         [] OTHER -> resultBackup
    /\ rows' = IF w.op = "row" /\ \A r \in Range(rows) : r.id # w.blk.id
               THEN Append(rows, w.blk) ELSE rows
    /\ effects' = IF w.op = "effects" THEN Append(effects, w.id) ELSE effects
    /\ UNCHANGED <<failed, lost>>

-----------------------------------------------------------------------------
(* restorePool pushes every listed block, without resolving.  It throws if *)
(* a listed id has no block backup or lacks one of its result backups:     *)
(* from_cbor of an empty string.  The results it reads go to a copy.       *)

HasResults(id) == \A k \in Range(Stores) : <<k, id>> \in resultBackup

Restorable ==
    \A id \in Range(listed) : id \in DOMAIN blockBackup /\ HasResults(id)

(* Mutant of Pushed: a block listed twice is restored twice.               *)
PushedAgain(p, c, b) ==
    IF ~Admitted(c, slots, b) THEN p
    ELSE IF ~Linkable(c, b) THEN Grown(p, BinOf(c, b))
    ELSE Inserted(Grown(p, BinOf(c, b)), c, b)

(* Mutant of Pushed: no block is restored before its parent.               *)
PushedIfLinked(p, c, b) ==
    IF \/ ~Admitted(c, slots, b)
       \/ Duplicate(p, c, b)
       \/ ParentIndex(Grown(p, BinOf(c, b)), c, b) = 0
    THEN p
    ELSE Inserted(Grown(p, BinOf(c, b)), c, b)

(* UnresolvedBlockPool::pushBlock on the pool p above c.                   *)
Pushed(p, c, b) ==
    IF ~Admitted(c, slots, b) \/ Duplicate(p, c, b) THEN p
    ELSE IF ~Linkable(c, b) THEN Grown(p, BinOf(c, b))
    ELSE Inserted(Grown(p, BinOf(c, b)), c, b)

RestoredPool ==
    LET restored[n \in 0..Len(listed)] ==
            IF n = 0 THEN <<>>
            ELSE Pushed(restored[n - 1], Genesis, blockBackup[listed[n]])
    IN  restored[Len(listed)]

-----------------------------------------------------------------------------
(* A machine on which the merger never ran.  The pool's clock starts at    *)
(* time 0, so every height is admitted: slots is at its bound.             *)
PluginInit ==
    /\ pool = <<>> /\ confirmed = Genesis /\ slots = MaxSlots
    /\ phase = "down" /\ seeded = 0 /\ todo = Idle
    /\ listed = <<>> /\ blockBackup = <<>> /\ resultBackup = {}
    /\ rows = <<>> /\ effects = <<>> /\ failed = {} /\ lost = {}
    /\ crashes = 0

(* start(): setPool puts the genesis block in place of the confirmed one,  *)
(* whatever was confirmed before, and restorePool refills the pool.        *)
Start ==
    /\ phase \in {"down", "refused"}
    /\ Restorable
    /\ phase' = "seeding" /\ seeded' = 0
    /\ pool' = RestoredPool /\ confirmed' = Genesis
    /\ UNCHANGED <<slots, todo, disk, crashes>>

(* restorePool throws: nothing catches it and the process ends.            *)
StartThrows ==
    /\ phase \in {"down", "refused"}
    /\ ~Restorable
    /\ phase' = "refused"
    /\ UNCHANGED <<vars, seeded, todo, disk, crashes>>

Seeding(b) ==
    /\ phase = "seeding" /\ todo["main"] = <<>>
    /\ seeded < Len(Seeds) /\ b = Seeds[seeded + 1]

(* start() pushes the next seed.  It backs nothing up.                     *)
PushSeed(b) ==
    /\ Seeding(b)
    /\ Push(b)
    /\ seeded' = seeded + 1
    /\ UNCHANGED <<phase, todo, disk, crashes>>

PushSeedAndResolve(b) ==
    /\ Seeding(b)
    /\ PushAndResolve(b)
    /\ seeded' = seeded + 1
    /\ \E w \in DOMAIN WithBlock(b)[1] :
          /\ Resolves(WithBlock(b), confirmed, b, w)
          /\ todo' = [todo EXCEPT !["main"] = ResolveWrites(WithBlock(b), w)]
    /\ UNCHANGED <<phase, disk, crashes>>

(* start() returns at the first seed that is refused, dropped or already   *)
(* in the pool: the seeds after it are not pushed.                         *)
SeedFails(b) ==
    /\ Seeding(b)
    /\ Reject(b) \/ Drop(b)
    /\ phase' = "up"
    /\ UNCHANGED <<seeded, todo, disk, crashes>>

(* start() returns after its last seed; the net plugin starts next.        *)
AllSeeded ==
    /\ phase = "seeding" /\ todo["main"] = <<>> /\ seeded = Len(Seeds)
    /\ phase' = "up"
    /\ UNCHANGED <<vars, seeded, todo, disk, crashes>>

(* pushBlock, the handler of blocks from the network.                      *)
Receiving == phase = "up" /\ todo["io"] = <<>>

IgnoreBlock(b) ==
    /\ Receiving
    /\ Reject(b) \/ Drop(b)
    /\ UNCHANGED <<phase, seeded, todo, disk, crashes>>

ReceiveBlock(b) ==
    /\ Receiving
    /\ Push(b)
    /\ todo' = [todo EXCEPT !["io"] = BackUp(b, WithBlock(b))]
    /\ UNCHANGED <<phase, seeded, disk, crashes>>

ReceiveAndResolve(b) ==
    /\ Receiving
    /\ PushAndResolve(b)
    /\ \E w \in DOMAIN WithBlock(b)[1] :
          /\ Resolves(WithBlock(b), confirmed, b, w)
          /\ todo' = [todo EXCEPT !["io"] =
                         BackUp(b, WithBlock(b))
                         \o ResolveWrites(WithBlock(b), w)
                         \o SaveBlockIds(Popped(WithBlock(b), w))]
    /\ UNCHANGED <<phase, seeded, disk, crashes>>

(* The timer processes an unprocessed block and processTxResult stores the *)
(* result in the first entry with the block's id.  Which block it picks is *)
(* left open here.                                                         *)
ProcessTxResult(i, j) ==
    /\ phase \in {"seeding", "up"} /\ todo["io"] = <<>>
    /\ ~pool[i][j].processed
    /\ LET id == pool[i][j].blk.id
       IN  /\ SetUnresolvedBlock(i, IndexOfId(pool[i], id))
           /\ todo' = [todo EXCEPT !["io"] = SaveBackupResult(id)]
    /\ UNCHANGED <<phase, seeded, disk, crashes>>

(* A thread performs its next write.                                       *)
Write(t) ==
    /\ todo[t] # <<>>
    /\ Perform(Head(todo[t]))
    /\ todo' = [todo EXCEPT ![t] = Tail(@)]
    /\ UNCHANGED <<vars, phase, seeded, crashes>>

(* The database refuses the INSERT of a block, or all that applies its     *)
(* ledger lists: an error is logged, the false that tells of it is         *)
(* ignored, and the writes after it are made all the same.                 *)
WriteFails(t) ==
    /\ todo[t] # <<>> /\ Head(todo[t]).op \in {"row", "effects"}
    /\ failed' = failed \cup {Head(todo[t])}
    /\ Cardinality(failed') <= MaxFaults
    /\ todo' = [todo EXCEPT ![t] = Tail(@)]
    /\ UNCHANGED <<vars, phase, seeded, listed, blockBackup, resultBackup,
                   rows, effects, lost, crashes>>

(* Both threads are inside commitBatchAll, which locks nothing: what one   *)
(* put into write_batch_map is cleared by the other before it is written.  *)
LoseWrite(t) ==
    /\ \A u \in Threads :
          todo[u] # <<>> /\ Head(todo[u]).op \in {"result", "forget"}
    /\ todo' = [todo EXCEPT ![t] = Tail(@)]
    /\ lost' = IF Head(todo[t]).op = "result"
               THEN lost \cup {Head(todo[t]).key} ELSE lost
    /\ UNCHANGED <<vars, phase, seeded, listed, blockBackup, resultBackup,
                   rows, effects, failed, crashes>>

(* The process dies; what it had in memory is gone.                        *)
Crash ==
    /\ phase \in {"seeding", "up"}
    /\ crashes < MaxCrashes
    /\ crashes' = crashes + 1
    /\ phase' = "down" /\ todo' = Idle /\ pool' = <<>> /\ confirmed' = Genesis
    /\ UNCHANGED <<slots, seeded, disk>>

PluginNext ==
    \/ Start \/ StartThrows \/ AllSeeded \/ Crash
    \/ \E b \in Range(Seeds) :
          PushSeed(b) \/ PushSeedAndResolve(b) \/ SeedFails(b)
    \/ \E b \in Blocks :
          IgnoreBlock(b) \/ ReceiveBlock(b) \/ ReceiveAndResolve(b)
    \/ \E i \in DOMAIN pool : \E j \in DOMAIN pool[i] : ProcessTxResult(i, j)
    \/ \E t \in Threads : Write(t) \/ WriteFails(t) \/ LoseWrite(t)

PluginSpec == PluginInit /\ [][PluginNext]_pluginVars

-----------------------------------------------------------------------------
WriteOp ==
    [op : {"block", "row"}, blk : Blocks]
    \cup [op : {"ids"}, ids : Seq(BlockIds)]
    \cup [op : {"result", "forget"}, key : Range(Stores) \X BlockIds]
    \cup [op : {"effects"}, id : BlockIds]

(* Every store holds what its readers expect; every backup is kept under   *)
(* the id of its block.                                                    *)
PluginTypeOK ==
    /\ TypeOK
    /\ phase \in {"down", "refused", "seeding", "up"}
    /\ seeded \in 0..Len(Seeds)
    /\ todo \in [Threads -> Seq(WriteOp)]
    /\ listed \in Seq(BlockIds)
    /\ \A id \in DOMAIN blockBackup :
          blockBackup[id] \in Blocks /\ blockBackup[id].id = id
    /\ resultBackup \subseteq Range(Stores) \X BlockIds
    /\ rows \in Seq(Blocks) /\ effects \in Seq(BlockIds)
    /\ failed \subseteq WriteOp
    /\ lost \subseteq Range(Stores) \X BlockIds
    /\ crashes \in 0..MaxCrashes

(* Whenever the process dies, restorePool finds the block of every id the  *)
(* list names, seeds excepted: pushBlock backs a block up before it lists  *)
(* it and resolving never deletes a block's backup.                        *)
ListedBlocksAreBackedUp ==
    Range(listed) \subseteq DOMAIN blockBackup \cup SeedIds

(* A block that counts as processed has its results in every store, or the *)
(* write is still to come or was lost to the race of start() and timer.    *)
ResultsReachTheirStores ==
    \A i \in DOMAIN pool : \A j \in DOMAIN pool[i] :
        pool[i][j].processed =>
            \A k \in Range(Stores) :
                LET key == <<k, pool[i][j].blk.id>>
                IN  \/ key \in resultBackup \cup lost
                    \/ \E n \in DOMAIN todo["io"] :
                          todo["io"][n] = [op |-> "result", key |-> key]

(* The effects of a block are in the database only after its row is; a     *)
(* crash, wherever it comes, leaves no effects of a block without a row.   *)
(* Only an error of the database does, which nobody asks about.            *)
RowsBeforeEffects ==
    \A id \in Range(effects) :
        \/ \E r \in Range(rows) : r.id = id
        \/ \E w \in failed : w.op = "row" /\ w.blk.id = id

(* A pool restored after a crash is linked and ordered like one whose      *)
(* blocks were delivered in the first place.                               *)
RestoredPoolIsLinked == HeightsByBin /\ LinksExact /\ NoDuplicates

(* When the handler of a received block is done, the list names exactly    *)
(* the blocks of the pool, in its order.                                   *)
ListFollowsPool ==
    [][(/\ phase = "up" /\ phase' = "up"
        /\ todo["io"] # <<>> /\ todo'["io"] = <<>>
        /\ Head(todo["io"]).op = "ids") =>
           listed' = PoolBlockIds(pool')]_pluginVars

(* A start that succeeds brings every listed block back into the pool.     *)
ListedBlocksComeBack ==
    [][(phase # "seeding" /\ phase' = "seeding") =>
           Range(listed) = Range(PoolBlockIds(pool'))]_pluginVars

(* The backup restores: whatever the process wrote before it died, the     *)
(* next start gets past restorePool.                                       *)
BackupRestores == phase # "refused"

=============================================================================
