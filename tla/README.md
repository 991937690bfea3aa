# gruut: specifications and proofs

gruut is the merger node of a blockchain: it receives blocks from other mergers,
keeps the ones that are not final yet in a tree, runs their transactions, and
writes the final ones to a relational database. This directory holds TLA+ models
of that node, the TLC configurations that check them, and proofs checked by the
TLA+ proof system. Paths below are relative to the repository root.

## 1. The system

`src/main.cpp` registers four plugins with the application of `lib/appbase`. They
talk through channels, whose subscribers run on the application's io thread; the
timers run there too. The plugins' `start` runs on the main thread.

| Part | State | Operations | What makes it hard | What makes it correct |
|---|---|---|---|---|
| Unresolved block pool (`chain_plugin/unresolved_block_pool.cpp`) | a deque of bins, one per height above the confirmed block; entries with an index to their parent; the confirmed id and height | `pushBlock`, `resolveBlock`, `setUnresolvedBlock`, `getPath`, `getLowestUnprocessedBlock` | any order of arrival, forks, repeats, indices that shift with every pop | indices agree with block ids; the heaviest child of the confirmed block is confirmed |
| Longest chain, head, timer (`chain.cpp`, `chain_plugin.cpp`) | `m_longest_chain_info`, `m_head_info` | `pushBlock`, `moveHead`, `monitorUnresolvedBlockProcess`, `processTxResult` | positions kept across resolves; seeds pushed by the main thread while the timer runs | blocks are processed after their parents, along the longest chain |
| Backup and restart (`chain_plugin.cpp`, `kv_store.cpp`) | LevelDB: list of pool ids, block and result backups | `saveBackupBlock`, `saveBlockIds`, `saveBackupResult`, `delBackup`, `restorePool` | crash between any two writes; unlocked write batches | what is listed can be restored |
| Relational database (`rdb_controller.cpp`) | tables of blocks, transactions, scopes | `apply*ToRDB`, queries | separate statements without a transaction | effects only of blocks that have a row, or whose row the database refused |
| State tree (`mem_ledger.cpp`) | Merkle tree of ledgers | update and revert along `moveHead` | branch switches | see "Not modelled" |
| Ledger queries (`chain.cpp`) | ledger lists of an entry | `queryCreate`, `queryTransfer`, ... | lookups through unprocessed ancestors and the database | amounts are conserved along a branch |
| Transaction pool (`transaction_pool.cpp`) | map by id | `add`, `fetchAll` | never emptied, not used yet | |
| Block producer, support signatures (`block_producer_plugin`) | pool of signatures, selected signers | `pushSupportSig`, `fetchAll` | copy and clear under separate locks | see "Not modelled" |
| Network services (`net_plugin.cpp`, `rpc_services`) | broadcast table, user streams | merger, user, signer, key exchange, push services | second-hand broadcasts without an id, threads that wait for each other, deadlines | a broadcast goes on as far as its deadlines let it, and ends; a deleted stream is not used |
| User pool and join (`user_pool_manager.hpp`, `user_conn_table.hpp`) | users, exchanges under way, signer count, streams | `MSG_JOIN` ... `MSG_ACCEPT`, cancellation | timeouts, repeats, reconnecting users | a finished or abandoned exchange has no later effect; the count is understood |
| Kademlia (`net_plugin/kademlia`, `net_plugin.cpp`) | k-buckets with replacement nodes | add, split, time out, remove dead, find; refresh | splits under a running refresh; peers that come and go | every peer in the bucket of its key; only failures remove a peer |
| Contract engine (`src/contract`) | conditions, queries and contracts remembered | `procBlock`, `ContractRunner::run` | caches over inputs, transactions and blocks; a database that changes meanwhile | one result for each transaction; who can pay does not change within a block |
| Admin plugin, application framework, message formats | running mode, keys | login, start | order of start-up | |

Vendored and generated code (`include/`, `lib/json`, `lib/tinyxml`, `*.pb.*`) is left aside.
`PROJECT.json` lists every part with its status, and under "hazards" what in this
code is hard to test, at its line.

## 2. The modules

| Module | What it is |
|---|---|
| `ConfirmedChain` | abstract: the confirmed tip moves only to a child of itself |
| `BlockTree` | abstract: the pool as a set of blocks that name their parents, and the fork choice counted along parent ids |
| `UnresolvedBlockPool` | the pool as the code has it, with bins and indices; implements both |
| `UnresolvedBlockPool_proofs` | theorems about it |
| `ChainPlugin` | extends the pool with the key-value store, the database, start, crash and restart |
| `ChainPlugin_proofs` | theorems about it, on top of those about the pool |
| `ChainHead`, `ChainHead_proofs` | extends the pool with the longest chain, the head, and the timer against the seeds of `start`; theorems, on top of those about the pool |
| `RoutingTable`, `RoutingTable_proofs` | the Kademlia table and its refresh; theorems |
| `Broadcast`, `Broadcast_proofs` | a message flooding the mergers, over several nodes; theorems |
| `UserSession` | join, key exchange, push streams and the tables they write |
| `UserSession_proofs` | theorems about it |
| `ContractEngine`, `ContractEngine_proofs` | the engine's answer to a block; theorems |
| `SequenceLemmas` | what the proofs need of sequences, recursive functions and sums; nothing in it is about this code |
| `MC*` | instances for TLC |

**UnresolvedBlockPool.** `pool` is `m_block_pool`, `confirmed` the three
`m_latest_confirmed_*` fields that decide anything, `slots` the whole
`BP_INTERVAL`s between `m_latest_confirmed_time` and now. Indices count from 1, so
`prev = 0` is the code's `prev_vec_idx == -1`; a bin that becomes the lowest is
relinked as the code does, to 1 (the code's 0, "linked to the confirmed block") or
0. One action per outcome of `pushBlock` followed by `resolveBlock`: `Reject`
(height or time refused, or duplicate), `Drop` (not linkable; the deque has been
resized by then), `Push`, `PushAndResolve`; then `SetUnresolvedBlock` and `Tick`.
`cur_vec_idx` is the position in the bin and has no field; `ssig_sum` is recomputed
by every resolve that looks at it and is the function `TotalSSig`. Ledger lists are
left out: no operation of the pool reads them.

**ChainPlugin.** A handler changes the pool and queues its writes in `todo`, in the
order of the code, one element per write to one store; `Write` performs the next
one, so that a crash can fall between any two. `listed`, `blockBackup` and
`resultBackup` are the LevelDB keys, `rows` and `effects` the database (the row of
a block; the five `apply*` calls with its ledger lists as one write). `Start` is
`setPool` and `restorePool`; `StartThrows` the same when a backup is missing.
`LoseWrite` is the race of two threads in `commitBatchAll`, which locks nothing.
`todo` is also what makes seeds (main thread) and results (io thread) interleave.
`WriteFails` is an error of the database: `applyBlockToRDB` catches everything and returns
`false`, `pushBlock` and `start` do not look at it and apply the effects next, each in a session of
its own; `failed` remembers what was refused. The transactions of a block, which are inserted between
its row and its effects, and effects of which only some lists are refused (here they count as applied)
have no state of their own.

**ChainHead.** `longest`, `head` and `job` (the entry `processTxResult` copies before
the queries and writes back after) with the code's indices from 0. The code does not
check its indices. A read outside the pool takes any value of `Outside`, or the step
has no outcome because the process dies; `guessed` remembers the ids of the blocks that
were picked by such a read, and the properties say nothing of those: ids and not blocks,
because `processTxResult` finds the entry by its id, so that of two blocks with
one id the results of either are stored with the first. The seeds are pushed
by the main thread in any interleaving with the timer; blocks from the network are
handled on the io thread, so between two runs of the timer.

**RoutingTable.** A key is a sequence of bits; `buckets` is `m_buckets`, each with the
prefix, the nodes with their failures, and the replacement nodes (`spare`). `WithPeer` is
`addPeer` as a function of the table, `FindNeighbors` the walk to the left and right. A
refresh round is `StartRound`, per bucket `RefreshBucket` (dead nodes go, the others are
asked), per request `Answers` or `TimesOut`, per neighbour `AddNeighbor`, then `EndRound`;
`async` is called for its effect alone, its future waits, so buckets are asked one after the
other. `Announce` is `addPeer` by the tracker's list on the main thread or a `FindNode`
request. A split inserts into the deque the round iterates over: from then on (`torn`)
the round may skip any buckets or end. `ready` is gRPC's state of each channel.

**Broadcast.** Every merger has its table of ids, an `inbox` (the completion queue) and
one io thread, `work`, that serves a call or makes one and waits. A forwarded request has no
id (`NoId`), as in the code. All calls of one loop over the peers, at the origin and at a node that
forwards, share one `ClientContext` with one deadline of 100 ms. `Deadline` is its end while the thread
waits for a peer: that call is over (the request may be served late, or be cancelled unseen), and every
peer the loop has not come to is missed, as the calls fail at once. `NoTimeLeft` is its end between two
calls. `dropped` remembers who was missed or cancelled. gRPC does not document that a context may be used
for a second call; the model takes the loop as the code means it, calls one after the other under one deadline.
A call is `live` as long as its caller waits. A one-hop message also stands for a transaction that
`UserService` sends on. `Forget` is the expiry of an id. `second` and `got` are history.

**UserSession.** The io thread serves one request at a time, so an action is a request:
`Join`, `Response1`, `Success` for the three messages of a client, `Open`, `HangUp` and
`Cancelled` for a push stream. A nonce or a key is the number of it, and 0 the empty one; a message is
accepted if it names the right one, whenever it comes, so repeats and messages of abandoned
exchanges are all there. So is `MSG_SUCCESS` right after `MSG_JOIN`: the code authenticates it with
an empty key (`rpc_services.cpp:353`) and registers the user with it. `TimePasses` is the timeout. What is
refused changes nothing and is no action, with one exception: `isTimeout` indexes the table of exchanges,
so a `MSG_SUCCESS` without an exchange leaves an entry that began at time 0 (`SuccessUnknown`).
`joins`, `registered` and `overwritten` are history.

**ContractEngine.** `ProcBlock` starts a block with a new runner, `Prepare` is what may refuse a
transaction before it runs. `ContractRunner::run` is four steps, as it asks the database up to three times and
the database may change in between: `Run` (period, conditions, input, conditions, get, conditions, fee),
`Charge` for the user and for the author, `Set`. A contract is a record of conditions
and directives, a condition the set of value kinds it looks at. `conds` is
`m_result_cache`, `queries` the query cache of the runner, `contracts` the contract cache of
the process. A get directive reads the contract's scope, or the balance in the scope of the user or the author
(`read`: that this transaction has it in `m_user_scope_table`); `Balance` is `getUserKeyCurrency` with its
fallback to that table when the database answers nothing. An input of another shape than `parseInput` takes for
granted (`Malformed`: not an array of objects, a value that is not a string, a certificate that does not parse)
throws past `run`, `procBlock` and the timer: `InputThrows` ends the process, with no answer for the block, and
`Restart` begins with empty caches. `DatabaseChanges` is the main thread confirming seeds. `used` (what
directives heard, and what was true) and `checks` (who was found able to pay what) are history. The element
`var` of a condition, which reads scopes too, is left out.
Results are as `compose` leaves them; `processTxResult` of `ChainHead` takes results in the
format it reads, which is not that one (hazard at `chain_plugin.cpp:236`).

Assumptions, each a named `ASSUME`: a block's id determines its height and parent,
and its hash its id (`verifyBlockID`, `verifyBlockHash`; hashes do not collide); ids
differ from the genesis id; levels are natural numbers. Two blocks with one id and
different hashes are allowed: the id does not cover the transactions. The converters of
`lib/tethys-utils`, a submodule absent from the repository, are taken to round-trip.

Each module adds what its proofs rest on: `ChainPlugin` that the pool's clock starts at time 0,
as `m_latest_confirmed_time` does, so that no block of the past is too high for it
(`ClockAssumption`); `RoutingTable` that a key has at least one bit and that the limit on
buckets is the number of its bits (`addPeer` has 160, which is `KEYSIZE_BITS`), that sizes are
positive and ids of peers are keys; `Broadcast` that a node's routes never lead to itself (`addPeer`
refuses its own id, `kademlia/routing.cpp:59-61`) and that each message has one origin;
`ContractEngine` that a block is a finite list, and that the database answers yes or no to
whether a contract exists; `UserSession` that each stream has one owner. Where a bound is a
constant (crashes, faults, joins, keys) it is any natural number. `ContractEngine` also takes balances for
integers or nothing, fees for integers, and users and authors from `Users`.

## 3. The runs

| Run | Question | Bounds | Result |
|---|---|---|---|
| `pool` | do indices and ids agree, and do confirmed blocks form a chain, in any order of arrival? | 8 blocks of heights 1-4, two branches, a same-id twin, a block two heights above its parent; confirm level 2; 3 slots | holds, 64080 states |
| `fork_choice` | does the pool implement `BlockTree`? | 6 blocks, weights that tie or change with what has arrived; confirm level 2 | holds, 4405 states |
| `durability` | what do crash and restart find? | 2 seeds, 4 heights, one block twice with one id, 2 result stores, 1 crash, no refused writes, confirm level 1 | holds, 2.5 million states |
| `partial_seeding` | what if `start` gives up at a seed and the rest comes from the network, and the database refuses writes? | 3 seeds, the second of another chain, 1 more block, 2 stores, 2 crashes, 2 refused writes | holds, 21480 states |
| `backup_restores` | can the backup always be restored? | as `durability` | violated, see below |
| `processing_order` | where is the longest chain's end, and are parents processed first? | 8 seeds of two branches, two before their parents, a same-id twin, 2 blocks from the network, confirm level 2 | holds, 10993 states |
| `routing` | who is in which bucket, who leaves, what is found? | 4 peers and 4-bit keys, two peers with one key, buckets of 1 node and 1 replacement, stale after 1 failure, one peer whose channel comes and goes | holds, 51192 states |
| `broadcast` | who gets a broadcast, and does the flood end? | 3 mergers: `left` calls `middle` and `right`, `middle` calls `right` and `left`, `right` calls `middle`; a broadcast of `left`, one of `right`, a one-hop message; one fault: a forgotten id, a cancelled call, or a deadline that passes while nobody waits in a circle | holds, 296963 states |
| `user_session` | what do repeated, late and abandoned exchanges, empty keys and cancelled streams leave behind? | 2 users, one of which reconnects, 2 joins, 3 keys, signer limit 1 | holds, 3.7 million states |
| `contract` | is every transaction answered, and who can pay? | 4 contracts, two of which share condition ids, 13 blocks of up to 3 transactions, 4 database states, an input that throws | holds, 23412 states |
| `condition_cache` | does a directive see its condition as it is? | as above | violated, see below |
| `longest_chain_pick` | is the block picked on the longest chain? | as above | violated, see below |

Why the bounds are enough: what the pool does depends on bins 1 and 2, on the bins
above only through totals and links, and on a height only relative to the confirmed
one. Three heights above a confirmed block, with two confirmations on the way, make
every kind of entry (linked, waiting for its parent, orphaned by a confirmation, twin)
meet every operation. Confirm levels 1 and 2 instead of the configured 3 only make
confirmation happen with fewer blocks. Two result stores show any order effect that five
would: each is written and deleted independently. One crash at every point of every
handler reaches all that a first restart can find; `partial_seeding` adds a second.

The network and the engine: keys of 4 bits let the table reach its largest number of
buckets, with a bucket in the middle that splits too; with 1 node a bucket is full at once. The three mergers
of `broadcast` have two that call two peers in one loop, one of them the origin, so that a deadline can pass
before the second; `middle` and `right` call each other, and so do `left` and `middle`, so that threads wait in
circles; and `right` knows `left` only through `middle`. Every answer, timeout and late copy can cross, and a
fault budget of 1 is what separates each hazard from the next. Two joins are an exchange and one that
replaces it or follows a reconnect, and with three keys an exchange can be given a second key. The blocks of
`contract` make every reason for a failure occur, also those before and after an input that throws, and
both ways round for a balance that is read from the scope.

`broadcast` and `user_session` do not check for deadlock: the net falls silent when all is sent,
and a session ends when the bounds on joins, keys and streams are used up.
`processing_order` does not check for deadlock: with the lowest block processed and
none to pick, `getLowestUnprocessedBlock` has no defined answer and the model has no
step. The other runs do.

Liveness and fairness. `routing` assumes weak fairness of a round's steps: the timer is set
again at the end of every round, every request has a deadline and answers are finite. Under it
a peer that stays down leaves the nodes again and again (`DeadPeersLeave`), although others keep
naming it. `broadcast` assumes weak fairness of what a node's thread can do (its timer polls the
queue for ever) and of the deadline of a loop. Under it the flood ends although threads
wait for each other in circles (`FloodEnds`); a direct peer of the origin gets the message
unless the deadline passed before it was called, or the call was cancelled in the queue (`PeersGetBroadcasts`).
Of a node further on the same is true only while the net has one broadcast (`LoneBroadcastGoesOn`). With
two, the empty id of the first second-hand copy hides the next: `SecondHandOnce` says exactly how
many get through. That every merger gets a broadcast is not true even of one alone: a node that forwards calls
the node it was called by, too, which waits for it; that call lasts until the deadline, and peers
after it in the loop are never reached.
Nothing is assumed about sending, faults, or clients. The chain models assume no
fairness: what the code promises to happen there (a block is confirmed, a block is processed)
depends on blocks continuing to arrive, and no run states it.

Some invariants state what the code does where one might expect more. `SignersCounted`: the count is too
high by the signers that registered again, for good. `NoDanglingStream` and `GoneUsersStayGone`: a late
cancellation removes a user's newer stream with the old one and leaves nothing dangling; the entry a late
`MSG_SUCCESS` makes stays until the next `MSG_JOIN` or cancellation. `KeysRegisteredInOrder`: it orders the keys
the merger made, and the empty key may be registered any number of times. `RowsBeforeEffects`: a row the database refused
does not hold the effects back. `EveryTxAnswered`: all transactions of a block are answered, or none.
`VerdictsAgree`: each fee alone, not their sum, is compared with the balance; two users' balances may be of different
moments; and a user without a balance in the database may pay in the transaction that read the scope when there
was one, and not in another.

### Findings

- `BackupRestores` fails. `saveBlockIds` lists every block of the pool, but `start`
  saves no backup of the seeds it pushes, and the result backups of a block exist only
  after its processing and before its confirmation. `restorePool` reads all of them, and
  `from_cbor` throws on the empty string of a missing key; nothing catches it, and the next
  start finds the same. The header calls this part "unresolved block pool backup / restore".
- `PicksFromLongestChain` fails. As long as no block of the longest chain is processed,
  `getLowestUnprocessedBlock` returns `m_block_pool[0][0]`, the first block to arrive in the
  lowest bin, on whatever branch. The comment at its caller says it returns the lowest
  unprocessed block of the longest chain. Once that block is processed, the branch of
  the longest chain is never entered.

- `DirectivesSeeValues` fails. A condition whose values have changed is evaluated again, but the
  result is inserted into a map that has an entry already, which `insert` leaves as it is, and
  the directives read the entry. Since every condition is first evaluated before the input is
  parsed, a condition on the input stays false for the whole block; two contracts of a block
  that use one condition id share the first one's result.

## 4. The proofs

`UnresolvedBlockPool_proofs` proves, for every set of blocks and all levels that meet the
assumptions, that `TypeOK`, `HeightsByBin` and `LinksExact` are invariants of `Spec` and
that `Spec` implements `ConfirmedChain` (`ConfirmedChainOnly`).

None of the three is inductive alone: `ConfirmedBy` sets the height of the confirmed block
from an entry, and only `HeightsByBin` says it grows by one; that a block of bin 1
with `prev = 1` is a child of the confirmed block, which `ConfirmedChain` needs, is the
bin 1 case of `LinksExact`; and `LinksExact` survives `Adopt` only because heights and bins
agree. The invariant `IInv` is their conjunction. The lemmas follow the operators: what
`IndexOfId` returns, that `Grown` adds only empty bins, what `Inserted` and `Popped` do to
types, heights and links; the step theorem has a case per action. The refinement uses
`IInv` in the step that confirms; every other step stutters.

*The fork choice.* `AlwaysConfirmsHeaviest` is the refinement of `BlockTree`, for any blocks, weights
and levels: what `pushBlock` and `resolveBlock` do with bins, indices and the running totals of
`updateTotalNumSSig` is to keep every acceptable block and to confirm the child of the confirmed
block with the most signatures behind it, counted along parent ids. Blocks received are those the pool
holds (`Held`), the heir of an id is its first block in the bin (`HeirOf`), where `IndexOfId` leads. The
argument, from `IInv` and `NoDuplicates`:

- a line of descent goes down one height at a time and is settled height by height (`LinesExist`,
  `Descends`), so what is behind a block is the block and, for each child, what is behind
  that child, and no two of these share a block (`BehindIs`);
- `LinksExact` makes `prev` of an entry the place of its block's parent (`PrevIsParent`), so that the
  entries pointing at an entry are its block's children (`KidsOfEntry`);
- then an entry's support is its signers and the sum of the supports of what points at it
  (`SupportOfEntry`), which is what `TotalSSig` adds up from the last bin to the first: totals are
  supports by induction from the top (`TotalsAreSupports`);
- `HeaviestIsChosen` puts these into the guard of the step that confirms.

The sums are finite sums of `SequenceLemmas`: in whatever order a set is added up, and over however many disjoint
parts, the sum is the same (`SumTake`, `SumDisjoint`, `SumUnion`).

`UserSession_proofs` proves, for every finite set of users, every set of streams and all
bounds, `SignersCounted`, `GoneUsersStayGone`, `NoDanglingStream` and
`KeysRegisteredInOrder`. It assumes that each stream has one owner and there are finitely many users (`OwnerAssumption`) and
that the bounds are natural numbers (`BoundsAssumption`). All four rest on `Types`, what the
tables hold; with it the first three are inductive, `SignersCounted` by counting how a
registration or a removal changes the set of signers. `KeysRegisteredInOrder` needs `KeysBelow`:
the keys a user has in the pool are below the key of its exchange, and no key is beyond
the last the user was given, so that a new key is above all of them.

`SessionTypeOK` adds that nonces and keys stay among those a user was given (`Limits`, one user
at a time) and that the signer count never goes below zero, which follows from `SignersCounted`:
the count is at least the size of a finite set.

*More about the pool.* `NoDuplicates` is inductive beside `IInv`: `pushBlock` looks for the
block's id and hash in its bin before it appends. `WithinClock` says that the deque is
never longer than the clock allows: `prepareDeque` asks the clock before it resizes, and a pop shortens. `IndicesStable`
is proved per action from `IInv`: an append leaves the other places, `Popped` shifts whole bins, and
relinking changes a link and no place.

`ChainPlugin_proofs` covers any list of seeds, any stores, any number of crashes and of refused writes, and proves
every property of the runs `durability` and `partial_seeding`. It takes the
pool's lemmas over, since each handler does what a pool action does and then queues writes.
`Base` is the pool's invariant with the types of the stores and queues: it needs that a
restored pool is linked again whatever was listed and backed up, which is an induction over the
list of `RestorePool`, with a lemma for one block of it. On it stand
four invariants, each about what is still queued:

- `OrderInv` for `ListedBlocksAreBackedUp` and `RowsBeforeEffects`. Neither is inductive, since a
  queued write may be about to break it; `InOrder` says of each thread's queue that every write
  finds what it presupposes in the stores, among the rows that were refused, or earlier in the same queue, and `PoolBacked` that this
  is so of every block of the pool. A crash empties the queues and takes nothing from the stores.
- `ResultsInv` for `ResultsReachTheirStores`: the results of each processed block are stored,
  queued, or lost to the race (`DoneReach`), and results are deleted only of blocks
  that have left the pool (`ForgetsConfirmed`).
- `ListIsCurrent` for `ListFollowsPool`: the list last in the queue is that of the pool now.
- `BackupsRestartable` for `ListedBlocksComeBack`: a block that was accepted once is acceptable
  above the genesis block, where every start begins.

`Broadcast_proofs` covers any number of nodes, any routes and messages. What a thread awaits is in another's
inbox or hands. `Awaited` says both ways round that a node awaits an answer exactly if one live call of it exists, at
one place; `Disciplined` that no call comes from the node it is made to and that only the origin's have an id. Both with
the types `NetTypes` are `BcInv`, from which `BcTypeOK` follows. `SecondHandOnce` needs `SecondHandFiled` beside it:
the copies a node has handled and is handling are no more than the times it forgot the empty id, and one more only while
that id is in its table.

`ContractEngine_proofs` covers any documents, blocks and databases. What a runner remembers
only grows (`Remembers`, and `Continues` for one transaction), so `EngineInv` says of each transaction answered that its
result is right by the contracts remembered now (`ResultOf`), of the one under way what its stage has established
(`UpNow`), and of each check of a payer that it is what `Balance` makes of the answers remembered now (`Purses`).
`EveryTxAnswered` is read off it; so is `VerdictsAgree`: two checks of one payer are made of the same two answers and can
only differ in whether the scope had been read.

`RoutingTable_proofs` covers keys of any length, any peers and any sizes. `OneBucketPerKey` is not
inductive, since nothing in it keeps a split from making a prefix as long as a key. `RtInv`
adds that every prefix has fewer bits than the table has buckets: a split makes one bucket more and
prefixes one bit longer, and `addPeer` stops at `MaxBuckets`. With it, a split divides keys, nodes
and replacement nodes of a bucket between its halves (`Partition`, `InPlace`), whatever the
refresh under way is doing. `OnlyFailuresRemovePeers` is proved per action from `RtInv`:
what leaves the table was dead when the bucket was refreshed, or was the peer asked.

`NeighborsComplete` is read off a table that meets `RtInv` (`AnswerIsComplete`), but needs an invariant of
the walk inside `findNeighbors`: it has seen the buckets from `left` to before `right`, each
once and the key's own first (`Walked`), and each step sees one more until both ends are reached
(`WalkGoesOn`). After twice as many steps as there are buckets the walk is a permutation of them
(`WalkSeesAll`); the answers joined together are as long as their lengths add up to
(`FlattenedLength`), in the walk's order or in the table's (`SumReordered`). The most the theorem lets
be asked for, `KSize * MaxBuckets + 1`, is one more than a table can hold.

`ChainHead_proofs` covers any blocks, any seeds and any outcome of the undefined reads. The
pool's `IInv` does not hold here: `processTxResult` copies an entry, works on the results, and
writes the copy back, and if a seed relinked the pool meanwhile the copy has an old link. What
does hold is `ChainInv`:

- types and heights by bin (`PoolBase`), and exact links above bin 1 for every block the timer did
  not guess (`Links`);
- in such a block's bin below, its parent is processed if it is (`ParentsFirst`). It
  is stated of ids and not of links, because a push or a pop then cannot disturb it: they
  leave indices of old entries as they are, up to a shift by bins (`Kept`), and process nothing
  (`ProcessedFrom`);
- the block the timer has picked has its parent done, and the copied entry is at its place with the
  link it would have now (`JobIn`). This is the reason the old copy does no harm: a parent that is done was
  in the pool before, so the link was set before the copy was made;
- the longest chain ends in the highest bin that is not empty (`LongestIn`).

`LongestIsHighest` and `ParentsProcessedFirst` are read off it. `HeadTypeOK` needs
`head \in Info` besides, from what the walk down the links returns (`DownIs`) and
what `MoveHead` makes of it. The proof corrected the model in two places. With `guessed` a set of
blocks `ParentsProcessedFirst` was false for twins, which the instance checked then did not have; it has one now.
And the head may have the id of a parent that was never pushed, which the type
of the infos had left out.

Recursive functions (`RestoredPool`, `Those`, `Down`, `Walk`) are reasoned about with two lemmas
of `SequenceLemmas`, `Recursion` (what such a function is at its next place) and
`InductionOnSets` (a set of numbers with 0 and the successor of each member is `Nat`): the library's induction theorems take an operator, which the provers cannot instantiate.

Only model-checked: `FloodEnds`, `PeersGetBroadcasts`, `LoneBroadcastGoesOn` and `DeadPeersLeave`, which
are liveness under fairness and out of the prover's reach, and the three runs that
expect a violation. Every invariant and every action property of a run that holds, and both
refinements, are theorems.

## 5. Not modelled, and what is left

Not modelled, because the code gives a model nothing to follow:

- *Ledger queries and state tree.* `processTxResult` throws on every result the engine composes
  (it reads `info` of a success and `authority` of a failure, which `compose` erases), so no
  query handler runs. Behind it, `findUserLedgerFromHead` and `findContractLedgerFromHead` end
  without returning a value, `revertStateTree` puts contract ledgers into the user tree, and
  neither the ledger's pid nor the tree's root is ever set.
- *Support signatures and block production.* `pushSupportSig` reads a member the schema does not
  have; `fetchAll`, `makePartialBlock` and `makeMsgBlock` have no caller; the production timer
  does nothing. The transaction pool serves only this.
- *TxParallelizer.* Included by the engine, never used.
- *Id mapping.* Only messages to named mergers look it up, and there are none.

Not modelled, because there is no state to get wrong: cryptography, message formats and schemas,
JSON, logging, the tracker's HTTP client, the value of a single contract tag, `UserService` and
`SignerService` (which both ask gRPC for `RequestUserService`: which of them gets a user's transaction, and
with it whether other mergers do, is not the code's choice).

Left for later: the admin plugin (key setup in a detached thread against login, world and chain
against start).

How much of the repository this is: of some 80000 lines, 43000 are one-header libraries
(`json.hpp`, `catch.hpp`, `date.hpp`), most of the rest generated protocol code, XML and
JSON libraries, schemas and SQL building. The models cover the parts with state and
concurrency; the share of all lines stays small.
