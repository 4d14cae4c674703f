# Karbowanec in TLA+

A verification project kept beside the Karbowanec node and wallet (`src/src`). It models
the parts of the program whose correctness depends on long histories: what the block chain
keeps through failures and crashes, how it moves between branches, what the transaction pool
holds meanwhile, and how the node follows its peers. Model checking (TLC) runs small
instances; TLAPS proofs cover all values of the constants.

`PROJECT.json` has the machine-readable side: the components, the runs, a mutant of the code
for every property, the source lines every definition stands for, findings, hazards and
theorems.

## The system

| part | state | operations | what is hard about it |
|---|---|---|---|
| LMDB database (`LMDBBlockchainDB`) | one environment, a top-level and a nested write transaction, `MDB_NOSYNC` | begin, commit, abort, flush, open | what survives a process crash and what a system crash |
| Block chain storage (`Blockchain`) | main chain in LMDB, `m_batchCount`, `m_batchFastMode`, `m_blobs` | push, pop, flush, init, deinit | blocks share a transaction while syncing; every failing call has its own clean-up |
| Alternative chains (`Blockchain`, `Checkpoints`) | `m_alternative_chains`, the switch in progress | add a block, keep it aside, switch, roll back | a switch is many pops and pushes, each of which may fail; checkpoints; depth limit |
| Transaction pool (`tx_memory_pool`) | transactions, key image index, recently deleted ones, validity cache, pool file | add, take, fill a template, expire, save, load | double spends that blocks bring back, stale verdicts, dates and ages |
| `Core` | the two above under two locks | handle block, handle transaction, template | a template is made between two critical sections |
| Upgrade detectors | voting height, upgrade height | block pushed, block popped | votes under reorganisations |
| Protocol handler | per connection: state, requested objects; observed height, pending lite blocks, stem pool | the notifications and their answers | connections interleave at the yields of `processObjects` |
| P2P node, peer lists | connections, white/gray/anchor lists, bans | connect, accept, handshake, timed sync, idle | connection life cycle, write queues, limits |
| Scheduler (`System`) | contexts, events, remote jobs | spawn, wait, interrupt, yield | lost wake-ups, interruption |
| Miner | template, thread counters, pause count | start, stop, pause, new template | worker threads against the template |
| Node interfaces (`InProcessNode`, `NodeRpcProxy`) | init state, observers, cached heights | init, shutdown, queries | callbacks during shutdown |
| Wallet synchroniser, transfers | consumers, their sync state, containers of outputs | new blocks, detach, pool updates | detach and re-add, transactions in flight |
| Wallets, payment service | keys, transfers, uncommitted transactions | create, commit, roll back, save | save and load in the middle |
| Currency rules | none | reward, penalty, difficulty, amounts | 64-bit arithmetic at the edges |
| RPC, HTTP, logging, serialization, cryptography, mnemonics, tools | none or connection-local | request and response | pure computation or I/O |

The chain sits on LMDB; the protocol handler, the miner and RPC feed it blocks through
`Core::handle_incoming_block`; blocks take their transactions out of the pool, and blocks
that leave the main chain put theirs back. Wallets follow the chain through a node
interface, told by the message queues.

## Modules

| module | models | kind |
|---|---|---|
| `Chains` | chains as sequences, genesis first | operators |
| `LmdbEnv` | the calls `LMDBBlockchainDB` makes of LMDB, and crashes | operators |
| `ChainStore` | `Blockchain`'s storage: batches, blobs, pops, restart | state machine |
| `ChainLog` | what that storage promises | abstract specification |
| `Checkpoints` | class `Checkpoints` | operators |
| `ChainSwitch` | `addNewBlock`, alternative chains, switches and rollbacks | state machine over `ChainLog`'s promise |
| `TransactionPool` | `tx_memory_pool` with the chain around it | state machine |
| `SyncProtocol` | protocol handler and connection loop, with peers and links | state machine |
| `MC*` | the instances TLC checks | |
| `ChainStoreProofs`, `ChainStoreRefinement`, `ChainStoreGuarantees`, `TransactionPoolProofs` | | proofs |

### LmdbEnv and ChainStore

The thirteen tables of the database are always written in one transaction, so their contents
are abstracted to the chain they hold. An environment is the committed chain, the chains a
*system* crash may leave (`survivors`: the one flushed last and those committed since without
a flush), the open transactions and `MDB_NOSYNC`.

The variables of `ChainStore` are those of the class; `pc` says how far the current operation
is. An operation is cut into steps exactly where a crash or a failing LMDB call can tell:
`pushBlock` is `BeginBlock` (`beginBatchIfNeeded`), `WriteBlock` or `RejectBlock`,
`CommitBlock`, and `LeaveFastMode` or `CheckpointFlush`; `PushFails` and `SyncFails` are its
catch blocks. `m_blockchain_lock` lets nothing else in between. What fails is a choice of the
set `Faults`.

* `m_no_blobs` is fixed to false: then the class keeps `m_blobs`.
* `removeLastBlock` has the guard `m_batchCount = 0`: both callers, `popBlock` in a switch and
  `rollbackBlockchainTo`, flush first. The mutant `RemoveLastBlockUnflushed` is the call
  without it.
* When a delete of `removeLastBlock` throws, the deletes before it stay in the open
  transaction; the model keeps the chain of that transaction as it was.
* A system crash while unflushed pages exist may also leave a file that does not open, if
  the file system reorders writes (`Ordered = FALSE`); `init` then salvages or rebuilds it.

`ChainLog` is the view of a user of the chain: it grows by one block, shrinks by one committed
block, or falls back to the last saved version, which is never `BATCH_SIZE` blocks behind.
The refinement maps the chain to `Settled`, the saved version to what is committed, and the
versions on disk to `survivors`.

### Checkpoints and ChainSwitch

`ChainSwitch` starts from that promise: the main chain, of which the last `m_batchCount`
blocks are lost when a put fails. `addNewBlock` holds both locks to its end, so the steps of
a switch follow one another and only a failure or a crash comes between. `sw` holds the local
variables of `switch_to_alternative_blockchain` and `rollback_blockchain_switching` and where
they are; each pop and each push is a step.

* Blocks are those that pass the checks that depend on the block and its ancestors only
  (version, timestamp, proof of work). What depends on the chain is modelled: parent,
  checkpoint, transactions already in the chain, key images, rings; `Unsound` blocks fail in
  `pushBlock` for another reason (size, reward).
* `m_orphanBlocksIndex` always has the blocks of `m_alternative_chains` and is not separate.
* Whether the node is syncing (and a batch may stay open) is a free choice at each push.
* `pushBlock` ends in one of six ways: pushed, refused, a put or commit threw (batch
  aborted), the flush after the commit threw (block in the chain, call failed), and an
  exception that leaves the class because the clean-up failed too.
* A crash restarts with any content of the pool file.
* `heard` is the chain a reader of the message queues assembles; `NewAlternativeBlock`
  messages do not change it.

### TransactionPool

A pool is a record of the transactions, which of them were kept by a block, their receive
times, the key image index and the recently deleted transactions with their dates. Every
operation runs under `m_transactions_lock`, and those of the chain and of
`Core::add_new_tx` under both locks, so each is one step.

* `addTransactionInputs` and `removeTransactionInputs` return at the first input that
  surprises them; `Entered` and `Cleared` are the key images they handle before that.
* `fill_block_template` goes through the fee index and leaves out what does not fit or pays
  too little: any subset of the pool may be tried. `BlockTemplate` keeps conflicting
  transactions apart in the order of that index (`Chosen`).
* What the pool noted of an earlier check (`maxUsedBlock`, `lastFailedBlock`) can refuse a
  transaction that is valid: `FoundReady` is a subset.
* Times are unsigned with `Modulus` (2^64 in the code); the clock does not go back. The unit
  of the clock is longer than the 60 s interval of `on_idle`.
* A pool file that does not load gives an empty pool.

### SyncProtocol

One node, its connections, and a peer behind each that runs the same program. The core is
reduced to a tip and the set of blocks it has (`Verdict` is what `addNewBlock` finds); peers'
chains move to heavier ones at any time. `ctx` is `CryptoNoteConnectionContext`; its extra
fields `yielded` and `blocks` are the local state of `handle_response_get_objects` while the
coroutine is in `m_dispatcher.yield()`. Each connection has one coroutine, so a handler is one
step, and only `processObjects` gives way, after each block. `m_sync_lock` does not appear: it
is recursive and always taken by the thread of the dispatcher, so it keeps no coroutine out,
although its comment says that other connections wait.

* Peers keep to the protocol and blocks are sound; the branches that parse or verify are left
  out, those that compare heights, ids and lists are in.
* Whether the node has the transactions of a lite block is a choice; the answer to a request
  for the pool is among the transactions a peer relays unasked. Those that come while no lite
  block is waiting or on its way only go to the pool and are not sent.
* `timedSync` joins this node's request, sent on normal and idle connections, and its answer.
  `PeerTimedSync` is the peer's own, which `handle_timed_sync` takes in any state.
* Fail marks, bans, self-connections and the choice of peers are left out; a closed connection
  can be made again at once. `listed` is a history variable.

## Runs

| run | instance | shows |
|---|---|---|
| `store` | 4 blocks, batches of 2, every LMDB failure at any time, a disk that reorders writes | only the open batch is lost and the storage implements `ChainLog`; live blocks are durable; `MDB_NOSYNC` is always taken back; the transaction assertions hold and `m_blobs` is the chain until a failure that nothing cleans up |
| `store_stale_blobs` (violation) | failing `flushBatch` commits | `m_blobs` keeps the blobs of dropped blocks |
| `store_leaked_txn` (violation) | failing deletes | a transaction stays open and the next push asserts |
| `switch` | 12 blocks on three branches, shared, conflicting and unresolvable transactions, an unsound block, one failure of any kind anywhere | the main chain stays a chain and never mixes the branches; while nothing has failed a switch is all or nothing, goes to more work, loses no transaction and is told as it happened |
| `switch_resync` | live operation (no batches), a checkpoint on the branch with the least work, one failing put or flush or a crash, fairness | the node gets to its peers' chain |
| `switch_stuck` (violation) | the same with batches | it does not |
| `switch_near_checkpoint` (violation) | the tip right below a checkpoint on another branch | the checkpoint is never reached |
| `pool` | 2 transactions that share a key image and a block with each, the clock over several life times, restarts and crashes, fairness | index, double spends, templates, expiry and its dates are right, and nothing stays in the pool for ever |
| `pool_stale_cache` (violation) | a cached verdict and a block that spends the key image | a template takes a spent transaction |
| `sync` | 2 peers, 5 blocks with a branch that is shorter and heavier, requests of 2 blocks, lite announcements (one whose transactions are at hand is treated as a full one), relayed transactions, timed syncs from both sides, the node may mine the heavier branch itself | exactly one answer is on its way on each synchronizing connection, its fetch lists match it, peers are counted, and "SYNCHRONIZED OK" means every listed block is there |
| `sync_live` | the same tree and peers with full announcements and one connection cut, nothing mined and no timed sync from the peers, fairness | the node's chain comes up to every peer's again and again |
| `sync_empty_request` (violation) | the last needed block comes from the other peer | a request without objects, whose answer costs the peer its connection |

The bounds let each interesting case happen: a batch of two is left open, filled and aborted;
a switch can fail by itself (an unsound block, a transaction nobody has) and the fault then hits
its rollback; the clock passes the life time of kept transactions twice; three blocks and
requests of two make a connection come back for more while the other one delivers.
A mutant of the code breaks each property of a passing run.

`CHECK_DEADLOCK FALSE` stands where blocks, faults or time are used up in the bounded
instance; the program itself goes on.

**Fairness.** `ChainSwitch!Fairness`: the steps of a switch are consecutive statements of one
thread (weak); peers are asked for their chain again and again and send every block of it
with its transactions, while the node may be busy with others (strong). `TransactionPool!
LiveSpec`: time passes, `on_idle` is called by the node's loop, and a stopped node is started
(all weak). `SyncProtocol!Fairness`: coroutines run on, links deliver, peers answer,
and the connection maker and the timed sync loop come round (all weak); nothing makes a peer
move or announce.

## What is proved

All proofs hold for any blocks, transactions, batch sizes, times and faults that satisfy the
named assumptions.

* **Storage.** `ChainStoreProofs` proves types, `BatchIsTheLoss` and `NoSyncIsRemembered` with
  one inductive invariant. `BatchIsTheLoss` alone is not inductive: it has to know what the
  outer and the nested transaction hold in the middle of a push. A transaction that
  `removeLastBlock` leaked is allowed throughout, so no assumption on `Faults` is needed.
  `ChainStoreRefinement` proves `Spec => Log!LogSpec` step by step.
  `ChainStoreGuarantees` proves `TxnDiscipline`, `BlobsMatchChain` and `LiveBlockIsDurable`.
  The history variable `failed` records the failures that no clean-up covers: a delete of a pop
  that throws, a failed commit of `flushBatch`, a failed flush of a reset. The first two
  properties hold until such a failure, and again after a restart or a completed reset; the
  violation runs show what happens after one.
* **Pool.** `TransactionPoolProofs` rests on `Sound`, a predicate on one pool that each
  operation preserves: the index is exact, kept transactions are in the pool, transactions
  not kept do not conflict, no time is in the future, and a transaction that is in the pool
  and among the deleted ones came back with a block after its deletion. The last conjunct is
  what `DeletionIsDated` needs: such a transaction lives `AltLiveTime`, and `Periods *
  LiveTime <= AltLiveTime`, so its old date is forgotten before it expires again. With the
  exact index both loops over the inputs run to their end (`EnteredAll`, `ClearedAll`). No
  time in the future means the unsigned ages do not wrap (`AgeIs`).

Only model-checked: all of `ChainSwitch` (its alternative chain is a recursive function of the
block tree) and of `SyncProtocol`, liveness, and the violations.

## Findings

1. `flushBatch`, when its commit fails, does not trim `m_blobs` (`store_stale_blobs`).
2. A throwing delete in `removeLastBlock` leaks its transaction (`store_leaked_txn`).
3. An aborted batch under alternative chains can leave the node unable to follow its peers
   until it is restarted (`switch_stuck`). A rollback that fails ("PANIC") has the same end.
4. A chain height is passed where the height of the top is meant (`switch_near_checkpoint`).
5. The cache of valid transactions is never cleared (`pool_stale_cache`).
6. `request_missing_objects` may request nothing and then drops the peer for its empty answer
   (`sync_empty_request`).

## Not modelled, and the plan

Next, in this order:

1. proofs for `ChainSwitch` (`MainIsConsistent`, `SwitchShape`) with the alternative chain as a
   guarded choice in place of the recursive function;
2. `UpgradeDetector` against a chain that pops and aborts;
3. the tables behind a block (`pushTransaction` and `popTransaction` as inverses);
4. the rest of the protocol handler: the stem pool with its timers and the threads that add to
   it, fail marks and bans; a proof of `OneExchange`;
5. `BlockchainSynchronizer`, `SynchronizationState`, `TransfersContainer`: detach and re-add,
   with an abstract wallet view as the specification;
6. `Miner` with `get_block_template`; `Dispatcher`, `Event` and `ContextGroup`;
   `PeerListManager`; `MessageQueue`;
7. `Currency`: reward, penalty, difficulty and fusion as operators against references;
8. wallets (transactions in flight, save and load) and the node interfaces; the migration.

Out of scope: cryptography, serialization, logging, mnemonics, HTTP and JSON parsing (pure
computation or I/O), sizes of the LMDB map, and the daemons' option handling.
