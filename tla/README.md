# A verification of the chain core

TLA+ models, TLC runs and TLAPS proofs for the part of a node that agrees on blocks,
collects what they need, and keeps and removes their data: Doomslug
(`chain/chain/src/doomslug.rs`), the client that drives it (`chain/client/src/client.rs`,
`client_actor.rs`), the processing of blocks (`chain/chain/src/chain.rs`, `orphan.rs`,
`missing_chunks.rs`), the shards manager (`chain/chunks`), the transaction pool
(`chain/pool`), garbage collection, cold storage, what state sync does to the store, flat
storage and state snapshots.
Paths are relative to `src/`. `PROJECT.json` maps every definition to the lines it
translates, and lists the runs, the mutants, the hazards and the findings.

## The system and what is modelled

| Part | State | Operations | Hard behaviour | Status |
|---|---|---|---|---|
| Doomslug across validators | headers, approvals, heads, target heights | endorse, skip, produce, accept, crash | forks, faulty signers, lost messages, crashes between commits | `DoomslugConsensus` |
| Doomslug timer | tip, timer, pending endorsement, target height | `set_tip`, `process_timer`, restart | late and rare calls, a bounded loop | `DoomslugTimer`, `Approver` |
| Approval collection | trackers per height, pending approvals | `collect_block_approval`, `on_block_accepted`, `produce_block_on` | approvals before blocks, repeated and conflicting approvals, epoch ends | `ApprovalCollection` |
| Missing chunks pool | four maps | add, accept chunk, prune, take ready | shared chunks, the limit | `MissingChunksPool` |
| Orphan pool | orphans, two indexes, requests | add and evict, remove by parent, walk | eviction of several collections, depth | `OrphanBlockPool` |
| Block pipeline | the pools, store, heads, threads | receive, chunk completed, finish, postprocess | results in any order, full pools, invalid blocks | `BlockPipeline` |
| Shards manager | requests, cache of encoded chunks, forwards, two mailboxes | request, receive parts, forward, complete, resend, evict | late, lost and partial answers, messages of two actors in any order | `ShardsManager`, `ChunkCollection` |
| Transaction pool | groups by signer, hashes, size | insert, draw, put back, reintroduce, remove | round-robin over a changing set, reorganisations, the limit | `TransactionPool`, `ClientTransactions` |
| Garbage collection | tails, blocks, counts, trie nodes, chunks | `clear_data` one commit at a time | forks, skipped heights, missing chunks, crashes | `GarbageCollection` |
| Cold storage | cold store, two cold heads | copy, write the heads | a second thread, crashes | `ColdStorage` |
| Flat storage | flat heads, deltas, flat state | add a delta, move the head, read | several commits per block, readers, forks | `FlatStorage` |
| Flat storage creation | status per shard, parts | `update_status`, fetch | in the background, crashes | `FlatStorageCreator` |
| State snapshots | request, directory, key, snapshot | request, delete, copy, unlock, reopen | an actor beside the client, the lock | `StateSnapshot` |
| Epoch manager | | where epochs begin and end | epochs that end on two forks | `BlockTree`; selection and rewards are not modelled |
| State sync | store, heads, tails, state of each shard | empty the store, take a block and states, new heads | one commit per block, an actor beside the client, restarts for a later epoch | `StateSync` |
| Header and block sync, catchup | sync status, downloads | request, retry | peers that fail, timeouts | not modelled, but for when state sync is due |
| Runtime | accounts, receipts | apply, postpone, delay | | not modelled, but for nonces |
| Network | routes, edges, accounts | announce, route back | | not modelled: loss, delay and repetition are in the models of its users |
| VM, tries, RPC, indexer, tools | | | | not modelled: execution, encodings, I/O |

A client actor on one thread handles messages and triggers. Beside it run the threads
that apply chunks or fetch parts of a state, the shards manager, the snapshot actor and
the thread of the cold store. So a handler of an actor is one action unless it commits
several times where another thread or a crash can come in between, and the interleavings
are those of handlers, threads, validators and crashes.

## Modules

**`DoomslugConsensus`** is a network of validators in one epoch. `hdr` holds every
published header that `validate_header` accepts, `sent` every approval that was handed
to the network. Nothing is ever removed from either and nobody has to receive anything:
that covers loss, delay, repetition and reordering. The disk of a node is `store`,
`head`, `final_head`, `latest_known` and `disk_target`; its memory is the Doomslug
state. `TimerEndorse` and `TimerSkip` are `try_doomslug_timer` around one iteration of
`process_timer`: the new target height is computed, committed, and then the approvals
are sent. `CrashBeforeSending`, `CrashProducing` and `CrashAccepting` are the crashes
in the middle of handlers; `SaveAndSend` has the commit that fails. `Faulty` validators
sign anything and produce any block with enough approvals. A producer may use any
approval that was sent (the trackers are in `ApprovalCollection`).

**`DoomslugTimer`** keeps the clock that `DoomslugConsensus` abstracts from, for one
validator, with the delays, the loop bound and restarts. **`Approver`** is the abstract
promise of a validator: targets only rise, and an endorsement is only for a height
above every earlier target. `KeepsPromise` states that the timer implements it. An
`Instant` is represented by the time since it.

**`ApprovalCollection`** is one block producer: the trackers of `doomslug.rs` with
their running sums, the LRU cache of approvals whose block is not there, and the blocks
built from the witnesses. `Pledges` gives, for each parent block, the approvers of the
next block with their pledge in this and in the next epoch, which differ for the last
blocks of an epoch.

**`MissingChunksPool`** and **`OrphanBlockPool`** are operators on records, so that
`BlockPipeline` can use them inside its handlers; the first has a specification of its
own, which is proved correct for all blocks, chunks and limits.

**`BlockPipeline`** is one node. `ReceiveBlock`, `ChunkCompleted` and
`PostprocessReadyBlocks` are whole handlers, with the cascade they start: accepting a
block starts its orphans, which may move to another pool. `FinishApplyChunks` is the
end of a thread. `CheckOrphans` panics where the code unwraps an orphan that is gone
(`panicked`), after which nothing happens any more.

**`ShardsManager`** has the operators of the shards manager on a record: the request pool
with its ages, the cache of encoded chunks with the horizon, the forwards for unknown
headers. **`ChunkCollection`** composes it with the client and the missing chunks pool as
two actors: `mailbox` and `manager.outbox` are the messages between them. `ReceiveBlock`,
`ChunkCompleted` and `PostprocessBlock` are handlers of the client;
`HandleClientRequest`, the `Receive…` actions and `Resend` those of the manager.
`LoseResponse` loses an answer. `given_up` is a history variable: chunks whose request
was evicted and not made again.

**`TransactionPool`** has the pool and the loop of `prepare_transactions` on a record.
**`ClientTransactions`** is the client that uses it: `ProcessTx` inserts, and `AcceptBlock`
is `on_block_accepted` with `reconcile_transaction_pool` and the production of a chunk on
a new head. A block brings this node's chunk, another producer's or none.

**`BlockTree`** gives blocks, heights, finality and epochs as their headers have them, to
the three modules that follow. Its assumption on forks, `FinalityAssumption`, is what
`FinalityIrrevocable` of consensus gives: a block above a final block is built on it or on
a block above it. Nothing stronger is assumed of heights: the skip of `process_timer` has
no guard on `largest_target_height` (`doomslug.rs:505`), so that a block at a greater height
may well have a parent at a smaller one.

**`GarbageCollection`** is `clear_data` after every new head: `gc` is the program counter
and the blocks that remain in this call, and each commit is a step. A state is a set of
trie nodes with reference counts; a chunk is named by the block that included it first.
**`StateSync`** is what a node does that has fallen two epochs behind the headers: the
commits of `reset_data_pre_state_sync` (`ResetBlock`, `ResetChunks`, `ResetState`), the
block before the sync block (`ReceiveSyncPrev`), the state of each shard (`ApplyParts` in
another actor, `FinalizeShard` in the client), and `reset_heads_post_state_sync`
(`ResetHeads`). `sync` is in memory, so a crash makes the node begin again, and headers
may have come to a later epoch by then.
**`ColdStorage`** adds the copying thread: `CopyBlock`, `WriteColdHead` and
`WriteHotColdHead` are its commits, and `cold_head` is where garbage collection stops.

**`FlatStorage`** is the flat storages of all shards, on the disk (`status`, `flat`,
`deltas`) and in memory (`storages`). A value is the block that wrote it. Accepting a
block is `CommitBlock`, then `BeginUpdate`, `MoveFlatHead` for each block on the way and
`EndUpdate`. **`FlatStorageCreator`** adds `update_status` with all its states for shards
that start without a flat storage. **`StateSnapshot`** adds the request at the end of an
epoch, with the lock of the flat heads, the steps of the actor, and the restart.

The `MC…` modules give the constants their values. Operators marked *Mutant* are wrong
variants of the definition after them; each property is shown to fail for one of them.
Each component has one invariant (`TimerInvariant`, `TrackersInvariant`,
`PipelineInvariant`, `CollectionInvariant`, `HotStoreInvariant`, `FlatInvariant`,
`PoolInvariant`) that joins its type invariant with the consistency of its data, as
`FinalityInvariant` does for consensus; the other properties are about behaviour.

## Runs

| Run | Instance | Shows |
|---|---|---|
| `timer` | heights to 3, delays 2–3, loop cut at 2, one restart | skips wait for the endorsement, keep to the schedule, reach every height; refinement of `Approver` |
| `consensus_crash` | pledges 2, 1, 1, heights to 3, one faulty with two blocks per height, crashes of the node in every quorum | the inductive invariant of finality; no two blocks of one height by an honest node, `latest_known` |
| `consensus_long` | the same without crashes, heights to 4 | Doomslug finality, finality, heads on final heads |
| `approvals` | two blocks at height 1, own blocks at 2 and 3, three approvers, cache of 2 | no approval lost or counted twice; produced blocks are valid |
| `pipeline` | seven blocks on forks, one invalid, one with bad chunks, limits of 1 and 2, one failure | one place per block, nothing stranded, every block is accepted in the end |
| `chunks` | six blocks on two forks, four chunks of two parts, one own, one never in a block, limits of 1 | no wake-up between client and manager is lost; own parts make a chunk ready in any order; requests and cache fit; waiting blocks go on |
| `cold` | eighteen blocks with a fork of three and one of one, skipped heights, a shard without chunks for six heights, a node with a cold store or one that may state sync, one crash | no assertion of `clear_data` fails; the hot store is exact after each commit and after state sync; nothing is lost between the stores; the cold store is complete and catches up, state sync ends |
| `flat` | eleven blocks, one fork, two shards with two keys, one without flat storage at first, two blocks in processing, one crash | no panic; disk, memory and values agree; reads and snapshots are right; the creation ends |
| `pool` | five blocks on two forks, four transactions of two keys, two with one nonce, one that expires, limit 4 of total size 5 | the pool counts right and has nothing that is on the chain, chunks are valid, no signer starves, no transaction is lost |

Two blocks in a row above a block make it final, so height 3 is the first at which a
block is final, and height 4 leaves room for a competitor above it. The limits of the
pools are smaller than the number of blocks, so that each of them is reached. In `cold`,
epochs of two heights of which three are kept make the tail move through the longer fork
and past the shard's missing chunks before the chain ends; the chain is long enough for a
state sync, interrupted and begun again for a later epoch, after which garbage collection
clears the first blocks of the new store. In `flat`, epochs of three
heights ask for a snapshot several times, on both forks, while the creation goes on. `CHECK_DEADLOCK FALSE` is set where the bounded heights or
blocks end, or a panic ends the process (`pipeline`).

Bounds that are not limits of the code: `MaxCrashes`, `MaxRestarts`, `MaxFailures`;
`MaxIndexed` (stale hashes pile up in the orphan index); `MaxMail` (blocks come while no
more messages wait for the manager); `Forwarded` (the chunks of which owners forward
parts); `MaxRounds` of `prepare_transactions`; `MaxProcessing` in `flat`.

Runs that end in a violation state what a comment says and the code does not do:

| Run | The text | The code |
|---|---|---|
| `pipeline_index` | the index maps to orphan blocks (`orphan.rs:79`) | an entry keeps evicted hashes; `check_orphans` unwraps them |
| `flat_unlock` | all shards are locked and unlocked at the same time (`core/store/src/flat/manager.rs:263`) | a flat storage created while a snapshot is made starts unlocked, so unlocking fails and rolls back: the others stay locked until a restart |
| `pool_full` | `unique_transactions` tells whether a transaction is in the pool (`chain/pool/src/lib.rs:33`) | a transaction refused for lack of space keeps its hash, and is a duplicate from then on |

Other places where text and code differ, met while modelling and followed as the code has
them: `largest_final_height` is not the largest but that of the new head (`doomslug.rs:614`
and `:127`); pending approvals of requested and own blocks stay after the block came
(`client.rs:1565` and `:150`); a skip is counted with the approvers of any block of its
height, which two blocks at the end of an epoch may not share (`client.rs:1936` and
`:687`); the walk over orphan descendants ends at the first block at the given depth
(`orphan.rs:203` and `:191`); a chunk request is also removed after
`CHUNK_REQUEST_RETRY_MAX` (`chain/chunks/src/lib.rs:231` and `:38`); a forward for a chunk
with a known header whose previous block is not accepted goes to the cache of forwards,
which `check_incomplete_chunks` does not look at (`:1717` and `:63`); `get_blocks_to_head`
returns a path also for a block without changes on a fork just below the flat head
(`core/store/src/flat/storage.rs:86`).

### What state sync leaves behind

The comment on clearing says of state sync that "All the data preceding new Tail is deleted
in State Sync Clearing and the Trie is updated with having only Genesis data"
(`chain/chain/src/garbage_collection.rs:107`). The properties of `cold` state what holds:

- Without a crash the blocks and chunks below the tails are gone. A crash during state sync
  and a second one for a later epoch leave the block that the first one saved, and the
  chunks and trie changes of the shards it finished, below the new tail: the reset goes
  from the old tail to the old head, and garbage collection starts at the new one. So
  `OneTail` and `NoChunkIsForgotten` allow these `Leftovers` and nothing else, and the
  other properties are about the blocks from the tail on (`LiveBlocks`).
- The trie changes of blocks that `set_state_finalize` applied below the new tail are never
  looked at again, so the nodes they would delete stay (`StrandedChanges`).
- The whole of `DBCol::State` is deleted, the genesis state too.
- `reset_tail` (`chain/chain/src/store.rs:2158`) sets the tails of the update to `None`,
  and `None` is not written: the tails on the disk stay until the new heads are written,
  although "The reason to reset tail here is not to allow Tail be greater than Head". The
  head stays as well, so that the tail is not above it.

## Fairness

`timer`: the clock runs and the actor's triggers keep calling the timer
(`check_triggers` reschedules itself). `pipeline`: apply threads end
(`FinishApplyChunks`), their results are taken, each chunk comes at some time, and a
block the node would take is offered again (block sync and `request_block` repeat).
The last three are written as state predicates, which is what weak fairness of these
handlers amounts to: each stays enabled until it is run or has nothing left to do.
`chunks`: the actors handle their messages, the periodic `resend_chunk_requests` runs, and
a chunk that some block includes is answered by a peer in the end (answers are not lost
for ever once the whole chunk is asked for). `cold`: the client finishes `clear_data` and
the thread of the cold store loops; `run_sync_step` is repeated, peers have the headers,
the block and the states it asks for, and the actor that applies parts answers. `flat`: the client thread finishes what it does and
calls `update_status` periodically, and threads that fetch parts go on; nothing is assumed
of the snapshot actor. No fairness is assumed for failures, crashes, evictions, new blocks
or unrequested messages.

## Proofs

Eight modules hold the theorems; `PROJECT.json` lists the results. They hold for every
value of the constants that the named assumptions allow: any number of validators, blocks,
shards and crashes, any tree of blocks, any delays and limits.

**`Induction`** has what the other modules need of induction and recursion. The induction
theorems of the library take an operator, which the provers cannot instantiate, so the
property is given as a *set*: one that contains 0 and every successor of its members
contains every natural number. From it follows that a recursive definition along a ranked
parent relation has a solution. That is how the proofs unfold `Chain`, the last final block,
the walk of `check_if_finalizable`, the sums of pledges and the delays of the timer.

**`DoomslugConsensusProofs`**. `TypeCorrect` is the type invariant.
`ConsensusInvariantHolds` is the inductive invariant, together with `TypeOK`:

- `NeverPassesItsEndorsement` is not inductive alone. That a new approval respects old
  endorsements follows from the target height, so `ApprovalsBelowTarget` relates the
  approvals sent to the target on the disk and in memory, and the timer to the tip.
- `HeadersApproved` says which approvals a header stands for, and what its final block
  rests on.
- `HeadsInvariant` relates the heads, `latest_known` and the blocks a node produced.

From it: `FinalityInvariantHolds`, `EndorsementsBind`, and

- `DoomslugFinalityHolds`. A block `c` at the height after its parent and a block `x` that
  passes the parent each have a quorum of approvals; an honest validator in both would have
  passed its own endorsement.
- `FinalityHolds`, from Doomslug finality of the two children of a final block.
- `HigherBlocksAreFinalizableHolds` and `FinalHeadExtendsHolds`: the walk down from a block
  above a final block meets it, by induction over the height, so comparing heights is enough
  in fork choice and in `update_final_head_from_block`.
- `HeadBelowLatestKnownHolds`, `HonestNeverSignsTwiceHolds` and `TipRisesHolds`, from
  `HeadsInvariant`; the last two are action arguments about production and `set_tip`.

Assumptions: `QuorumAssumption` (any two quorums share an honest validator, which more than
two thirds each give if less than a third of the pledge is faulty) and `HeightAssumption`.

**`DoomslugTimerProofs`**. `TimerInductive` joins `TimerInvariant` with
`TimerFollowsTip`: between two calls the target on the disk is the one in memory, the timer
is ahead of the tip, and a pending endorsement has waited as long as the timer has run.
The delays before a skip add up to a recursive function, which `DelaysSplit` and
`DelaysBound` relate to one iteration of the loop. `TimerInvariantHolds`,
`NoSkipWithPendingEndorsementHolds` and `TimerKeepsPromise` follow; the last is the
refinement of `Approver`, whose specification is a safety property. `DelayAssumption` has
the debug assertion on the delays.

**`ApprovalCollectionProofs`**. `Inv` says of the whole of `tracking` what
`TrackersInvariant` says of each tracker (`SoundTracking`: the running sum of a tracker is
the sum of the pledges of its witnesses, an account counts where it approved last, heights
are within the horizon), that the cache holds only approvals that wait for their block, and
`ProducedBlocksAreApproved`. The sums are a fold with `CHOOSE`, so `IsSum` characterises them
first, and `IsSumRemoves` and `IsSumAgrees` show that the order does not matter.
`TrackersInvariantHolds` and `ProducedBlocksAreApprovedHolds` follow. `PickOneAssumption`
takes up a comment of the code: blocks of one height have the same approvers
(`client.rs:1936`). A faulty producer at the end of an epoch can make it false, so nothing
is proved for that case.

**`GarbageCollectionProofs`** has the lemmas on the tree of blocks (ancestors, final blocks,
epochs, the chunks of a block) and on the store: `TreeGrows`, `TreeLosesLeaf` and
`TreeLosesRoot` say how counts of children, reference counts and trie nodes follow a commit.
**`ColdStorageSteps`** has the inductive invariant `Inv` of a node with a cold store and what
the steps of `clear_data` keep; **`ColdStorageProofs`** the rest of the steps and the
theorems. `Inv` is inductive for both kinds of nodes: the cold store is complete up to its
head (`ColdStore`); on an archival node the stored blocks are a tree with exact counts
(`Store`), the heads are ancestors of each other in the order cold head, final head, head
(`HeadsInOrder`), no tail passes `COLD_HEAD` (`TailsBehindCold`), and each thread is where
its program counter says (`Collecting`, `CopyStep`). `InvHolds`, `ColdStoreIsCompleteHolds`
and `NothingIsLostHolds` follow, and for archival nodes `ArchivalStoreHolds`,
`ArchivalStatesAreExact` and `ArchivalClearDataNeverFails`. Assumptions:
`BlocksAssumption`, `FinalityAssumption` and `GCAssumption`.

**`MissingChunksPoolProofs`**: `MapsAgreeHolds` (inductive as it stands) and
`ReadyWithLastChunkHolds`, the action property, from it.

Only model-checked:

- all liveness properties, which need fairness;
- `HotStoreInvariant`, `StatesAreExact` and `ClearDataNeverFails` for a node that may state
  sync: the theorems have `kind = "Hot"` as a hypothesis, because `Inv` says nothing of the
  store while it is emptied and filled again;
- the pipeline and the chunk collection, whose cascades are recursive operators, which the
  prover does not read;
- flat storage and snapshots (`FlatInvariant`, `NoPanic`, `ReadsAreRight`,
  `SnapshotIsRight`) and the transaction pool: nothing of principle is in the way;
- `ApprovalsAreKept`, an action property whose exceptions follow the code's cache case by
  case.

## Abstractions and limits

- The comment of `can_approved_block_be_produced` speaks of more than half of the pledge
  (`doomslug.rs:541`); the code, and so the models, ask for more than two thirds.
- One epoch in `DoomslugConsensus` and `BlockPipeline`; genesis is at height 0.
- In `DoomslugConsensus` one iteration of `process_timer` is one call; the loop is in
  `DoomslugTimer`. That no endorsement is pending at a skip is a guard there because
  `NoSkipWithPendingEndorsement` shows it. It needs delays of at least twice the
  endorsement delay, the debug assertion of `process_timer`.
- Not modelled there: `header_head`, the reset of heads by state sync (both are in
  `StateSync`), challenges and slashing, the timestamps and economics of headers.
- `ApprovalCollection`: signatures are valid; `time_passed_threshold`, which only delays
  production, is left out; a skip's block is picked once per handler, because the hashes
  of a height are cached.
- Orphans are old enough to be evicted or not at will, when the pool overflows.
- `Bad` blocks are found invalid in `preprocess_block`; `invalid_blocks` never evicts.
- An entry of the orphan index has a bound, `MaxIndexed`, as stale hashes pile up in it.
- `postprocess_block` returns without looking at orphans when the update of flat storage
  fails after the commit (`chain.rs:1836`). `NoPanic` shows that it does not fail for a
  reason of its own; I/O errors are not modelled.
- `ShardsManager`: the node is a block producer; chunks and parts are valid
  (`ChunkStatus::Invalid`, which leaves the request, does not occur); the header head is the
  head; whom to ask, forwarding own parts and answering requests are output only; time is
  counted in periods of the resend task, and a request that is old enough may be evicted
  or not. The limits of the orphan pool are in `BlockPipeline` only.
- `TransactionPool`: the order of keys, random in the code, is fixed; the limits of gas,
  size and time of a chunk are a number of rounds chosen at will; the base block of a
  transaction is on both forks; balances, the upper bound on nonces, challenges,
  forwarding and resharding are left out. A storage error in `prepare_transactions`
  (`framework/src/runtime/mod.rs:821`), which drops what was pulled so far, is not
  modelled. A reorganisation reintroduces before it removes, so a pool may be full then
  (`client.rs:1700`): `TransactionsAreKept` says so.
- `GarbageCollection`: a block is accepted in one step; its chunks are stored with it and
  its header comes with it. `clear_head_block_data`, resharding data and archival nodes
  without cold storage are left out.
- `StateSync`: the header head moves with accepted blocks and when state sync starts. The
  download of a shard's state with its timeouts and retries, a part that fails to apply,
  resharding, the flat storage of the shard (`clear_flat_state`) and the sync block kept as
  an orphan (it is accepted later as any block) are left out. While state sync is due no
  other block is accepted: block sync asks for none, and `check_block_height` drops what
  was not asked for and is far ahead. All shards are tracked. `clear_block_info`, which
  keeps one `BlockInfo`, is not told apart.
- `ColdStorage`: the initial migration, and the reads that fall back to the cold store.
- `FlatStorage`: all shards are tracked; `remove_flat_storage`, resharding, the migration
  that inlines values and `clear_state` are left out. The state the creator fetches is not
  garbage collected meanwhile. `StateSnapshot` assumes that no shard misses the chunks of
  a whole epoch, and a flat storage that is new may be ahead of what a snapshot wants
  (`core/store/src/trie/state_snapshot.rs:95`), which `SnapshotIsRight` allows. Failures
  of the file system and compaction are left out.

## Not modelled, and what could follow

- The stages of the download per shard with their timeouts (`sync/state.rs`), header and
  block sync as protocols with peers, and the catchup of blocks whose shards are not there
  yet.
- Receipts of the runtime (postponed, delayed), the selection of validators and rewards:
  sequential computations over balances. The VM, tries and encodings are out of reach.
- The network's routes and caches. The models of its users assume the weakest network.
- Resharding, in all components.
- Proofs: flat storage and its snapshots, the transaction pool, and the store of a node
  that syncs state.
