-------------------------- MODULE GarbageCollection --------------------------
(***************************************************************************)
(* The garbage collection of a node's store                                *)
(* (chain/chain/src/garbage_collection.rs): after every new head,          *)
(* clear_data removes the forks below fork_tail and moves the tail up the  *)
(* canonical chain, at most gc_blocks_limit blocks a time and with one     *)
(* commit per block or height, so that a crash may leave it anywhere.      *)
(*                                                                         *)
(* A state is the set of its trie nodes; State counts the references to    *)
(* each.  A chunk is named by the block that included it first and its     *)
(* shard, and is stored by the time its block is accepted.  All other data *)
(* of a block goes with the block.                                         *)
(***************************************************************************)
EXTENDS BlockTree, FiniteSets, FiniteSetsExt

CONSTANTS
    Nodes, StateOf,                \* the trie nodes of each block's state
    Shards, NewChunks,             \* the shards with a new chunk in each block
    gc_blocks_limit, gc_fork_clean_step, gc_num_epochs_to_keep,
    None,
    MaxCrashes                     \* bound on the crashes

ASSUME GCAssumption ==
    /\ StateOf \in [Blocks -> SUBSET Nodes]
    /\ NewChunks \in [Blocks -> SUBSET Shards]
    /\ {gc_blocks_limit, gc_fork_clean_step, gc_num_epochs_to_keep} \subseteq Nat \ {0}
    /\ None \notin Blocks
    /\ MaxCrashes \in Nat

VARIABLES
    kind,           \* DbKind: "RPC", or "Hot" with a cold store beside it
    head, final_head,
    blocks,         \* DBCol::Block, BlockInfo and all else that is kept by block
    refcount,       \* DBCol::BlockRefCount, zero where it has no entry
    trie_changes,   \* DBCol::TrieChanges
    state,          \* DBCol::State: the references to each node
    chunks,         \* DBCol::Chunks
    tail, fork_tail, chunk_tail,
    cold_head,      \* COLD_HEAD of the hot store
    gc,             \* where clear_data is, and its local variables
    failed,         \* an assertion failed or clear_data returned an error
    crashes

tails  == <<tail, fork_tail, chunk_tail>>
stored == <<blocks, refcount, trie_changes, state, chunks>>
gcVars == <<kind, head, final_head, stored, tails, cold_head, gc, failed, crashes>>

Larger(a, b) == IF a < b THEN b ELSE a

Insertions(b) == StateOf[b] \ StateOf[Prev[b]]
Deletions(b)  == StateOf[Prev[b]] \ StateOf[b]

\* The block that included the last chunk of each shard.
ChunkIn ==
    LET last[b \in Blocks] ==
            [s \in Shards |-> IF b = genesis \/ s \in NewChunks[b] THEN b ELSE last[Prev[b]][s]]
    IN  [b \in Blocks |-> last[b]]

\* block.chunks().
ChunksOf(b) == {<<ChunkIn[b][s], s>> : s \in Shards}

HeightCreated(c) == Height[c[1]]

StoredNodes == {n \in Nodes : state[n] > 0}

AtHeight(h) == {b \in blocks : Height[b] = h}

Idle == [pc |-> "idle", stop |-> 0, tail |-> 0, bottom |-> 0, height |-> 0,
         current |-> None, remaining |-> 0]

GCInit ==
    /\ kind \in {"RPC", "Hot"}
    /\ head = genesis /\ final_head = genesis /\ cold_head = genesis
    /\ blocks = {genesis}
    /\ refcount = [b \in Blocks |-> 0]
    /\ trie_changes = {}
    /\ state = [n \in Nodes |-> IF n \in StateOf[genesis] THEN 1 ELSE 0]
    /\ chunks = ChunksOf(genesis)
    /\ tail = Height[genesis] /\ fork_tail = Height[genesis] /\ chunk_tail = Height[genesis]
    /\ gc = Idle
    /\ failed = FALSE
    /\ crashes = 0

-----------------------------------------------------------------------------
(* get_gc_stop_height                                                      *)

\* The first block of the epoch n epochs before that of b.
FirstBlockBack[n \in Nat] ==
    [b \in Blocks |->
       LET first == epoch_first_block[b]
       IN  IF n = 0 \/ first = genesis THEN first ELSE FirstBlockBack[n - 1][Prev[first]]]

\* Mutant: does not look at the cold head.
EpochStartToKeep == Height[FirstBlockBack[gc_num_epochs_to_keep - 1][head]]

\* get_gc_stop_height_impl.
StopHeight ==
    LET epoch_start_height == Height[FirstBlockBack[gc_num_epochs_to_keep - 1][head]]
        cold_start_height  == Height[epoch_first_block[cold_head]]
    IN  IF kind = "Hot" /\ cold_start_height < epoch_start_height
        THEN cold_start_height ELSE epoch_start_height

\* The blocks whose BlockInfo it reads.
InfosRead ==
    UNION {{FirstBlockBack[n][head]} : n \in 0 .. gc_num_epochs_to_keep - 1}
        \cup (IF kind = "Hot" THEN {epoch_first_block[cold_head]} ELSE {})

\* get_gc_stop_height: the height of genesis if a BlockInfo is gone, unless the epoch
\* manager still has it in its cache or header sync has saved it.
GcStopHeights ==
    {StopHeight} \cup (IF InfosRead \subseteq blocks THEN {} ELSE {Height[genesis]})

-----------------------------------------------------------------------------
(* Accepting blocks                                                        *)

\* "Do not accept old forks" of preprocess_block.
RecentFork(b) == \E stop \in GcStopHeights : Height[Prev[b]] >= stop

\* check_block_height drops a block below the tail, and a block is applied on the state of
\* its parent.  postprocess_block saves the block and
\* its trie changes in one commit, and on_block_accepted calls clear_data when the head is
\* new.
AcceptBlock(b) ==
    /\ gc.pc = "idle" /\ ~failed
    /\ b \notin blocks /\ Prev[b] \in blocks
    /\ Height[b] >= tail /\ RecentFork(b)
    /\ StateOf[Prev[b]] \subseteq StoredNodes
    /\ Finalizable(b, final_head)
    /\ blocks' = blocks \cup {b}
    /\ refcount' = [refcount EXCEPT ![Prev[b]] = @ + 1]
    /\ trie_changes' = trie_changes \cup {b}
    /\ state' = [n \in Nodes |-> IF n \in Insertions(b) THEN state[n] + 1 ELSE state[n]]
    /\ chunks' = chunks \cup {<<b, s>> : s \in NewChunks[b]}
    /\ head' = Higher(b, head)
    /\ final_head' = Higher(last_final_block[b], final_head)
    /\ gc' = IF Height[b] > Height[head] THEN [gc EXCEPT !.pc = "start"] ELSE gc
    /\ UNCHANGED <<kind, tails, cold_head, failed, crashes>>

-----------------------------------------------------------------------------
(* clear_data                                                              *)

CanonicalFrom(g, h) ==
    IF h < g.stop /\ g.remaining > 0
    THEN [g EXCEPT !.pc = "canonical", !.height = h] ELSE Idle

\* clear_data goes down the heights of the forks to bottom, then up from the tail.
ForksFrom(g, h) ==
    IF g.bottom <= h
    THEN [g EXCEPT !.pc = "forks", !.height = h, !.current = None]
    ELSE CanonicalFrom(g, g.tail + 1)

\* The start of clear_data: on an epoch change the forks are to be cleared up to the
\* stop height.
BeginClearData ==
    /\ gc.pc = "start"
    /\ \E stop \in GcStopHeights :
         LET epoch_change == epoch_first_block[head] = head /\ Prev[head] # genesis
             top == IF epoch_change /\ fork_tail < stop THEN stop ELSE fork_tail
             g == [gc EXCEPT !.stop = stop, !.tail = tail, !.remaining = gc_blocks_limit,
                             !.bottom = Larger(tail, top - gc_fork_clean_step)]
         IN  IF stop > Height[head]
             THEN gc' = Idle /\ failed' = TRUE /\ UNCHANGED fork_tail
             ELSE gc' = ForksFrom(g, top - 1) /\ fork_tail' = top /\ UNCHANGED failed
    /\ UNCHANGED <<kind, head, final_head, stored, tail, chunk_tail, cold_head, crashes>>

\* The block clear_forks_data deletes next: it follows a fork down, then takes any
\* other block of the height.
Dangling ==
    IF gc.current # None /\ refcount[gc.current] = 0 THEN {gc.current}
    ELSE {b \in AtHeight(gc.height) : refcount[b] = 0}

\* Mutant: takes the deletions for the insertions.
ClearForkBlockApplyDeletions(b) ==
    /\ blocks' = blocks \ {b}
    /\ refcount' = [refcount EXCEPT ![b] = 0, ![Prev[b]] = @ - 1]
    /\ trie_changes' = trie_changes \ {b}
    /\ state' = [n \in Nodes |-> IF b \in trie_changes /\ n \in Deletions(b)
                                 THEN state[n] - 1 ELSE state[n]]

\* clear_block_data with GCMode::Fork: the insertions of the block are reverted.
ClearForkBlock(b) ==
    /\ blocks' = blocks \ {b}
    /\ refcount' = [refcount EXCEPT ![b] = 0, ![Prev[b]] = @ - 1]
    /\ trie_changes' = trie_changes \ {b}
    /\ state' = [n \in Nodes |-> IF b \in trie_changes /\ n \in Insertions(b)
                                 THEN state[n] - 1 ELSE state[n]]

\* One iteration of clear_forks_data, with its commit.
ClearFork(b) ==
    /\ gc.pc = "forks"
    /\ IF b \in blocks /\ b # genesis /\ refcount[Prev[b]] > 0
       THEN /\ ClearForkBlock(b)
            /\ gc' = IF gc.remaining = 1 THEN Idle
                     ELSE [gc EXCEPT !.remaining = @ - 1, !.current = Prev[b]]
            /\ UNCHANGED failed
       ELSE /\ gc' = Idle
            /\ failed' = TRUE
            /\ UNCHANGED <<blocks, refcount, trie_changes, state>>
    /\ UNCHANGED <<kind, head, final_head, chunks, tails, cold_head, crashes>>

\* A height without forks left: the fork tail moves down to it.
LowerForkTail ==
    /\ gc.pc = "forks"
    /\ Dangling = {}
    /\ fork_tail' = gc.height
    /\ gc' = ForksFrom(gc, gc.height - 1)
    /\ UNCHANGED <<kind, head, final_head, stored, tail, chunk_tail, cold_head, failed, crashes>>

\* The least height of a chunk that may still be needed when b goes.
MinChunkHeight(b) == Min({tail} \cup {HeightCreated(c) : c \in ChunksOf(b)})

\* clear_chunk_data_and_headers.
ClearChunkData(min_chunk_height) ==
    /\ chunks' = {c \in chunks : HeightCreated(c) < chunk_tail
                                    \/ HeightCreated(c) >= min_chunk_height}
    /\ chunk_tail' = min_chunk_height

\* clear_block_data with GCMode::Canonical: applies the deletions of b and removes the
\* data of its parent, with the chunks below those of the parent.
ClearCanonicalBlock(b) ==
    LET p == Prev[b]
    IN  /\ state' = [n \in Nodes |-> IF b \in trie_changes /\ n \in Deletions(b)
                                     THEN state[n] - 1 ELSE state[n]]
        /\ trie_changes' = trie_changes \ {b}
        /\ blocks' = blocks \ {p}
        /\ refcount' = [refcount EXCEPT ![p] = 0]
        /\ ClearChunkData(MinChunkHeight(p))

\* update_tail.
UpdateTail(h) ==
    /\ tail' = h
    /\ fork_tail' = Larger(fork_tail, h)

\* A height without a block.
SkipHeight ==
    /\ gc.pc = "canonical"
    /\ AtHeight(gc.height) = {}
    /\ UpdateTail(gc.height)
    /\ gc' = CanonicalFrom(gc, gc.height + 1)
    /\ UNCHANGED <<kind, head, final_head, stored, chunk_tail, cold_head, failed, crashes>>

\* Mutant: takes no block for the start of a fork.
StartsNoFork(b) == FALSE

StartsFork(b) == refcount[b] > 1

\* A fork starts at the parent of the first block of the height: clear_data stops.
StopAtFork(b) ==
    /\ gc.pc = "canonical"
    /\ StartsFork(Prev[b])
    /\ gc' = Idle
    /\ UNCHANGED <<kind, head, final_head, stored, tails, cold_head, failed, crashes>>

\* The height's block is the only child of its parent, whose data is removed.
ClearHeight(b) ==
    /\ gc.pc = "canonical"
    /\ ~StartsFork(Prev[b])
    /\ IF refcount[Prev[b]] = 1 /\ AtHeight(gc.height) = {b} /\ Prev[b] \in blocks
       THEN /\ ClearCanonicalBlock(b)
            /\ UpdateTail(gc.height)
            /\ gc' = CanonicalFrom([gc EXCEPT !.remaining = @ - 1], gc.height + 1)
            /\ UNCHANGED failed
       ELSE /\ gc' = Idle
            /\ failed' = TRUE
            /\ UNCHANGED <<stored, tails>>
    /\ UNCHANGED <<kind, head, final_head, cold_head, crashes>>

ClearData ==
    \/ BeginClearData
    \/ \E b \in Dangling : ClearFork(b)
    \/ LowerForkTail
    \/ SkipHeight
    \/ \E b \in AtHeight(gc.height) : StopAtFork(b) \/ ClearHeight(b)

\* The process stops and starts again with what is committed.
CrashGC ==
    /\ crashes < MaxCrashes
    /\ crashes' = crashes + 1
    /\ gc' = Idle
    /\ UNCHANGED <<kind, head, final_head, stored, tails, cold_head, failed>>

-----------------------------------------------------------------------------
(* Properties                                                              *)

Children(b) == {c \in blocks \ {genesis} : Prev[c] = b}

\* The blocks clear_data still comes to: from the highest block of the canonical chain at
\* or below the tail on.
LiveBlocks ==
    LET oldest == Max({0} \cup {h \in {Height[b] : b \in Chain[head] \cap blocks} : h <= tail})
    IN  {b \in blocks : Height[b] >= oldest}

\* The trie changes whose deletions are never applied: those of the blocks on which a
\* state was built that came from peers.
StrandedChanges == {b \in trie_changes : Prev[b] \notin blocks}

\* Neither an assertion nor an error of clear_data is ever hit: a block to clear is in
\* the store, the counts do not fall below zero, a block of the canonical chain has a
\* count, and the block after the tail is alone at its height.
ClearDataNeverFails == ~failed

\* The counts clear_data trusts to find forks are those of the children in the store,
\* after every commit.
RefCountsAreChildren == \A b \in LiveBlocks : refcount[b] = Cardinality(Children(b))

\* Exactly the nodes of the states of the blocks in the store are in the store: no state of
\* them is damaged and nothing else is left behind, but for what was deleted by the blocks
\* that state sync applied.
StoredStates ==
    LET live == UNION {StateOf[b] : b \in LiveBlocks}
    IN  /\ live \subseteq StoredNodes
        /\ StoredNodes \subseteq live \cup UNION {Deletions(b) : b \in StrandedChanges}

\* The chunks of every block in the store are there, also those that were included
\* far below it because the shard missed chunks since.
ChunksAreKept == \A b \in LiveBlocks : ChunksOf(b) \subseteq chunks

\* What a state sync saved before a crash made it begin again for a later epoch: the last
\* block of an epoch.  Nothing removes it.
Leftovers ==
    IF crashes = 0 \/ kind = "Hot" THEN {}
    ELSE {Prev[epoch_first_block[b]] : b \in {c \in Blocks : epoch_first_block[c] # genesis}}

\* No chunk is below chunk_tail, where clear_data would never come to it, but for those of
\* the leftovers.
NoChunkIsForgotten ==
    {c \in chunks : HeightCreated(c) < chunk_tail} \subseteq UNION {ChunksOf(b) : b \in Leftovers}

\* GC invariant of the comment on clear_data: there is one oldest block on the
\* canonical chain, and the blocks in the store are a tree that grows from it.  The only
\* others are leftovers.
OneTail ==
    LET live == LiveBlocks
    IN  /\ \E t \in Chain[head] \cap live : \A b \in live \ {t} : b # genesis /\ Prev[b] \in live
        /\ blocks \ live \subseteq Leftovers

\* The canonical chain is kept from the tail on, and the tail stays below the epochs to
\* keep: every ancestor of the head at or above the tail is in the store.
ChainAboveTailIsKept == {b \in Chain[head] : Height[b] >= tail} \subseteq blocks

\* fork_tail and chunk_tail keep their order with the tail: clear_data would look for
\* forks where there is nothing, or miss chunks.
TailsInOrder == chunk_tail <= tail /\ tail <= fork_tail

\* What clear_data relies on when it is called again, after every commit and every crash:
\* one tail from which all blocks grow, complete above it, with the right counts of
\* children and with all chunks of its blocks.
StoreInvariant ==
    /\ OneTail /\ ChainAboveTailIsKept /\ TailsInOrder
    /\ RefCountsAreChildren /\ ChunksAreKept /\ NoChunkIsForgotten

-----------------------------------------------------------------------------
(* The store of a node that never synced state, as the proofs need it     *)

\* The blocks of the hot store are a tree that grows from t, the only one at or below
\* the tail.
Tree(t) ==
    /\ IsFiniteSet(blocks) /\ blocks \subseteq Blocks /\ t \in blocks
    /\ tail \in Nat /\ Height[t] <= tail
    /\ \A b \in blocks \ {t} : b # genesis /\ Prev[b] \in blocks /\ tail < Height[b]

\* The blocks but t that inserted a node.
Inserters(n, t) == {b \in blocks \ {t} : n \in Insertions(b)}

\* What is counted beside the blocks: the children of each, the trie changes that are not
\* applied yet, and for each node the state of t and the blocks that inserted it.
Counts(t) ==
    /\ trie_changes = blocks \ {t}
    /\ refcount = [b \in Blocks |-> IF b \in blocks THEN Cardinality(Children(b)) ELSE 0]
    /\ state = [n \in Nodes |-> (IF n \in StateOf[t] THEN 1 ELSE 0) + Cardinality(Inserters(n, t))]

StoredTree == \E t \in Blocks : Tree(t) /\ Counts(t)

\* All chunks of the blocks are there, and none is below chunk_tail.
ChunksHeld ==
    /\ chunks \subseteq Blocks \X Shards
    /\ \A b \in blocks : ChunksOf(b) \subseteq chunks
    /\ \A c \in chunks : HeightCreated(c) >= chunk_tail
=============================================================================
