------------------------------ MODULE StateSync ------------------------------
(***************************************************************************)
(* What state sync does to the store of a node (run_sync_step of           *)
(* chain/client/src/client_actor.rs): a node that is two epochs behind the *)
(* headers empties its store with one commit per block                     *)
(* (reset_data_pre_state_sync), takes the last block before the epoch of   *)
(* the header head and the state of each shard from its peers, and goes on *)
(* from there (reset_heads_post_state_sync).  How far it is is kept in     *)
(* memory only: a node that restarts begins again, maybe for a later epoch.*)
(*                                                                         *)
(* The parts of a shard's state are downloaded and applied in one step, and*)
(* so are the blocks set_state_finalize applies on it: a crash in between  *)
(* leaves a part of what a crash after the step leaves.                    *)
(***************************************************************************)
EXTENDS GarbageCollection

CONSTANTS
    ShardOf,              \* the shard of each trie node
    block_fetch_horizon

ASSUME StateSyncAssumption ==
    /\ ShardOf \in [Nodes -> Shards]
    /\ block_fetch_horizon \in Nat

VARIABLES
    header_head,
    sync        \* SyncStatus::StateSync and where reset_data_pre_state_sync is

syncVars == <<header_head, sync>>

NotSyncing == [pc |-> "no", tail_prev_block_cleaned |-> FALSE, applied |-> {}, done |-> {}]

SyncInit == header_head = genesis /\ sync = NotSyncing

\* get_next_epoch_id_from_info: the hash of the last block of the epoch before.
NextEpochId(b) ==
    IF epoch_first_block[b] = genesis THEN None ELSE Prev[epoch_first_block[b]]

\* BlockInfo::epoch_id.
EpochId(b) ==
    IF epoch_first_block[b] = genesis THEN None ELSE NextEpochId(Prev[epoch_first_block[b]])

\* check_state_needed: a node with a cold store is archival.
StateNeeded(tip, header_tip) ==
    /\ kind # "Hot"
    /\ EpochId(header_tip) \notin {EpochId(tip), NextEpochId(tip)}
    /\ Height[tip] + block_fetch_horizon < Height[header_tip]

\* From the first commit of the reset to that of the new heads, also over a restart.
InStateSync == StateNeeded(head, header_head)

\* find_sync_hash, and the last block of the epoch before it.
SyncBlock == epoch_first_block[header_head]
SyncPrev  == Prev[SyncBlock]

Lower(a, b) == IF a < b THEN a ELSE b

-----------------------------------------------------------------------------
(* reset_data_pre_state_sync                                               *)

\* Header sync (sync_block_headers) has come to a header that makes block_sync.run ask for
\* state sync.
StartStateSync(b) ==
    /\ sync.pc = "no" /\ gc.pc = "idle" /\ ~failed
    /\ b = header_head \/ Height[b] > Height[header_head]
    /\ StateNeeded(head, b)
    /\ header_head' = b
    /\ sync' = [NotSyncing EXCEPT !.pc = "blocks"]
    /\ UNCHANGED gcVars

\* The blocks from the tail to the head, or to the sync block if that is lower.
ToReset ==
    {b \in blocks : tail <= Height[b] /\ Height[b] < Lower(Height[head] + 1, Height[SyncBlock])}

\* clear_block_data with GCMode::StateSync, which leaves the trie alone.
ClearStateSyncBlocks(gone) ==
    /\ blocks' = blocks \ gone
    /\ refcount' = [b \in Blocks |-> IF b \in gone THEN 0 ELSE refcount[b]]
    /\ trie_changes' = trie_changes \ gone

\* Mutant: forgets it.
NoBlockBeforeTail(b) == {}

\* If the tail is at a height without a block, the first commit takes the block before it
\* along.
BlockBeforeTail(b) ==
    IF sync.tail_prev_block_cleaned \/ b = genesis THEN {} ELSE {Prev[b]} \cap blocks

\* One commit for each block, upwards.
ResetBlock(b) ==
    /\ sync.pc = "blocks"
    /\ \A c \in ToReset : Height[b] <= Height[c]
    /\ ClearStateSyncBlocks({b} \cup BlockBeforeTail(b))
    /\ sync' = [sync EXCEPT !.tail_prev_block_cleaned = TRUE]
    /\ UNCHANGED <<kind, head, final_head, state, chunks, tails, cold_head, gc, failed, crashes,
                   header_head>>

\* "The largest height of chunk we have in storage is head.height + 1".
ResetChunks ==
    /\ sync.pc = "blocks"
    /\ ToReset = {}
    /\ ClearChunkData(Lower(Height[head] + 2, Height[SyncBlock]))
    /\ sync' = [sync EXCEPT !.pc = "chunks"]
    /\ UNCHANGED <<kind, head, final_head, blocks, refcount, trie_changes, state, tail, fork_tail,
                   cold_head, gc, failed, crashes, header_head>>

\* DBCol::State is emptied.  reset_tail only clears the tails of the update, of which then
\* none is written.
ResetState ==
    /\ sync.pc = "chunks"
    /\ state' = [n \in Nodes |-> 0]
    /\ sync' = [sync EXCEPT !.pc = "shards"]
    /\ UNCHANGED <<kind, head, final_head, blocks, refcount, trie_changes, chunks, tails,
                   cold_head, gc, failed, crashes, header_head>>

-----------------------------------------------------------------------------
(* The state and the heads                                                 *)

\* maybe_receive_state_sync_blocks: the block before the sync block is saved alone.
ReceiveSyncPrev ==
    /\ sync.pc = "shards"
    /\ SyncPrev \notin blocks
    /\ blocks' = blocks \cup {SyncPrev}
    /\ UNCHANGED <<kind, head, final_head, refcount, trie_changes, state, chunks, tails,
                   cold_head, gc, failed, crashes, syncVars>>

\* The state of a shard that peers have: the one before the shard's last chunk.
Downloaded(s) ==
    LET c == ChunkIn[SyncPrev][s]
    IN  {n \in StateOf[IF c = genesis THEN c ELSE Prev[c]] : ShardOf[n] = s}

\* The other actor that applies the parts of a shard (apply_parts).
ApplyParts(s) ==
    /\ sync.pc = "shards"
    /\ s \notin sync.applied
    /\ state' = [n \in Nodes |-> IF n \in Downloaded(s) THEN state[n] + 1 ELSE state[n]]
    /\ sync' = [sync EXCEPT !.applied = @ \cup {s}]
    /\ UNCHANGED <<kind, head, final_head, blocks, refcount, trie_changes, chunks, tails,
                   cold_head, gc, failed, crashes, header_head>>

\* The blocks set_state_finalize applies on that: from the one with the shard's last chunk
\* to SyncPrev.
BlocksToApply(s) ==
    {b \in Chain[SyncPrev] \ {genesis} : Height[b] >= Height[ChunkIn[SyncPrev][s]]}

\* Its result has come to the client: set_state_finalize.
FinalizeShard(s) ==
    /\ sync.pc = "shards"
    /\ s \in sync.applied \ sync.done
    /\ state' = [n \in Nodes |->
                   IF ShardOf[n] = s
                   THEN state[n] + Cardinality({b \in BlocksToApply(s) : n \in Insertions(b)})
                   ELSE state[n]]
    /\ trie_changes' = trie_changes \cup BlocksToApply(s)
    /\ chunks' = chunks \cup {<<ChunkIn[SyncPrev][s], s>>}
    /\ sync' = [sync EXCEPT !.done = @ \cup {s}]
    /\ UNCHANGED <<kind, head, final_head, blocks, refcount, tails, cold_head, gc, failed, crashes,
                   header_head>>

\* reset_heads_post_state_sync, once all shards are done and the block is there.
ResetHeads ==
    /\ sync.pc = "shards"
    /\ sync.done = Shards /\ SyncPrev \in blocks
    /\ head' = SyncPrev
    /\ final_head' = genesis
    /\ UpdateTail(Height[SyncPrev])
    /\ chunk_tail' = Min({HeightCreated(c) : c \in ChunksOf(SyncPrev)})
    /\ sync' = NotSyncing
    /\ UNCHANGED <<kind, stored, cold_head, gc, failed, crashes, header_head>>

SyncStep ==
    \/ \E b \in Blocks : StartStateSync(b)
    \/ \E b \in ToReset : ResetBlock(b)
    \/ ResetChunks \/ ResetState
    \/ ReceiveSyncPrev
    \/ \E s \in Shards : ApplyParts(s) \/ FinalizeShard(s)
    \/ ResetHeads

\* While state sync is due, block sync asks for no block and those of the tip are too far
\* ahead.
AcceptNext(b) ==
    /\ sync.pc = "no" /\ ~InStateSync
    /\ AcceptBlock(b)
    /\ header_head' = Higher(b, header_head)
    /\ UNCHANGED sync

CrashSync == CrashGC /\ sync' = NotSyncing /\ UNCHANGED header_head
=============================================================================
