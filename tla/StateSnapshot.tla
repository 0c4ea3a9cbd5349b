---------------------------- MODULE StateSnapshot ----------------------------
(***************************************************************************)
(* The state snapshots of a node (chain/chain/src/state_snapshot_actor.rs, *)
(* core/store/src/trie/state_snapshot.rs) on top of its flat storages.     *)
(* When the head ends an epoch, the client stops the flat heads and asks   *)
(* the actor for a snapshot: the actor deletes the old one, checkpoints    *)
(* the store, moves the flat heads of the copy and lets those of the node  *)
(* go on.                                                                  *)
(*                                                                         *)
(* A snapshot is made every epoch (StateSnapshotType::EveryEpoch).  Nobody *)
(* reads the copy before its hash is stored.                               *)
(***************************************************************************)
EXTENDS FlatStorageCreator

CONSTANTS
    NewChunks,       \* the shards with a new chunk in each block
    first_head,      \* the head when the node starts for the first time
    NotReady,        \* the shards without a flat storage then
    MaxProcessing, MaxCrashes    \* bounds

\* The block that included the last chunk of the shard.
IncludedIn[b \in Blocks] ==
    [s \in Shards |-> IF b = genesis \/ s \in NewChunks[b] THEN b ELSE IncludedIn[Prev[b]][s]]

EndsEpoch(b) == b # genesis /\ NextBlockInNextEpoch(b, epoch_first_block[b])

\* The state of a shard changes with its chunks, or with the accounts of the validators at
\* the start of an epoch, and no shard misses all the chunks of an epoch.  Some shard has a
\* flat storage.
ASSUME SnapshotAssumption ==
    /\ NewChunks \in [Blocks -> SUBSET Shards]
    /\ \A b \in Blocks \ {genesis}, s \in Shards :
         /\ Changed[b][s] # {} => s \in NewChunks[b] \/ epoch_first_block[b] = b
         /\ EndsEpoch(b) => epoch_first_block[IncludedIn[b][s]] = epoch_first_block[b]
    /\ NotReady \subseteq Shards /\ NotReady # Shards
    /\ first_head \in Blocks

VARIABLES
    request,         \* the message of the actor and how far it is with it
    snapshot,        \* ShardTries::state_snapshot, None or a snapshot
    directory,       \* the snapshot in the file system
    snapshot_key,    \* STATE_SNAPSHOT_KEY
    crashes

snapshotVars == <<request, snapshot, directory, snapshot_key>>
flatVars == <<chainVars, diskVars, storages, processing, client, failed>>
vars == <<flatVars, creatorVars, snapshotVars, crashes>>

\* Of the shards that are not ready, the blocks of the node have no deltas.
Init ==
    /\ FlatInit(first_head)
    /\ status = [s \in Shards |-> IF s \in NotReady THEN Empty ELSE Ready(genesis)]
    /\ flat = [s \in Shards |-> [k \in Keys |-> IF s \in NotReady THEN None ELSE genesis]]
    /\ deltas = [s \in Shards |-> IF s \in NotReady THEN <<>> ELSE DeltasOfChain(s, first_head)]
    /\ storages = [s \in Shards |-> IF s \in NotReady THEN None ELSE LoadStorage(genesis, deltas[s])]
    /\ start_height = Height[first_head]
    /\ fetching = [s \in Shards |-> None]
    /\ request = None /\ snapshot = None /\ directory = None /\ snapshot_key = None
    /\ crashes = 0

-----------------------------------------------------------------------------
(* Locking the flat heads                                                  *)

\* set_flat_state_updates_mode succeeds if it changes the mode of every flat storage, and
\* else changes none: it rolls back.
CanSetMode(enabled) ==
    \A s \in Shards : storages[s] # None => storages[s].move_head_enabled # enabled

SetMode(enabled) ==
    storages' = [s \in Shards |-> IF storages[s] = None \/ ~CanSetMode(enabled) THEN storages[s]
                                  ELSE [storages[s] EXCEPT !.move_head_enabled = enabled]]

NewRequest == [pc |-> "delete", prev |-> Prev[head], block |-> head]

\* make_snapshot_callback.
MakeSnapshot ==
    /\ SetMode(FALSE)
    /\ request' = IF CanSetMode(FALSE)
                  THEN NewRequest ELSE request

\* should_make_or_delete_snapshot.
ShouldMakeSnapshot == EndsEpoch(head)

\* start_process_block_async up to the scheduling of its chunks.
StartProcessBlock(b) ==
    /\ client.pc = "idle"
    /\ b \notin blocks \cup processing /\ Prev[b] \in blocks
    /\ Finalizable(b, final_head)
    /\ Cardinality(processing) < MaxProcessing
    /\ processing' = processing \cup {b}
    /\ IF ShouldMakeSnapshot THEN MakeSnapshot ELSE UNCHANGED <<storages, request>>
    /\ UNCHANGED <<chainVars, diskVars, client, failed, creatorVars, snapshot, directory,
                   snapshot_key, crashes>>

-----------------------------------------------------------------------------
(* StateSnapshotActor                                                      *)

At(pc) == request # None /\ request.pc = pc

GoTo(pc) == request' = [request EXCEPT !.pc = pc]

\* delete_state_snapshot: the files, then the key.
DeleteFiles ==
    /\ At("delete")
    /\ snapshot' = None /\ directory' = None
    /\ GoTo("unset")
    /\ UNCHANGED <<flatVars, creatorVars, snapshot_key, crashes>>

UnsetKey ==
    /\ At("unset")
    /\ snapshot_key' = None
    /\ GoTo("create")
    /\ UNCHANGED <<flatVars, creatorVars, snapshot, directory, crashes>>

\* chunk.prev_block_hash(), which for a chunk of genesis is no block.
DesiredFlatHead(b, s) == IF IncludedIn[b][s] = genesis THEN None ELSE Prev[IncludedIn[b][s]]

\* StateSnapshot::new moves the flat head of a shard of the copy.
SnapshotOfShard(s) ==
    IF status[s].kind # "Ready" THEN None
    ELSE LET st == LoadStorage(status[s].block, deltas[s])
             desired == DesiredFlatHead(request.block, s)
             path == IF desired = None THEN {None} ELSE BlocksToHead(st, desired)
         IN  [head |-> IF None \in path THEN st.head ELSE desired,
              values |-> IF None \in path THEN flat[s] ELSE ApplyChanges(flat[s], path, s)]

\* create_state_snapshot up to the new StateSnapshot.
CreateSnapshot ==
    /\ At("create")
    /\ LET new == [prev |-> request.prev, block |-> request.block,
                   shards |-> [s \in Shards |-> SnapshotOfShard(s)]]
       IN  snapshot' = new /\ directory' = new
    /\ GoTo("set")
    /\ UNCHANGED <<flatVars, creatorVars, snapshot_key, crashes>>

SetKey ==
    /\ At("set")
    /\ snapshot_key' = request.prev
    /\ GoTo("unlock")
    /\ UNCHANGED <<flatVars, creatorVars, snapshot, directory, crashes>>

Unlock ==
    /\ At("unlock")
    /\ SetMode(TRUE)
    /\ request' = None
    /\ UNCHANGED <<chainVars, diskVars, processing, client, failed, creatorVars, snapshot,
                   directory, snapshot_key, crashes>>

Actor == DeleteFiles \/ UnsetKey \/ CreateSnapshot \/ SetKey \/ Unlock

-----------------------------------------------------------------------------

\* maybe_open_state_snapshot.
Opens == snapshot_key # None /\ directory # None /\ directory.prev = snapshot_key

\* The node starts again: FlatStorageCreator::new, and the snapshot is opened.
Crash ==
    /\ crashes < MaxCrashes
    /\ crashes' = crashes + 1
    /\ processing' = {}
    /\ client' = NoUpdate
    /\ storages' = [s \in Shards |-> IF status[s].kind # "Ready" THEN None
                                     ELSE LoadStorage(status[s].block, deltas[s])]
    /\ start_height' = Height[head]
    /\ fetching' = [s \in Shards |-> None]
    /\ request' = None
    /\ snapshot' = IF Opens THEN directory ELSE None
    /\ UNCHANGED <<chainVars, diskVars, failed, directory, snapshot_key>>

\* postprocess_block, one commit at a time.
PostprocessBlock ==
    /\ \/ \E b \in processing : CommitBlock(b)
       \/ \E s \in Shards : BeginUpdate(s) \/ MoveFlatHead(s)
       \/ EndUpdate
    /\ UNCHANGED <<creatorVars, snapshotVars, crashes>>

FailBlock ==
    /\ \E b \in processing : ApplyChunksFails(b)
    /\ UNCHANGED <<creatorVars, snapshotVars, crashes>>

Create == (\E s \in Shards : UpdateStatus(s)) /\ UNCHANGED <<snapshotVars, crashes>>

Fetch ==
    /\ \E s \in Shards, p \in Keys : FetchStatePart(s, p)
    /\ UNCHANGED <<snapshotVars, crashes>>

Process == \E b \in Blocks \ {genesis} : StartProcessBlock(b)

Next == Process \/ PostprocessBlock \/ FailBlock \/ Create \/ Fetch \/ Actor \/ Crash

\* The client thread finishes what it does and runs update_status periodically, and the
\* threads that fetch parts go on.
Fairness == WF_vars(PostprocessBlock \/ Create \/ Fetch)

Spec == Init /\ [][Next]_vars /\ Fairness

-----------------------------------------------------------------------------
(* Properties                                                              *)

TypeOK ==
    /\ processing \cup blocks \cup {head, final_head} \subseteq Blocks
    /\ \A s \in Shards :
         /\ status[s].kind \in {"Empty", "SavingDeltas", "FetchingState", "CatchingUp", "Ready"}
         /\ flat[s] \in [Keys -> Blocks \cup {None}]
         /\ DOMAIN deltas[s] \subseteq blocks
         /\ fetching[s] = None \/ fetching[s] \subseteq Keys
    /\ snapshot_key \in Blocks \cup {None}
    /\ start_height \in Nat /\ failed \in BOOLEAN /\ crashes \in 0 .. MaxCrashes

\* Memory, disk and flat head of every shard agree and no old delta is left, beside the
\* creation of a flat storage and snapshots.
FlatInvariant == TypeOK /\ FlatStateIsThatOfHead /\ OldDeltasAreGone

\* Comment of StateSnapshot::new: a snapshot is at the height that lets it replay the last
\* chunk of each shard, however far the chain went while it was made and wherever a crash
\* fell; of a shard whose flat storage was created only now it may be later.  Its values
\* are those of its height.
SnapshotIsRight ==
    snapshot # None /\ snapshot_key = snapshot.prev =>
        \A s \in Shards :
            LET copy == snapshot.shards[s]
                included == IncludedIn[snapshot.block][s]
            IN  /\ copy # None => copy.values = Written[copy.head][s]
                /\ s \notin NotReady /\ included # genesis => copy.head = Prev[included]

\* set_flat_state_updates_mode, "Rollbacks should work": when the actor is done with its
\* snapshot, the flat heads may move again.
UnlockedAfterSnapshot ==
    request = None => \A s \in Shards : storages[s] # None => storages[s].move_head_enabled
=============================================================================
