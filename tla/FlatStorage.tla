----------------------------- MODULE FlatStorage -----------------------------
(***************************************************************************)
(* The flat storage of a node (core/store/src/flat): the values of all     *)
(* keys of a shard at its flat head, and for every later block a delta, on *)
(* the disk and in memory.  The client thread adds a delta with each block *)
(* it commits and then moves the flat heads, one commit per block; other   *)
(* threads read while they apply chunks.                                   *)
(*                                                                         *)
(* A value is named by the block that wrote it, so that a delta is the set *)
(* of the keys its block changed; to delete a key is to write it.  Of a    *)
(* delta's metadata the model keeps prev_block_with_changes.  The node     *)
(* tracks all shards.                                                      *)
(***************************************************************************)
EXTENDS BlockTree, FiniteSets, FiniteSetsExt, Functions, TLC

CONSTANTS
    Shards, Keys,
    Changed,         \* the keys of each shard that a block changes
    None

ASSUME FlatAssumption ==
    /\ Shards \subseteq Nat
    /\ Changed \in [Blocks -> [Shards -> SUBSET Keys]]
    /\ None \notin Blocks

VARIABLES
    blocks, head, final_head,    \* the blocks committed, and the heads
    status, flat, deltas,        \* DBCol::FlatStorageStatus, FlatState, FlatStateDeltaMetadata
    storages,        \* FlatStorageManagerInner::flat_storages, None where there is none
    processing,      \* blocks_in_processing
    client,          \* the block whose flat heads are moved, shard by shard
    failed           \* a panic

chainVars == <<blocks, head, final_head>>
diskVars  == <<status, flat, deltas>>

\* The values of all keys after a block.
Written[b \in Blocks] ==
    [s \in Shards |->
        [k \in Keys |-> IF b = genesis \/ k \in Changed[b][s] THEN b ELSE Written[Prev[b]][s][k]]]

Ready(b) == [kind |-> "Ready", block |-> b]

\* FlatStorage::new loads all deltas of the disk.
LoadStorage(b, ds) == [head |-> b, deltas |-> ds, move_head_enabled |-> TRUE]

NoUpdate == [pc |-> "idle", block |-> None, shards |-> {}, path |-> {}]

-----------------------------------------------------------------------------
(* Looking up and moving                                                   *)

\* Mutant: skips to the previous block with changes also below the flat head.
BlocksToHeadFar(st, target) ==
    LET to[b \in Blocks] ==
            IF b = st.head THEN {}
            ELSE IF b \notin DOMAIN st.deltas THEN {None}
            ELSE IF st.deltas[b] = None THEN to[Prev[b]] \cup {b}
            ELSE to[st.deltas[b]]
    IN  to[target] \cup (IF target = st.head THEN {} ELSE {target})

\* get_blocks_to_head: the blocks with changes from the target to the flat head, and the
\* target; with None among them if a delta is missing.
BlocksToHead(st, target) ==
    LET to[b \in Blocks] ==
            IF b = st.head THEN {}
            ELSE IF b \notin DOMAIN st.deltas THEN {None}
            ELSE IF st.deltas[b] = None THEN to[Prev[b]] \cup {b}
            ELSE IF Height[st.deltas[b]] > Height[st.head] THEN to[st.deltas[b]]
            ELSE {}
    IN  to[target] \cup (IF target = st.head THEN {} ELSE {target})

Highest(bs) == CHOOSE b \in bs : \A c \in bs : Height[c] <= Height[b]
Lowest(bs)  == CHOOSE b \in bs : \A c \in bs : Height[b] <= Height[c]

\* The values after the changes of these blocks in turn.
ApplyChanges(values, path, s) ==
    [k \in Keys |-> LET writers == {b \in path : k \in Changed[b][s]}
                    IN  IF writers = {} THEN values[k] ELSE Highest(writers)]

\* Mutant: keeps one block with changes behind the final block.
NewFlatHeadGapOne(st, target) ==
    LET new_head[b \in Blocks] ==
            IF b = st.head THEN b
            ELSE IF b \notin DOMAIN st.deltas THEN None
            ELSE IF st.deltas[b] = None THEN b
            ELSE IF Height[st.deltas[b]] <= Height[st.head] THEN st.head
            ELSE new_head[st.deltas[b]]
    IN  new_head[target]

\* get_new_flat_head, not strict: the second block with changes below the target, or the
\* flat head; None if a delta is missing.
NewFlatHead(st, target) ==
    LET new_head[n \in 0 .. 1, b \in Blocks] ==
            IF b = st.head THEN b
            ELSE IF b \notin DOMAIN st.deltas THEN None
            ELSE IF st.deltas[b] = None THEN IF n = 1 THEN b ELSE new_head[1, Prev[b]]
            ELSE IF Height[st.deltas[b]] <= Height[st.head] THEN st.head
            ELSE new_head[n, st.deltas[b]]
    IN  new_head[0, target]

Without(ds, bs) == Restrict(ds, DOMAIN ds \ bs)

-----------------------------------------------------------------------------
(* Blocks                                                                  *)

\* The last block up to b that changed the shard.
LastChange[b \in Blocks] ==
    [s \in Shards |-> IF b = genesis \/ Changed[b][s] # {} THEN b ELSE LastChange[Prev[b]][s]]

\* The deltas of the shard for the chain up to b.
DeltasOfChain(s, b) ==
    [c \in Chain[b] \ {genesis} |-> IF Changed[c][s] # {} THEN None ELSE LastChange[c][s]]

\* The node has the chain up to b.
FlatInit(b) ==
    /\ blocks = Chain[b] /\ head = b /\ final_head = last_final_block[b]
    /\ processing = {}
    /\ client = NoUpdate
    /\ failed = FALSE

\* get_prev_block_with_changes looks for the parent on the disk.
PrevBlockWithChanges(s, b) ==
    IF Prev[b] \in DOMAIN deltas[s]
    THEN IF deltas[s][Prev[b]] = None THEN Prev[b] ELSE deltas[s][Prev[b]]
    ELSE IF status[s] = Ready(Prev[b]) THEN Prev[b] ELSE None

Delta(s, b) == b :> (IF Changed[b][s] # {} THEN None ELSE PrevBlockWithChanges(s, b))

\* add_delta refuses a block whose parent is neither the flat head nor among the deltas.
Supported(st, b) == st = None \/ Prev[b] = st.head \/ Prev[b] \in DOMAIN st.deltas

AddDelta(s, b) ==
    IF storages[s] = None THEN None
    ELSE [storages[s] EXCEPT !.deltas = Delta(s, b) @@ @]

\* postprocess_block_only: the deltas go to the memory shard by shard and to the disk with
\* the block; a shard that refuses its delta stops it.
CommitBlock(b) ==
    LET refusing == {s \in Shards : ~Supported(storages[s], b)}
        added == IF refusing = {} THEN Shards ELSE {s \in Shards : s < Min(refusing)}
    IN  /\ client.pc = "idle"
        /\ b \in processing
        /\ processing' = processing \ {b}
        /\ storages' = [s \in Shards |-> IF s \in added THEN AddDelta(s, b) ELSE storages[s]]
        /\ IF refusing = {}
           THEN /\ blocks' = blocks \cup {b}
                /\ head' = Higher(b, head)
                /\ final_head' = Higher(last_final_block[b], final_head)
                /\ deltas' = [s \in Shards |-> Delta(s, b) @@ deltas[s]]
                /\ client' = [pc |-> "flat", block |-> b, shards |-> Shards, path |-> {}]
           ELSE UNCHANGED <<chainVars, deltas, client>>
        /\ UNCHANGED <<status, flat, failed>>

\* The chunks of the block are not applied: a read did not find its way to the flat head.
ApplyChunksFails(b) ==
    /\ b \in processing
    /\ \E s \in Shards : storages[s] # None /\ None \in BlocksToHead(storages[s], Prev[b])
    /\ processing' = processing \ {b}
    /\ UNCHANGED <<chainVars, diskVars, storages, client, failed>>

-----------------------------------------------------------------------------
(* update_flat_storage_for_shard, after the commit                         *)

\* The next shard: where its flat head goes, if it moves.
BeginUpdate(s) ==
    /\ client.pc = "flat" /\ client.path = {}
    /\ client.shards # {} /\ s = Min(client.shards)
    /\ LET st == storages[s]
           new_head == NewFlatHead(st, last_final_block[client.block])
           path == BlocksToHead(st, new_head)
           moves == /\ st # None
                    /\ st.move_head_enabled
                    /\ new_head \notin {None, st.head}
                    /\ None \notin path
       IN  client' = IF moves THEN [client EXCEPT !.path = path]
                     ELSE [client EXCEPT !.shards = @ \ {s}]
    /\ UNCHANGED <<chainVars, diskVars, storages, processing, failed>>

\* The deltas that go with a move of the flat head to b.
RemovedDeltas(st, b) == {c \in DOMAIN st.deltas : Height[c] <= Height[b]}

\* Mutant: the new flat head is not part of the commit.
MoveFlatHeadForget(s) ==
    LET b == Lowest(client.path)
        removed == RemovedDeltas(storages[s], b)
        rest == client.path \ {b}
    IN  /\ client.path # {} /\ s = Min(client.shards)
        /\ IF b \in DOMAIN deltas[s]
           THEN /\ flat' = [flat EXCEPT ![s] = ApplyChanges(@, {b}, s)]
                /\ deltas' = [deltas EXCEPT ![s] = Without(@, removed)]
                /\ storages' = [storages EXCEPT ![s] =
                                  [@ EXCEPT !.head = b, !.deltas = Without(@, removed)]]
                /\ UNCHANGED <<status, failed>>
           ELSE /\ failed' = TRUE
                /\ UNCHANGED <<diskVars, storages>>
        /\ client' = [client EXCEPT !.path = rest,
                                    !.shards = IF rest = {} THEN @ \ {s} ELSE @]
        /\ UNCHANGED <<chainVars, processing>>

\* One block of the way of update_flat_head, with its commit: the flat head, the values
\* and the removal of the old deltas in one.
MoveFlatHead(s) ==
    LET b == Lowest(client.path)
        removed == RemovedDeltas(storages[s], b)
        rest == client.path \ {b}
    IN  /\ client.path # {} /\ s = Min(client.shards)
        /\ IF b \in DOMAIN deltas[s]
           THEN /\ status' = [status EXCEPT ![s] = Ready(b)]
                /\ flat' = [flat EXCEPT ![s] = ApplyChanges(@, {b}, s)]
                /\ deltas' = [deltas EXCEPT ![s] = Without(@, removed)]
                /\ storages' = [storages EXCEPT ![s] =
                                  [@ EXCEPT !.head = b, !.deltas = Without(@, removed)]]
                /\ UNCHANGED failed
           ELSE /\ failed' = TRUE
                /\ UNCHANGED <<diskVars, storages>>
        /\ client' = [client EXCEPT !.path = rest,
                                    !.shards = IF rest = {} THEN @ \ {s} ELSE @]
        /\ UNCHANGED <<chainVars, processing>>

EndUpdate ==
    /\ client.pc = "flat" /\ client.shards = {}
    /\ client' = NoUpdate
    /\ UNCHANGED <<chainVars, diskVars, storages, processing, failed>>

-----------------------------------------------------------------------------
(* Properties                                                              *)

\* FlatStorage::get_value for all keys, or None when the block is not supported.
GetValues(s, b) ==
    LET path == BlocksToHead(storages[s], b)
    IN  IF None \in path THEN None ELSE ApplyChanges(flat[s], path, s)

\* No delta is missing where update_flat_head or the creation of a flat storage needs it,
\* and no other assertion of them fails: each of these is a panic.
NoPanic == ~failed

\* First invariant of the comment on FlatStorageInner: the flat head in memory, the one on
\* the disk and the flat state agree, after every commit and every crash.
FlatStateIsThatOfHead ==
    \A s \in Shards :
        /\ status[s].kind = "Ready" => flat[s] = Written[status[s].block][s]
        /\ storages[s] # None => status[s] = Ready(storages[s].head)

\* Second invariant of that comment: whatever the flat heads do meanwhile and after every
\* crash, the flat storage has the way to each block that may still become final, so that
\* to apply chunks on top of it reads the values of its state.
ReadsAreRight ==
    \A s \in Shards, b \in {c \in blocks : Finalizable(c, final_head)} :
        storages[s] # None => GetValues(s, b) = Written[b][s]

\* The deltas do not pile up: those of the flat head and below are gone from the memory,
\* and the disk has no other ones.
OldDeltasAreGone ==
    \A s \in Shards :
        storages[s] # None =>
            /\ \A b \in DOMAIN storages[s].deltas : Height[b] > Height[storages[s].head]
            /\ DOMAIN deltas[s] \subseteq DOMAIN storages[s].deltas
=============================================================================
