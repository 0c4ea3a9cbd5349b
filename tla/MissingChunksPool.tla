-------------------------- MODULE MissingChunksPool --------------------------
(***************************************************************************)
(* The pool of blocks that wait for chunks (chain/chain/src/missing_chunks *)
(* .rs).  A pool is a record; an absent map entry is an empty set.         *)
(*   missing_chunks   chunk -> the blocks that wait for it                 *)
(*   blocks_missing   block -> the chunks it waits for                     *)
(*   waiting          the blocks in blocks_waiting_for_chunks              *)
(*   indexed          the blocks in height_idx, under their heights        *)
(*   ready            the blocks in blocks_ready_to_process                *)
(* The pool promises what it does for callers that do not add a block it   *)
(* contains (check_known) nor one without missing chunks.                  *)
(***************************************************************************)
EXTENDS Integers, FiniteSets

CONSTANTS Block, Chunk, HeightOf, MAX_BLOCKS_MISSING_CHUNKS

ASSUME MissingChunksAssumption ==
    /\ HeightOf \in [Block -> Nat]
    /\ MAX_BLOCKS_MISSING_CHUNKS \in Nat

VARIABLE pool

EmptyPool ==
    [missing_chunks |-> [c \in Chunk |-> {}], blocks_missing |-> [b \in Block |-> {}],
     waiting |-> {}, indexed |-> {}, ready |-> {}]

Recorded(p) == {b \in Block : p.blocks_missing[b] # {}}

\* add_block_with_missing_chunks.  A full pool ignores the block.
AddBlock(p, b, missing) ==
    IF Cardinality(Recorded(p)) >= MAX_BLOCKS_MISSING_CHUNKS THEN p
    ELSE [p EXCEPT
            !.missing_chunks =
                [c \in Chunk |-> IF c \in missing THEN @[c] \cup {b} ELSE @[c]],
            !.blocks_missing = [@ EXCEPT ![b] = missing],
            !.waiting = @ \cup {b},
            !.indexed = @ \cup {b}]

\* The blocks for which c is the last missing chunk, those without a record included.
Completed(p, c) == {b \in p.missing_chunks[c] : p.blocks_missing[b] \subseteq {c}}

\* Mutant: leaves the blocks in the index by height.
AcceptChunkIndexed(p, c) ==
    LET done == Completed(p, c) \cap p.waiting IN
    [p EXCEPT
       !.missing_chunks = [@ EXCEPT ![c] = {}],
       !.blocks_missing =
           [b \in Block |-> IF b \in p.missing_chunks[c] THEN @[b] \ {c} ELSE @[b]],
       !.waiting = @ \ done,
       !.ready = @ \cup done]

\* accept_chunk, with mark_block_as_ready.
AcceptChunk(p, c) ==
    LET done == Completed(p, c) \cap p.waiting IN
    [p EXCEPT
       !.missing_chunks = [@ EXCEPT ![c] = {}],
       !.blocks_missing =
           [b \in Block |-> IF b \in p.missing_chunks[c] THEN @[b] \ {c} ELSE @[b]],
       !.waiting = @ \ done,
       !.indexed = @ \ done,
       !.ready = @ \cup done]

\* Mutant: forgets the blocks, not what they wait for.
PruneWaiting(p, height) ==
    LET low == {b \in p.indexed : HeightOf[b] < height} IN
    [p EXCEPT !.waiting = @ \ low, !.indexed = @ \ low]

\* prune_blocks_below_height.
Prune(p, height) ==
    LET low == {b \in p.indexed : HeightOf[b] < height} IN
    [p EXCEPT
       !.missing_chunks =
           [c \in Chunk |-> @[c] \ {b \in low : c \in p.blocks_missing[b]}],
       !.blocks_missing = [b \in Block |-> IF b \in low THEN {} ELSE @[b]],
       !.waiting = @ \ low,
       !.indexed = @ \ low]

\* ready_blocks empties the heap.
TakeReady(p) == [p EXCEPT !.ready = {}]

-----------------------------------------------------------------------------
Init == pool = EmptyPool

Add(b, missing) ==
    /\ b \notin pool.waiting
    /\ missing # {}
    /\ pool' = AddBlock(pool, b, missing)

Accept(c) == pool' = AcceptChunk(pool, c)

PruneBelow(height) == pool' = Prune(pool, height)

ReadyBlocks == pool' = TakeReady(pool)

Next ==
    \/ \E b \in Block, missing \in SUBSET Chunk : Add(b, missing)
    \/ \E c \in Chunk : Accept(c)
    \/ \E height \in {HeightOf[b] + 1 : b \in Block} : PruneBelow(height)
    \/ ReadyBlocks

Spec == Init /\ [][Next]_pool

-----------------------------------------------------------------------------
PoolType ==
    [missing_chunks : [Chunk -> SUBSET Block], blocks_missing : [Block -> SUBSET Chunk],
     waiting : SUBSET Block, indexed : SUBSET Block, ready : SUBSET Block]

TypeOK == pool \in PoolType

\* The four maps of the pool agree: a chunk lists the blocks that wait for it and the
\* blocks list the chunks, a block waits as long as a chunk is missing, and the index
\* by height holds the blocks that wait.
Agree(p) ==
    /\ \A b \in Block, c \in Chunk : b \in p.missing_chunks[c] <=> c \in p.blocks_missing[b]
    /\ \A b \in Block : b \in p.waiting <=> p.blocks_missing[b] # {}
    /\ p.indexed = p.waiting

\* Hence accept_chunk never meets the "Invalid MissingChunksPool state" it warns of,
\* add_block_with_missing_chunks never the Occupied case, and pruning leaves nothing.
MapsAgree == Agree(pool)

\* The pool does not grow beyond MAX_BLOCKS_MISSING_CHUNKS.
WithinLimit == Cardinality(pool.waiting) <= MAX_BLOCKS_MISSING_CHUNKS

\* A block becomes ready in the step that accepts the last chunk it waits for, and in
\* no other.
ReadyWithLastChunk ==
    [][\A b \in Block :
         b \in pool'.ready \ pool.ready =>
             \E c \in Chunk : pool.blocks_missing[b] = {c} /\ pool'.missing_chunks[c] = {}]_pool
=============================================================================
