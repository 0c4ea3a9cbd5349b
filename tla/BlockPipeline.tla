---------------------------- MODULE BlockPipeline ----------------------------
(***************************************************************************)
(* The way of a block through a node: Chain::start_process_block_async,    *)
(* the orphan pool, the missing-chunks pool, the blocks in processing,     *)
(* whose chunks are applied on other threads, and postprocess_block.       *)
(*                                                                         *)
(* Blocks and chunks come in any order and any number of times.  Their     *)
(* signatures and headers pass the checks of receive_block_impl; Bad are   *)
(* the blocks preprocess_block finds invalid after those, BadState the     *)
(* blocks whose chunks turn out invalid when they are applied.  All blocks *)
(* are of one epoch.                                                       *)
(***************************************************************************)
EXTENDS OrphanBlockPool

CONSTANTS
    Chunk, ChunksOf,      \* the new chunks of each block
    FinalOf,              \* the last final block of each block's chain
    Bad, BadState,
    MAX_BLOCKS_MISSING_CHUNKS,
    MAX_PROCESSING_BLOCKS,
    MaxFailures,          \* bound on failures that are no block's fault
    MaxIndexed            \* bound on the entries of prev_idx, stale ones included

VARIABLES
    chain,      \* Chain: its pools, and what it keeps in the store
    applied,    \* the channel from the threads that apply chunks
    failures

vars == <<chain, applied, failures>>

M == INSTANCE MissingChunksPool WITH pool <- chain.missing

Init ==
    /\ chain = [store |-> {Genesis}, head |-> Genesis, final_head |-> Genesis,
                chunks |-> {},          \* partial chunks in the store
                heights |-> {},         \* processed block heights
                invalid |-> {},         \* invalid_blocks
                processing |-> {},      \* blocks_in_processing
                orphans |-> NoOrphans, missing |-> M!EmptyPool,
                panicked |-> FALSE]
    /\ applied = <<>>
    /\ failures = 0

-----------------------------------------------------------------------------
(* start_process_block_impl                                                *)

Waiting(n) == n.missing.waiting

\* check_known.
Known(n, b) ==
    b \in n.store \cup n.processing \cup n.orphans.orphans \cup Waiting(n) \cup n.invalid

\* ping_missing_chunks.
MissingChunks(n, b) == ChunksOf[b] \ n.chunks

Up[b \in Block, k \in 0..NUM_ORPHAN_ANCESTORS_CHECK] ==
    IF k = 0 \/ b = Genesis THEN b ELSE Up[Prev[b], k - 1]

\* should_request_chunks_for_orphan: among its next ancestors is an accepted one, and
\* those before it are orphans or wait for chunks.
ShouldRequestChunks(n, b) ==
    /\ CanRequest(n.orphans, b)
    /\ MissingChunks(n, b) # {}
    /\ \E k \in 1..NUM_ORPHAN_ANCESTORS_CHECK :
           /\ Up[b, k] \in n.store
           /\ \A j \in 1..(k - 1) : Up[b, j] \in n.orphans.orphans \cup Waiting(n)

Ancestors[b \in Block] == {b} \cup (IF b = Genesis THEN {} ELSE Ancestors[Prev[b]])

\* check_if_finalizable.
IsFinalizable(n, b) == n.final_head \in Ancestors[b]

\* add_dry_run.
TooMany(n) == Cardinality(n.processing) >= MAX_PROCESSING_BLOCKS

\* preprocess_block and what follows its result: the block is dropped, kept in one of
\* the pools, marked invalid or scheduled.
Preprocess(n, b, old) ==
    CASE TooMany(n) -> n
      [] Known(n, b) -> n
      [] Prev[b] \notin n.store ->
             [n EXCEPT !.orphans = AddOrphan(@, b, ShouldRequestChunks(n, b), old)]
      [] b \in Bad -> [n EXCEPT !.invalid = @ \cup {b}]
      [] MissingChunks(n, b) # {} ->
             [n EXCEPT !.missing = M!AddBlock(@, b, MissingChunks(n, b))]
      [] ~IsFinalizable(n, b) -> n
      [] OTHER -> [n EXCEPT !.processing = @ \cup {b}]

\* start_process_block_async remembers the height, whatever became of the block.
StartProcessBlock(n, b, old) ==
    [Preprocess(n, b, old) EXCEPT !.heights = @ \cup {HeightOf[b]}]

StartProcessBlocks(n, blocks, old) ==
    FoldLeft(LAMBDA m, b : StartProcessBlock(m, b, old), n, blocks)

-----------------------------------------------------------------------------
(* postprocess_block                                                       *)

RequestChunks(n, blocks) ==
    FoldLeft(LAMBDA m, b : IF ShouldRequestChunks(m, b)
                           THEN [m EXCEPT !.orphans = MarkRequested(@, b)] ELSE m,
             n, blocks)

\* check_orphans, after p was accepted.  It unwraps each orphan the index names.
CheckOrphans(n, p, old) ==
    LET found == OrphansWithinDepth(n.orphans, p)
        marked == RequestChunks(n, found)
    IN  IF Range(found) \subseteq n.orphans.orphans
        THEN StartProcessBlocks([marked EXCEPT !.orphans = RemoveByPrev(@, p)],
                                Children(marked.orphans, p), old)
        ELSE [n EXCEPT !.panicked = TRUE]

IsNewHead(n, b) == HeightOf[b] > HeightOf[n.head]

Higher(b, c) == IF HeightOf[b] > HeightOf[c] THEN b ELSE c

\* Mutant: the block stays in processing.
AcceptKeeps(n, b) ==
    [n EXCEPT !.store = @ \cup {b}, !.head = IF IsNewHead(n, b) THEN b ELSE @]

\* The block is stored, with the heads.
Accept(n, b) ==
    [n EXCEPT
       !.processing = @ \ {b},
       !.store = @ \cup {b},
       !.head = IF IsNewHead(n, b) THEN b ELSE @,
       !.final_head = Higher(FinalOf[b], @)]

\* Mutant: whatever failed, the block is invalid.
RejectAlways(n, e) ==
    [n EXCEPT !.processing = @ \ {e.block}, !.invalid = @ \cup {e.block}]

\* Applying the chunks failed; the block is invalid if the data was bad.
Reject(n, e) ==
    [n EXCEPT
       !.processing = @ \ {e.block},
       !.invalid = IF e.result = "bad" THEN @ \cup {e.block} ELSE @]

PostprocessBlock(n, e, old) ==
    IF n.panicked THEN n
    ELSE IF e.result = "ok" THEN CheckOrphans(Accept(n, e.block), e.block, old)
    ELSE Reject(n, e)

\* on_block_accepted prunes below the last final height of each new head.
PruneHeight(results) ==
    LET accepted == {i \in DOMAIN results : results[i].result = "ok"}
        HeightAt(i) == HeightOf[results[i].block]
        heads == {i \in accepted : /\ HeightAt(i) > HeightOf[chain.head]
                                   /\ \A j \in accepted : j < i => HeightAt(j) < HeightAt(i)}
    IN  Max({0} \cup {HeightOf[FinalOf[results[i].block]] : i \in heads})

-----------------------------------------------------------------------------
(* The handlers of the client                                              *)

\* The orphans that have come of age when the pool overflows.
Old ==
    IF Cardinality(chain.orphans.orphans) < MAX_ORPHAN_SIZE THEN {{}}
    ELSE SUBSET chain.orphans.orphans

\* BlockResponse: check_block_height and start_process_block.  A block that was not
\* requested is dropped if its height was seen before.
ReceiveBlock(b, was_requested, old) ==
    /\ ~chain.panicked
    /\ \/ was_requested
       \/ /\ \A o \in chain.store : HeightOf[o] # HeightOf[b]
          /\ Prev[b] = chain.head \/ HeightOf[b] \notin chain.heights
    /\ Len(chain.orphans.prev_idx[Prev[b]]) < MaxIndexed
    /\ chain' = StartProcessBlock(chain, b, old)
    /\ UNCHANGED <<applied, failures>>

\* on_chunk_completed: the blocks the chunk completes are started from the lowest.
ChunkCompleted(c, old) ==
    /\ ~chain.panicked
    /\ LET accepted == M!AcceptChunk(chain.missing, c)
           stored == [chain EXCEPT !.chunks = @ \cup {c}, !.missing = M!TakeReady(accepted)]
       IN  \E blocks \in SetToSeqs(accepted.ready) :
              /\ \A i, j \in DOMAIN blocks :
                     i < j => HeightOf[blocks[i]] <= HeightOf[blocks[j]]
              /\ chain' = StartProcessBlocks(stored, blocks, old)
    /\ UNCHANGED <<applied, failures>>

Results(b) ==
    (IF b \in BadState THEN {"bad"} ELSE {"ok"})
        \cup (IF failures < MaxFailures THEN {"error"} ELSE {})

\* do_apply_chunks ends on its thread.
FinishApplyChunks(b, result) ==
    /\ b \in chain.processing
    /\ \A i \in DOMAIN applied : applied[i].block # b
    /\ result \in Results(b)
    /\ applied' = Append(applied, [block |-> b, result |-> result])
    /\ failures' = IF result = "error" THEN failures + 1 ELSE failures
    /\ UNCHANGED chain

\* Client::postprocess_ready_blocks, with on_block_accepted.
PostprocessReadyBlocks(old) ==
    /\ ~chain.panicked /\ applied # <<>>
    /\ LET done == FoldLeft(LAMBDA n, e : PostprocessBlock(n, e, old), chain, applied)
       IN  chain' = [done EXCEPT !.missing = M!Prune(@, PruneHeight(applied))]
    /\ applied' = <<>>
    /\ UNCHANGED failures

Next ==
    \/ \E b \in Block \ {Genesis}, was_requested \in BOOLEAN, old \in Old :
           ReceiveBlock(b, was_requested, old)
    \/ \E c \in Chunk, old \in Old : ChunkCompleted(c, old)
    \/ \E b \in Block, result \in {"ok", "bad", "error"} : FinishApplyChunks(b, result)
    \/ \E old \in Old : PostprocessReadyBlocks(old)

Spec == Init /\ [][Next]_vars

\* The fairness of the handlers.  The threads end, and the client takes their results.
\* Every chunk comes at some time; block sync asks for a missing block until it comes
\* at a time when the node takes it.  The last three say that a handler is not enabled
\* for ever without being run: each of them, once enabled, stays so until it runs or
\* there is nothing left for it to do.
Fairness ==
    /\ \A b \in Block : WF_vars(FinishApplyChunks(b, "ok"))
    /\ []<>(chain.panicked \/ applied = <<>>)
    /\ \A c \in Chunk : <>(chain.panicked \/ c \in chain.chunks)
    /\ \A b \in Block \ {Genesis} : []<>(chain.panicked \/ Preprocess(chain, b, {}) = chain)

FairSpec == Spec /\ Fairness

-----------------------------------------------------------------------------
(* Properties                                                              *)

TypeOK ==
    /\ chain.store \cup chain.processing \cup chain.invalid \subseteq Block
    /\ chain.head \in chain.store /\ chain.final_head \in chain.store
    /\ chain.chunks \subseteq Chunk
    /\ M!TypeOK
    /\ chain.orphans.orphans \subseteq Block
    /\ Cardinality(chain.orphans.orphans) <= MAX_ORPHAN_SIZE
    /\ Cardinality(chain.processing) <= MAX_PROCESSING_BLOCKS
    /\ failures \in 0..MaxFailures

\* A block is in one place only: accepted, in processing, an orphan, waiting for chunks
\* or invalid.  So it is never applied twice.
OnePlace ==
    LET places == <<chain.store, chain.processing, chain.orphans.orphans, Waiting(chain),
                    chain.invalid>>
    IN  \A i, j \in DOMAIN places : i # j => places[i] \cap places[j] = {}

\* The result of applying chunks finds its block: postprocess_block does not panic with
\* "finished applying chunks but not in blocks_in_processing pool".
ResultsFindTheirBlocks ==
    \A i, j \in DOMAIN applied :
        applied[i].block \in chain.processing /\ (i # j => applied[i].block # applied[j].block)

\* No orphan is forgotten: none has an accepted parent, and the parent will find it.
NoStrandedOrphan ==
    ~chain.panicked =>
        Indexed(chain.orphans) /\ \A b \in chain.orphans.orphans : Prev[b] \notin chain.store

\* A block waits only for chunks that are not there, and nobody waits for nothing.
WaitForMissingChunks ==
    /\ M!MapsAgree
    /\ chain.missing.ready = {}
    /\ \A b \in Waiting(chain) : chain.missing.blocks_missing[b] = ChunksOf[b] \ chain.chunks

\* Blocks are accepted after their parents and with all their chunks.
ParentsFirst ==
    /\ \A b \in (chain.store \cup chain.processing \cup Waiting(chain)) \ {Genesis} :
           Prev[b] \in chain.store
    /\ \A b \in chain.store \cup chain.processing : ChunksOf[b] \subseteq chain.chunks

\* The places of orphans_requested_missing_chunks are given back with the orphans.
RequestsAreOfOrphans ==
    /\ chain.orphans.requested \subseteq chain.orphans.orphans
    /\ Cardinality(chain.orphans.requested) <= MAX_ORPHAN_MISSING_CHUNKS

\* A block has one place, a result finds its block there, and nothing is processed before
\* its parent or without its chunks, whatever order blocks, chunks and results come in.
PipelineInvariant ==
    TypeOK /\ OnePlace /\ ResultsFindTheirBlocks /\ ParentsFirst /\ RequestsAreOfOrphans

\* Every valid block is accepted in the end unless a conflicting one is final, in
\* whatever order blocks and chunks come, and although blocks are dropped when a pool
\* is full, found invalid or fail to apply.
EveryBlockIsAccepted ==
    <>\/ chain.panicked
      \/ \A b \in Block : \/ b \in chain.store
                          \/ ~IsFinalizable(chain, b)
                          \/ Ancestors[b] \cap (Bad \cup BadState) # {}

\* The comment on prev_hash_idx: "A map from block hashes to orphan blocks whose prev
\* block is the block".
IndexHoldsOrphans ==
    \A p \in Block : Range(chain.orphans.prev_idx[p]) \subseteq chain.orphans.orphans
=============================================================================
