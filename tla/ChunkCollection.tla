--------------------------- MODULE ChunkCollection ---------------------------
(***************************************************************************)
(* The client and the ShardsManager of a block producer, actors that send  *)
(* each other messages, collect the chunks of blocks: process_block        *)
(* _processing_artifact, on_chunk_completed and postprocess_ready_blocks   *)
(* (chain/client/src/client.rs) with the pool of blocks that miss chunks.  *)
(*                                                                         *)
(* Blocks come in any order; parts of chunks come unasked, from producers  *)
(* and part owners, or in answer to requests, late, twice or not at all.   *)
(***************************************************************************)
EXTENDS MissingChunksPool, ShardsManager

CONSTANTS
    Genesis, Prev, FinalOf, ChunksOf,
    Produced,                    \* the chunks this node produces
    Forwarded,                   \* bound: the chunks of which owners forward parts
    NUM_ORPHAN_ANCESTORS_CHECK,
    MaxMail                      \* bound: blocks come while no more messages are waiting

VARIABLES
    client,      \* Client and Chain, without blocks_with_missing_chunks
    manager,     \* ShardsManager
    mailbox,     \* the messages of the client to the ShardsManager
    given_up     \* history: chunks whose request was evicted, and not made again

vars == <<pool, client, manager, mailbox, given_up>>

CollectInit ==
    /\ pool = EmptyPool
    /\ client = [accepted |-> {Genesis}, head |-> Genesis,
                 processing |-> {},      \* blocks_in_processing
                 orphans |-> {},
                 requested |-> {},       \* orphans_requested_missing_chunks
                 chunks |-> {}]          \* partial chunks in the store
    /\ manager = NewManager(Genesis)
    /\ mailbox = <<>>
    /\ given_up = {}

-----------------------------------------------------------------------------
(* The client.  A node is its state, the pool and the messages it sends.   *)

Node == [client |-> client, pool |-> pool, blocks |-> <<>>, orphans |-> <<>>]

MissingChunks(n, b) == ChunksOf[b] \ n.client.chunks

Up[b \in Block, k \in 0 .. NUM_ORPHAN_ANCESTORS_CHECK] ==
    IF k = 0 \/ b = Genesis THEN b ELSE Up[Prev[b], k - 1]

\* The accepted ancestors should_request_chunks_for_orphan finds: at most one.
AncestorsToAsk(n, b) ==
    {Up[b, k] : k \in {k \in 1 .. NUM_ORPHAN_ANCESTORS_CHECK :
        /\ Up[b, k] \in n.client.accepted
        /\ EpochAfter[Up[b, k]] = EpochAfter[Prev[b]]
        /\ \A j \in 1 .. (k - 1) : Up[b, j] \in n.client.orphans \cup n.pool.waiting}}

\* should_request_chunks_for_orphan, and mark_missing_chunks_requested_for_orphan.
RequestForOrphan(n, b) ==
    IF b \in n.client.requested \/ AncestorsToAsk(n, b) = {} \/ MissingChunks(n, b) = {} THEN n
    ELSE [n EXCEPT
            !.client = [@ EXCEPT !.requested = @ \cup {b}],
            !.orphans = Append(@, [chunks |-> SetToSeq(MissingChunks(n, b)),
                                   ancestor |-> CHOOSE a \in AncestorsToAsk(n, b) : TRUE])]

\* start_process_block_async.
StartProcessBlock(n, b) ==
    CASE Prev[b] \notin n.client.accepted ->
             [RequestForOrphan(n, b) EXCEPT !.client = [@ EXCEPT !.orphans = @ \cup {b}]]
      [] MissingChunks(n, b) # {} ->
             [n EXCEPT
                !.pool = AddBlock(@, b, MissingChunks(n, b)),
                !.blocks = Append(@, [chunks |-> SetToSeq(MissingChunks(n, b)),
                                      ancestor |-> Prev[b]])]
      [] OTHER -> [n EXCEPT !.client = [@ EXCEPT !.processing = @ \cup {b}]]

StartProcessBlocks(n, blocks) == FoldLeft(StartProcessBlock, n, SetToSeq(blocks))

\* Mutant: the request goes before the headers.
RequestsFirst(n) ==
    LET asks == n.blocks \o n.orphans
        chunks == FlattenSeq([i \in DOMAIN asks |-> asks[i].chunks])
    IN  [i \in DOMAIN asks |-> [type |-> "RequestChunks", ask |-> asks[i]]]
            \o [i \in DOMAIN chunks |-> [type |-> "ProcessChunkHeaderFromBlock", chunk |-> chunks[i]]]

\* process_block_processing_artifact, with request_missing_chunks.
Artifacts(n) ==
    LET asks == n.blocks \o n.orphans
        chunks == FlattenSeq([i \in DOMAIN asks |-> asks[i].chunks])
    IN  [i \in DOMAIN chunks |-> [type |-> "ProcessChunkHeaderFromBlock", chunk |-> chunks[i]]]
            \o [i \in DOMAIN asks |-> [type |-> "RequestChunks", ask |-> asks[i]]]

\* check_known.
Known(b) ==
    b \in client.accepted \cup client.processing \cup client.orphans \cup pool.waiting

ReceiveBlock(b) ==
    /\ ~Known(b)
    /\ Len(mailbox) + Len(manager.outbox) <= MaxMail
    /\ LET n == StartProcessBlock(Node, b) IN
       /\ client' = n.client /\ pool' = n.pool
       /\ mailbox' = mailbox \o Artifacts(n)
    /\ UNCHANGED <<manager, given_up>>

\* on_chunk_completed, with process_blocks_with_missing_chunks.
ChunkCompleted ==
    /\ manager.outbox # <<>>
    /\ manager' = [manager EXCEPT !.outbox = Tail(@)]
    /\ LET c == Head(manager.outbox)
           taken == AcceptChunk(pool, c)
           stored == [Node EXCEPT !.client = [@ EXCEPT !.chunks = @ \cup {c}],
                                  !.pool = TakeReady(taken)]
           n == StartProcessBlocks(stored, taken.ready)
       IN  /\ client' = n.client /\ pool' = n.pool
           /\ mailbox' = mailbox \o Artifacts(n)
    /\ UNCHANGED given_up

\* remove_by_prev_hash, with the marks of the orphans.
TakeOrphans(n, blocks) ==
    [n EXCEPT !.client = [@ EXCEPT !.orphans = @ \ blocks, !.requested = @ \ blocks]]

Below(b) == {o \in client.orphans : \E k \in 1 .. NUM_ORPHAN_ANCESTORS_CHECK : Up[o, k] = b}

\* postprocess_ready_blocks for a block whose chunks are applied: check_orphans, the
\* messages, and on_block_accepted.
PostprocessBlock(b) ==
    /\ b \in client.processing
    /\ LET new_head == HeightOf[b] > HeightOf[client.head]
           stored == [Node EXCEPT !.client =
                        [@ EXCEPT !.accepted = @ \cup {b}, !.processing = @ \ {b},
                                  !.head = IF new_head THEN b ELSE @]]
           asked == FoldLeft(RequestForOrphan, stored, SetToSeq(Below(b)))
           kids == {o \in client.orphans : Prev[o] = b}
           n == StartProcessBlocks(TakeOrphans(asked, kids), kids)
       IN  /\ client' = n.client
           /\ pool' = IF new_head THEN Prune(n.pool, HeightOf[FinalOf[b]]) ELSE n.pool
           /\ mailbox' = mailbox
                  \o (IF new_head THEN <<[type |-> "UpdateChainHeads", head |-> b]>> ELSE <<>>)
                  \o Artifacts(n)
                  \o <<[type |-> "CheckIncompleteChunks", block |-> b]>>
    /\ UNCHANGED <<manager, given_up>>

\* persist_and_distribute_encoded_chunk.
ProduceChunk(c) ==
    /\ c \notin client.chunks
    /\ ChunkPrev[c] = client.head
    /\ client' = [client EXCEPT !.chunks = @ \cup {c}]
    /\ mailbox' = Append(mailbox, [type |-> "DistributeEncodedChunk", chunk |-> c])
    /\ UNCHANGED <<pool, manager, given_up>>

-----------------------------------------------------------------------------
(* The ShardsManager                                                       *)

Requested == DOMAIN manager.requests

Handled(m, msg) ==
    CASE msg.type = "ProcessChunkHeaderFromBlock" ->
             ProcessChunkHeaderFromBlock(m, msg.chunk, client.accepted)
      [] msg.type = "RequestChunks" -> RequestChunks(m, msg.ask.chunks, msg.ask.ancestor)
      [] msg.type = "UpdateChainHeads" -> UpdateChainHeads(m, msg.head)
      [] msg.type = "CheckIncompleteChunks" ->
             CheckIncompleteChunks(m, msg.block, client.accepted)
      [] msg.type = "DistributeEncodedChunk" -> DistributeEncodedChunk(m, msg.chunk)

\* The chunks a step of the manager completes.
NewlyCompleted ==
    Range(SubSeq(manager'.outbox, Len(manager.outbox) + 1, Len(manager'.outbox)))

Manager(new) ==
    /\ manager' = new
    /\ given_up' = given_up \ (DOMAIN manager'.requests \cup NewlyCompleted)

HandleClientRequest ==
    /\ mailbox # <<>>
    /\ mailbox' = Tail(mailbox)
    /\ UNCHANGED <<pool, client>>
    /\ Manager(Handled(manager, Head(mailbox)))

\* The producer sends this node its own parts and receipts, at any time.
ReceivePartialEncodedChunk(c) ==
    /\ Manager(ProcessPartialEncodedChunk(manager, c, Own \cup {"receipts"}, FALSE,
                                          client.accepted))
    /\ manager' # manager
    /\ UNCHANGED <<pool, client, mailbox>>

\* The owner of a part forwards it.
ReceiveForward(c, p) ==
    /\ Manager(ProcessForward(manager, c, {p}, client.accepted))
    /\ manager' # manager
    /\ UNCHANGED <<pool, client, mailbox>>

Answered(m, c) == [m EXCEPT !.asked = [@ EXCEPT ![c] = {}]]

\* A peer answers what was asked for.
ReceiveResponse(c) ==
    /\ manager.asked[c] # {}
    /\ UNCHANGED <<pool, client, mailbox>>
    /\ Manager(Answered(ProcessResponse(manager, c, manager.asked[c], client.accepted), c))

\* A request or its answer is lost.  Bound: not once the full chunk is asked for.
LoseResponse(c) ==
    /\ manager.asked[c] # {} /\ c \notin Old(manager)
    /\ manager' = Answered(manager, c)
    /\ UNCHANGED <<pool, client, mailbox, given_up>>

\* The periodic task of ShardsManagerActor.
Resend(evicted) ==
    /\ Requested # {}
    /\ manager' = ResendChunkRequests(manager, evicted)
    /\ given_up' = given_up \cup evicted
    /\ UNCHANGED <<pool, client, mailbox>>

CollectNext ==
    \/ \E b \in Block : ReceiveBlock(b)
    \/ ChunkCompleted
    \/ \E b \in Block : PostprocessBlock(b)
    \/ \E c \in Produced : ProduceChunk(c)
    \/ HandleClientRequest
    \/ \E c \in Chunk \ Produced : ReceivePartialEncodedChunk(c)
    \/ \E c \in Forwarded, p \in Part \ Own : ReceiveForward(c, p)
    \/ \E c \in Chunk : ReceiveResponse(c)
    \/ \E c \in Chunk : LoseResponse(c)
    \/ \E evicted \in SUBSET Old(manager) : Resend(evicted)

\* The actors handle their messages, the periodic task runs, and a peer answers.
CollectFairness ==
    /\ WF_vars(ChunkCompleted)
    /\ WF_vars(HandleClientRequest)
    /\ WF_vars(Resend({}))
    /\ \A c \in UNION Range(ChunksOf) : WF_vars(ReceiveResponse(c))

CollectSpec == CollectInit /\ [][CollectNext]_vars /\ CollectFairness

-----------------------------------------------------------------------------
(* Properties                                                              *)

CollectTypeOK ==
    /\ pool \in PoolType
    /\ client.accepted \cup client.processing \cup client.orphans \subseteq Block
    /\ client.requested \subseteq client.orphans
    /\ client.chunks \subseteq Chunk
    /\ DOMAIN manager.entries \subseteq Chunk /\ manager.listed \subseteq Chunk
    /\ \A c \in DOMAIN manager.entries : manager.entries[c].items \subseteq Part \cup {"receipts"}
    /\ \A c \in DOMAIN manager.requests : manager.requests[c].age \in 0 .. SwitchToFullFetch
    /\ Len(manager.forwards) <= CHUNK_FORWARD_CACHE_SIZE
    /\ given_up \subseteq Chunk

ToBeRequested ==
    UNION {Range(m.ask.chunks) : m \in {m \in Range(mailbox) : m.type = "RequestChunks"}}

\* Every request has its header and entry, without which answers would be refused as of
\* an unknown chunk, and is removed with the completion of the chunk, although the cache
\* drops chunks as the head moves on.
RequestsHaveEntries ==
    \A c \in Requested :
        c \in DOMAIN manager.entries /\ ~manager.entries[c].complete

\* No wake-up is lost between the two actors: a block waits for the chunks that are not
\* in the store, and each of these is on its way.  It is requested or will be by a message
\* in the mailbox, or it is complete and the client will be told; or the request was
\* evicted after CHUNK_REQUEST_RETRY_MAX.
WaitedChunksAreRequested ==
    \A b \in pool.waiting :
        /\ pool.blocks_missing[b] = ChunksOf[b] \ client.chunks
        /\ \A c \in pool.blocks_missing[b] :
               c \in ToBeRequested \cup Requested \cup Range(manager.outbox) \cup given_up

\* Once its previous block is accepted, a chunk of which the node has its own parts is
\* marked for inclusion, whichever of the two came first.
OwnPartsMakeReady ==
    \A c \in DOMAIN manager.entries :
        \/ manager.entries[c].ready
        \/ ~(Own \subseteq manager.entries[c].items)
        \/ ChunkPrev[c] \notin client.accepted
        \/ \E i \in DOMAIN mailbox :
               mailbox[i].type = "CheckIncompleteChunks" /\ mailbox[i].block = ChunkPrev[c]

\* The cache is bounded: the chunks the horizon has passed are requested or have been
\* given up.
CacheInHorizon ==
    \A c \in DOMAIN manager.entries :
        \/ ChunkHeight[c] + HEIGHT_HORIZON >= HeadHeight[manager.head]
        \/ c \in ToBeRequested \cup Requested \cup given_up

\* Requests and cache entries belong together, and both pools keep to their bounds, while
\* the head moves, chunks complete and requests are evicted.
CollectionInvariant == CollectTypeOK /\ WithinLimit /\ RequestsHaveEntries /\ CacheInHorizon

\* Blocks that wait for chunks go on in the end, although answers are lost and other
\* blocks keep coming, unless a request was evicted.
WaitingBlocksGoOn == []<>(pool.waiting = {} \/ given_up # {})
=============================================================================
