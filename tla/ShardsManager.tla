---------------------------- MODULE ShardsManager ----------------------------
(***************************************************************************)
(* The collection of chunks from their parts: ShardsManager (chain/chunks/ *)
(* src/lib.rs), its RequestPool and its EncodedChunksCache (chunk_cache    *)
(* .rs).  A manager is a record:                                           *)
(*   entries   encoded_chunks, with the items received: the parts, and     *)
(*             "receipts" for the receipts sent to tracked shards          *)
(*   listed    the chunks in height_map                                    *)
(*   seen      height_to_shard_to_chunk                                    *)
(*   requests  requested_partial_encoded_chunks, with their age in periods *)
(*             of resend_chunk_requests                                    *)
(*   forwards  chunk_forwards_cache, the most recent last                  *)
(*   head      chain_head, and chain_header_head                           *)
(*   asked     the items of requests that are under way                    *)
(*   outbox    the chunks of ChunkCompleted messages to the client         *)
(* Operators take the blocks accepted so far: the epoch manager reads them *)
(* from the store.  Chunks are valid and signed by their producers.        *)
(***************************************************************************)
EXTENDS Integers, Sequences, SequencesExt, FiniteSets, Functions, TLC

CONSTANTS
    ChunkPrev, ChunkHeight, ChunkShard,   \* what the header of each chunk says
    Tracked,                     \* the shards this node cares about
    Part, Own, num_data_parts,   \* the parts of a chunk, those this node owns
    HeadHeight, HeadPrev,        \* of a Tip
    EpochAfter,                  \* get_epoch_id_from_prev_block
    HEIGHT_HORIZON, MAX_HEIGHTS_AHEAD, CHUNK_FORWARD_CACHE_SIZE,
    SwitchToFullFetch            \* the periods until a request asks for the full chunk

ASSUME ShardsManagerAssumption ==
    /\ Own \subseteq Part
    /\ num_data_parts \in 1 .. Cardinality(Part)
    /\ CHUNK_FORWARD_CACHE_SIZE > 0 /\ SwitchToFullFetch \in Nat

Put(f, k, v) == (k :> v) @@ f

Without(f, ks) == Restrict(f, DOMAIN f \ ks)

NewManager(head) ==
    [entries |-> <<>>, listed |-> {}, seen |-> <<>>, requests |-> <<>>, forwards |-> <<>>,
     head |-> head, asked |-> [c \in DOMAIN ChunkPrev |-> {}], outbox |-> <<>>]

Cares(c) == ChunkShard[c] \in Tracked

Slot(c) == <<ChunkHeight[c], ChunkShard[c]>>

IsKnown(m, c) == c \in DOMAIN m.entries

IsRequested(m, c) == c \in DOMAIN m.requests

-----------------------------------------------------------------------------
(* EncodedChunksCache                                                      *)

\* get_or_insert_from_header.
GetOrInsert(m, c) ==
    IF IsKnown(m, c) THEN m
    ELSE [m EXCEPT
            !.entries = Put(@, c, [items |-> {}, complete |-> FALSE, ready |-> FALSE]),
            !.listed = @ \cup {c},
            !.seen = Put(@, Slot(c), c)]

\* merge_in_partial_encoded_chunk.
MergeIn(m, c, items) ==
    [GetOrInsert(m, c) EXCEPT !.entries = [@ EXCEPT ![c].items = @ \cup items]]

\* height_within_horizon.
WithinHorizon(m, h) ==
    /\ h + HEIGHT_HORIZON >= HeadHeight[m.head]
    /\ h <= HeadHeight[m.head] + MAX_HEIGHTS_AHEAD

\* The heights the horizon passes when the head moves.
Passed(m, h, head) ==
    /\ h + HEIGHT_HORIZON >= HeadHeight[m.head]
    /\ h + HEIGHT_HORIZON < HeadHeight[head]

\* Mutant: requested chunks go as well.
UpdateChainHeadsAll(m, head) ==
    LET passed == {c \in m.listed : Passed(m, ChunkHeight[c], head)}
    IN  [m EXCEPT !.entries = Without(@, passed),
                  !.listed = @ \ passed,
                  !.seen = Without(@, {s \in DOMAIN @ : Passed(m, s[1], head)}),
                  !.head = head]

\* update_chain_heads, with update_largest_seen_height: what the horizon passes is
\* forgotten, except for entries of requested chunks.
UpdateChainHeads(m, head) ==
    LET passed == {c \in m.listed : Passed(m, ChunkHeight[c], head)}
    IN  [m EXCEPT !.entries = Without(@, passed \ DOMAIN m.requests),
                  !.listed = @ \ passed,
                  !.seen = Without(@, {s \in DOMAIN @ : Passed(m, s[1], head)}),
                  !.head = head]

-----------------------------------------------------------------------------
(* Requests                                                                *)

\* request_partial_encoded_chunk.
AskedFor(m, c, force_request_full) ==
    IF Cares(c) \/ force_request_full THEN Part \ m.entries[c].items
    ELSE (Own \ m.entries[c].items) \cup {"receipts"}

Ask(m, c, force_request_full) ==
    [m EXCEPT !.asked = [@ EXCEPT ![c] = @ \cup AskedFor(m, c, force_request_full)]]

\* request_chunk_single.  A block producer leaves the first request of a chunk on the
\* latest blocks to resend_chunk_requests, for the parts may be forwarded meanwhile.
RequestChunk(m, c, ancestor, mark_only) ==
    IF IsRequested(m, c) \/ ~IsKnown(m, c) \/ m.entries[c].complete THEN m
    ELSE LET marked == [m EXCEPT !.requests = Put(@, c, [ancestor |-> ancestor, age |-> 0])]
             old_block == ChunkPrev[c] \notin {m.head, HeadPrev[m.head]}
         IN  IF mark_only \/ ~old_block THEN marked ELSE Ask(marked, c, FALSE)

\* request_chunks.
RequestChunks(m, chunks, ancestor) ==
    FoldLeft(LAMBDA n, c : RequestChunk(n, c, ancestor, FALSE), m, chunks)

Old(m) == {c \in DOMAIN m.requests : m.requests[c].age = SwitchToFullFetch}

\* Mutant: a request is sent once.
ResendNewRequests(m, evicted) ==
    LET left == DOMAIN m.requests \ evicted
    IN  [m EXCEPT
           !.requests = [c \in left |->
                           [m.requests[c] EXCEPT !.age = IF c \in Old(m) THEN @ ELSE @ + 1]],
           !.asked = [c \in DOMAIN ChunkPrev |->
                        IF c \in left /\ m.requests[c].age = 0
                        THEN @[c] \cup AskedFor(m, c, FALSE) ELSE @[c]]]

\* resend_chunk_requests, with RequestPool::fetch, which evicts old requests.
ResendChunkRequests(m, evicted) ==
    LET left == DOMAIN m.requests \ evicted
    IN  [m EXCEPT
           !.requests = [c \in left |->
                           [m.requests[c] EXCEPT !.age = IF c \in Old(m) THEN @ ELSE @ + 1]],
           !.asked = [c \in DOMAIN ChunkPrev |->
                        IF c \in left THEN @[c] \cup AskedFor(m, c, c \in Old(m)) ELSE @[c]]]

-----------------------------------------------------------------------------
(* Parts                                                                   *)

\* complete_chunk.
CompleteChunk(m, c) ==
    [m EXCEPT !.entries = IF WithinHorizon(m, ChunkHeight[c])
                          THEN [@ EXCEPT ![c].complete = TRUE]
                          ELSE Without(@, {c}),
              !.requests = Without(@, {c}),
              !.outbox = Append(@, c)]

\* What the node needs of the chunk: its own parts and the receipts of a shard it does
\* not care about, or enough parts to reconstruct it.
HasAll(c, items) ==
    \/ ~Cares(c) /\ Own \cup {"receipts"} \subseteq items
    \/ Cardinality(items \cap Part) >= num_data_parts

\* try_process_chunk_parts_and_receipts.  With the own parts the chunk is marked for
\* inclusion in a block.
TryProcess(m, c, accepted) ==
    LET items == m.entries[c].items
        marked == [m EXCEPT !.entries =
                      [@ EXCEPT ![c].ready = @ \/ Own \subseteq items]]
    IN  IF ChunkPrev[c] \notin accepted THEN m
        ELSE IF HasAll(c, items) THEN CompleteChunk(marked, c)
        ELSE marked

ForwardsOf(m, c) == {i \in DOMAIN m.forwards : m.forwards[i].chunk = c}

\* The parts of insert_header_if_not_exists_and_process_cached_chunk_forwards.
NewsOfHeader(m, c) ==
    \/ ~IsKnown(m, c)
    \/ ~m.entries[c].complete /\ ForwardsOf(m, c) # {}

InsertHeader(m, c) ==
    LET known == GetOrInsert(m, c) IN
    IF known.entries[c].complete THEN known
    ELSE [MergeIn(known, c, UNION {m.forwards[i].parts : i \in ForwardsOf(m, c)})
            EXCEPT !.forwards = SelectSeq(@, LAMBDA f : f.chunk # c)]

\* process_chunk_header_from_block.
ProcessChunkHeaderFromBlock(m, c, accepted) ==
    IF NewsOfHeader(m, c) THEN TryProcess(InsertHeader(m, c), c, accepted)
    ELSE InsertHeader(m, c)

\* validate_chunk_header: before the previous block is accepted the header is checked in
\* the epoch of the head, and a chunk of another epoch is not known to be valid.
HeaderIsChecked(m, c, accepted) ==
    \/ ChunkPrev[c] \in accepted
    \/ IsRequested(m, c)
    \/ EpochAfter[m.head] = EpochAfter[ChunkPrev[c]]

\* The early returns of process_partial_encoded_chunk: the chunk is complete, or was not
\* requested and is out of the horizon or the second one of its height and shard.
IsRefused(m, c) ==
    \/ IsKnown(m, c) /\ m.entries[c].complete
    \/ /\ ~IsRequested(m, c)
       /\ \/ ~WithinHorizon(m, ChunkHeight[c])
          \/ Slot(c) \in DOMAIN m.seen /\ m.seen[Slot(c)] # c

\* process_partial_encoded_chunk.  A chunk that needs more is marked as requested.
ProcessPartialEncodedChunk(m, c, items, validated, accepted) ==
    IF IsRefused(m, c) \/ ~(validated \/ HeaderIsChecked(m, c, accepted)) THEN m
    ELSE LET merged == InsertHeader(MergeIn(m, c, items), c)
             tried == TryProcess(merged, c, accepted)
         IN  IF ChunkPrev[c] \in accepted THEN RequestChunk(tried, c, ChunkPrev[c], TRUE)
             ELSE tried

\* insert_forwarded_chunk.
InsertForwardedChunk(m, c, parts) ==
    LET cached == UNION {m.forwards[i].parts : i \in ForwardsOf(m, c)}
        others == SelectSeq(m.forwards, LAMBDA f : f.chunk # c)
        kept == IF Len(others) < CHUNK_FORWARD_CACHE_SIZE THEN others ELSE Tail(others)
    IN  [m EXCEPT !.forwards = Append(kept, [chunk |-> c, parts |-> cached \cup parts])]

\* process_partial_encoded_chunk_forward.
ProcessForward(m, c, parts, accepted) ==
    IF ChunkPrev[c] \in accepted /\ IsKnown(m, c)
    THEN ProcessPartialEncodedChunk(m, c, parts, TRUE, accepted)
    ELSE InsertForwardedChunk(m, c, parts)

\* process_partial_encoded_chunk_response.
ProcessResponse(m, c, items, accepted) ==
    IF IsKnown(m, c) THEN ProcessPartialEncodedChunk(m, c, items, TRUE, accepted) ELSE m

\* Mutant: only the requested chunks.
CheckRequestedChunks(m, prev, accepted) ==
    LET incomplete == {c \in DOMAIN m.requests : ChunkPrev[c] = prev /\ ~m.entries[c].complete}
    IN  FoldLeft(LAMBDA n, c : TryProcess(n, c, accepted), m, SetToSeq(incomplete))

\* check_incomplete_chunks.
CheckIncompleteChunks(m, prev, accepted) ==
    LET incomplete == {c \in DOMAIN m.entries : ChunkPrev[c] = prev /\ ~m.entries[c].complete}
    IN  FoldLeft(LAMBDA n, c : TryProcess(n, c, accepted), m, SetToSeq(incomplete))

\* distribute_encoded_chunk: this node's own chunk.
DistributeEncodedChunk(m, c) ==
    LET merged == MergeIn(m, c, Part \cup {"receipts"})
    IN  [merged EXCEPT !.entries = [@ EXCEPT ![c].ready = TRUE]]
=============================================================================
