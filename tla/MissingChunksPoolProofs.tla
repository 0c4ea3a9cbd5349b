----------------------- MODULE MissingChunksPoolProofs -----------------------
(***************************************************************************)
(* The maps of the missing-chunks pool agree, for any number of blocks and *)
(* chunks.  Agreement is inductive together with the types.                *)
(***************************************************************************)
EXTENDS MissingChunksPool, TLAPS

\* add_block_with_missing_chunks keeps the types and, for a new block that misses
\* some chunk, the agreement.
LEMMA AddBlockAgrees ==
    ASSUME NEW p \in PoolType, Agree(p), NEW b \in Block, NEW missing \in SUBSET Chunk,
           b \notin p.waiting, missing # {}
    PROVE  AddBlock(p, b, missing) \in PoolType /\ Agree(AddBlock(p, b, missing))
<1>1. CASE Cardinality(Recorded(p)) >= MAX_BLOCKS_MISSING_CHUNKS
    BY <1>1 DEF AddBlock
<1>2. CASE ~(Cardinality(Recorded(p)) >= MAX_BLOCKS_MISSING_CHUNKS)
    <2> DEFINE q == AddBlock(p, b, missing)
    <2>1. /\ q.missing_chunks =
                 [c \in Chunk |-> IF c \in missing THEN p.missing_chunks[c] \cup {b}
                                  ELSE p.missing_chunks[c]]
          /\ q.blocks_missing = [p.blocks_missing EXCEPT ![b] = missing]
          /\ q.waiting = p.waiting \cup {b}
          /\ q.indexed = p.indexed \cup {b}
          /\ q.ready = p.ready
          /\ q \in PoolType
        BY <1>2 DEF AddBlock, PoolType
    <2>2. p.blocks_missing[b] = {}
        BY DEF Agree
    <2>3. Agree(q)
        BY <2>1, <2>2 DEF Agree, PoolType
    <2> QED
        BY <2>1, <2>3
<1> QED
    BY <1>1, <1>2

\* So does accept_chunk.
LEMMA AcceptChunkAgrees ==
    ASSUME NEW p \in PoolType, Agree(p), NEW c \in Chunk
    PROVE  AcceptChunk(p, c) \in PoolType /\ Agree(AcceptChunk(p, c))
<1> DEFINE q == AcceptChunk(p, c)
           done == Completed(p, c) \cap p.waiting
<1>1. /\ q.missing_chunks = [p.missing_chunks EXCEPT ![c] = {}]
      /\ q.blocks_missing =
             [b \in Block |-> IF b \in p.missing_chunks[c] THEN p.blocks_missing[b] \ {c}
                              ELSE p.blocks_missing[b]]
      /\ q.waiting = p.waiting \ done
      /\ q.indexed = p.indexed \ done
      /\ q.ready = p.ready \cup done
      /\ q \in PoolType
    BY DEF AcceptChunk, PoolType
<1>2. \A b \in Block : b \in done <=> p.blocks_missing[b] = {c}
    BY DEF Completed, Agree, PoolType
<1>3. \A b \in Block : q.blocks_missing[b] = p.blocks_missing[b] \ {c}
    BY <1>1 DEF Agree, PoolType
<1>4. \A b \in Block, d \in Chunk : b \in q.missing_chunks[d] <=> d \in q.blocks_missing[b]
    BY <1>1, <1>3 DEF Agree, PoolType
<1>5. \A b \in Block : b \in q.waiting <=> q.blocks_missing[b] # {}
    BY <1>1, <1>2, <1>3 DEF Agree
<1>6. q.indexed = q.waiting
    BY <1>1 DEF Agree
<1> QED
    BY <1>1, <1>4, <1>5, <1>6 DEF Agree

\* So does prune_blocks_below_height.
LEMMA PruneAgrees ==
    ASSUME NEW p \in PoolType, Agree(p), NEW height
    PROVE  Prune(p, height) \in PoolType /\ Agree(Prune(p, height))
<1> DEFINE q == Prune(p, height)
           low == {b \in p.indexed : HeightOf[b] < height}
<1>1. /\ q.missing_chunks =
             [c \in Chunk |-> p.missing_chunks[c] \ {b \in low : c \in p.blocks_missing[b]}]
      /\ q.blocks_missing = [b \in Block |-> IF b \in low THEN {} ELSE p.blocks_missing[b]]
      /\ q.waiting = p.waiting \ low
      /\ q.indexed = p.indexed \ low
      /\ q.ready = p.ready
      /\ q \in PoolType
    BY DEF Prune, PoolType
<1>2. \A b \in Block, c \in Chunk : b \in q.missing_chunks[c] <=> c \in q.blocks_missing[b]
    BY <1>1 DEF Agree, PoolType
<1>3. \A b \in Block : b \in q.waiting <=> q.blocks_missing[b] # {}
    BY <1>1 DEF Agree, PoolType
<1>4. q.indexed = q.waiting
    BY <1>1 DEF Agree
<1> QED
    BY <1>1, <1>2, <1>3, <1>4 DEF Agree

\* The types and the agreement hold in every state of the pool.
LEMMA PoolInvariant == Spec => [](TypeOK /\ MapsAgree)
<1>1. Init => TypeOK /\ MapsAgree
    BY DEF Init, EmptyPool, TypeOK, PoolType, MapsAgree, Agree
<1>2. ASSUME TypeOK, MapsAgree, [Next]_pool
      PROVE  TypeOK' /\ MapsAgree'
    <2>1. CASE \E b \in Block, missing \in SUBSET Chunk : Add(b, missing)
        BY <1>2, <2>1, AddBlockAgrees DEF Add, TypeOK, MapsAgree
    <2>2. CASE \E c \in Chunk : Accept(c)
        BY <1>2, <2>2, AcceptChunkAgrees DEF Accept, TypeOK, MapsAgree
    <2>3. CASE \E height \in {HeightOf[b] + 1 : b \in Block} : PruneBelow(height)
        BY <1>2, <2>3, PruneAgrees DEF PruneBelow, TypeOK, MapsAgree
    <2>4. CASE ReadyBlocks
        BY <1>2, <2>4 DEF ReadyBlocks, TakeReady, TypeOK, PoolType, MapsAgree, Agree
    <2>5. CASE UNCHANGED pool
        BY <1>2, <2>5 DEF TypeOK, MapsAgree
    <2> QED
        BY <1>2, <2>1, <2>2, <2>3, <2>4, <2>5 DEF Next
<1> QED
    BY <1>1, <1>2, PTL DEF Spec

\* The maps of MissingChunksPool always agree: neither the Occupied case of
\* add_block_with_missing_chunks nor the invalid state accept_chunk warns of is reached.
THEOREM MapsAgreeHolds == Spec => []MapsAgree
BY PoolInvariant, PTL

\* A block becomes ready with the last chunk it waits for and at no other time.
THEOREM ReadyWithLastChunkHolds == Spec => ReadyWithLastChunk
<1> DEFINE Step == \A b \in Block :
             b \in pool'.ready \ pool.ready =>
                 \E c \in Chunk : pool.blocks_missing[b] = {c} /\ pool'.missing_chunks[c] = {}
<1>1. ASSUME TypeOK, MapsAgree, [Next]_pool
      PROVE  [Step]_pool
    <2>1. ASSUME NEW b \in Block, NEW missing \in SUBSET Chunk, Add(b, missing)
          PROVE  pool'.ready = pool.ready
        BY <1>1, <2>1 DEF Add, AddBlock, TypeOK, PoolType
    <2>2. ASSUME NEW c \in Chunk, Accept(c)
          PROVE  Step
        <3>1. /\ pool'.ready = pool.ready \cup (Completed(pool, c) \cap pool.waiting)
              /\ pool'.missing_chunks[c] = {}
            BY <1>1, <2>2 DEF Accept, AcceptChunk, TypeOK, PoolType
        <3>2. \A b \in Block :
                  b \in Completed(pool, c) \cap pool.waiting => pool.blocks_missing[b] = {c}
            BY <1>1 DEF Completed, MapsAgree, Agree, TypeOK, PoolType
        <3> QED
            BY <3>1, <3>2
    <2>3. ASSUME NEW height, PruneBelow(height)
          PROVE  pool'.ready = pool.ready
        BY <1>1, <2>3 DEF PruneBelow, Prune, TypeOK, PoolType
    <2>4. CASE ReadyBlocks
        BY <1>1, <2>4 DEF ReadyBlocks, TakeReady, TypeOK, PoolType
    <2> QED
        BY <1>1, <2>1, <2>2, <2>3, <2>4 DEF Next
<1> QED
    BY <1>1, PoolInvariant, PTL DEF Spec, ReadyWithLastChunk
=============================================================================
