-------------------------- MODULE ColdStorageSteps --------------------------
(***************************************************************************)
(* How the steps of an archival node move its heads and its tails, and     *)
(* where they leave clear_data and cold_store_copy: the part of the proofs *)
(* about ColdStorage that needs no induction over the blocks.  What it     *)
(* takes from the tree of the stored blocks is a hypothesis of each lemma, *)
(* which ColdStorageProofs establishes.                                    *)
(***************************************************************************)
EXTENDS ColdStorage, TLAPS

-----------------------------------------------------------------------------
(* The inductive invariant                                                 *)

\* The copying follows the final head, which is behind the head, and COLD_HEAD of the hot
\* store follows the copying.
HeadsInOrder ==
    /\ head \in Blocks /\ head \in blocks
    /\ final_head \in Chain[head] /\ cold.head \in Chain[final_head] /\ cold_head \in Chain[cold.head]

\* Nothing above COLD_HEAD is collected.
TailsBehindCold ==
    /\ {tail, fork_tail, chunk_tail} \subseteq Nat
    /\ chunk_tail <= tail /\ tail <= fork_tail /\ fork_tail <= Height[cold_head]
    /\ tail = Height[genesis] \/ tail < Height[cold_head]

GcRecords ==
    [pc : {"idle", "start", "forks", "canonical"}, stop : Nat, tail : Nat, bottom : Int,
     height : Int, current : Blocks \cup {None}, remaining : Int]

\* Where clear_data is: above the tail and below COLD_HEAD.
Collecting ==
    /\ gc \in GcRecords
    /\ gc.stop <= Height[cold_head] \/ gc.pc \in {"idle", "start"}
    /\ gc.pc = "forks" =>
         /\ gc.tail = tail
         /\ tail <= gc.bottom /\ gc.bottom <= gc.height /\ gc.height < fork_tail
         /\ gc.current # None => gc.current \in blocks /\ Height[gc.current] < gc.height
    /\ gc.pc = "canonical" => gc.height = tail + 1 /\ gc.height < gc.stop

\* The block is in the cold store, with its chunks and its whole state.
InColdStore(b) ==
    b \in cold.blocks /\ ChunksOf(b) \subseteq cold.chunks /\ StateOf[b] \subseteq cold.nodes

\* Where cold_store_copy is: what it copies is the next final block.
CopyStep ==
    /\ copying \in [pc : {"loop", "copied", "head"}, block : Blocks \cup {None}]
    /\ copying.pc = "copied" =>
         LET b == copying.block
         IN  /\ b \in Blocks \ {genesis} /\ Prev[b] = cold.head /\ b \in Chain[final_head]
             /\ InColdStore(b)
    /\ copying.pc = "head" => copying.block = cold.head

\* The cold store on its own.
ColdStore ==
    /\ cold \in [head : Blocks, blocks : SUBSET Blocks, nodes : SUBSET Nodes,
                 chunks : SUBSET (Blocks \X Shards)]
    /\ final_head \in Blocks
    /\ \A b \in Chain[cold.head] : InColdStore(b)

\* An archival node never syncs state.
NoSync == sync = NotSyncing /\ header_head \in Blocks

\* The blocks of an archival node with what belongs to them.
Store == StoredTree /\ ChunksHeld

\* Where its threads are.
Running ==
    /\ HeadsInOrder /\ TailsBehindCold /\ Collecting /\ CopyStep /\ NoSync
    /\ failed = FALSE /\ crashes \in 0 .. MaxCrashes

Archival == Store /\ Running

Inv ==
    /\ kind \in {"RPC", "Hot"}
    /\ ColdStore
    /\ kind = "RPC" => cold.head = genesis /\ copying = NotCopying
    /\ kind = "Hot" => Archival

\* The heads are blocks, and none of the store's is below COLD_HEAD.
Heights ==
    /\ {head, final_head, cold.head, cold_head} \subseteq Blocks
    /\ {Height[head], Height[final_head], Height[cold.head], Height[cold_head]} \subseteq Nat
    /\ Height[cold_head] <= Height[cold.head] /\ Height[cold_head] <= Height[head]

-----------------------------------------------------------------------------
(* clear_data                                                              *)

LEMMA IdleIsRecord == Idle \in GcRecords /\ Idle.pc = "idle"
  BY DEF Idle, GcRecords

\* A record with all its fields.
LEMMA RecordFields ==
    ASSUME gc \in GcRecords
    PROVE  gc = [pc |-> gc.pc, stop |-> gc.stop, tail |-> gc.tail, bottom |-> gc.bottom,
                 height |-> gc.height, current |-> gc.current, remaining |-> gc.remaining]
  BY DEF GcRecords

\* clear_data goes on with the canonical chain only below its stop height.
LEMMA CanonicalFromIs ==
    ASSUME NEW g \in GcRecords, NEW h \in Int
    PROVE  LET c == CanonicalFrom(g, h)
           IN  /\ c \in GcRecords /\ c.pc \in {"idle", "canonical"}
               /\ c.pc = "canonical" => c.height = h /\ h < g.stop /\ c.stop = g.stop
  BY IdleIsRecord DEF CanonicalFrom, GcRecords

\* It goes on with the forks down to the bottom.
LEMMA ForksFromIs ==
    ASSUME NEW g \in GcRecords, NEW h \in Int
    PROVE  LET c == ForksFrom(g, h)
           IN  /\ c \in GcRecords /\ c.pc \in {"idle", "canonical", "forks"}
               /\ c.pc = "canonical" =>
                    c.height = g.tail + 1 /\ c.height < g.stop /\ c.stop = g.stop
               /\ c.pc = "forks" =>
                    /\ g.bottom <= h /\ c.height = h /\ c.current = None
                    /\ c.bottom = g.bottom /\ c.stop = g.stop /\ c.tail = g.tail
  <1>1. g.tail + 1 \in Int
    BY DEF GcRecords
  <1>2. CASE g.bottom <= h
    BY <1>2 DEF ForksFrom, GcRecords
  <1>3. CASE ~(g.bottom <= h)
    <2>1. ForksFrom(g, h) = CanonicalFrom(g, g.tail + 1)
      BY <1>3 DEF ForksFrom
    <2>. QED
      BY <1>1, <2>1, CanonicalFromIs
  <1>. QED
    BY <1>2, <1>3

\* What all steps of clear_data have in common.
ClearFrame == UNCHANGED <<head, final_head, cold_head, crashes, syncVars, coldVars>>

\* They leave the cold store, the copying and the heads alone.
LEMMA ClearDataLeaves ==
    ASSUME Running, ColdStore, ClearFrame, head \in blocks'
    PROVE  ColdStore' /\ CopyStep' /\ NoSync' /\ crashes' \in 0 .. MaxCrashes /\ HeadsInOrder'
  <1>1. /\ head' = head /\ final_head' = final_head /\ cold_head' = cold_head /\ crashes' = crashes
        /\ header_head' = header_head /\ sync' = sync /\ cold' = cold /\ copying' = copying
    BY DEF ClearFrame, syncVars, coldVars
  <1>2. ColdStore'
    BY <1>1 DEF ColdStore, InColdStore
  <1>3. CopyStep'
    BY <1>1 DEF CopyStep, InColdStore, Running
  <1>4. NoSync' /\ HeadsInOrder' /\ crashes' \in 0 .. MaxCrashes
    BY <1>1 DEF NoSync, NotSyncing, HeadsInOrder, Running
  <1>. QED
    BY <1>2, <1>3, <1>4

\* So what is left to show of each is where the tails and clear_data are.
LEMMA ClearStepRuns ==
    ASSUME Running, ColdStore, ClearFrame, head \in blocks', TailsBehindCold', Collecting',
           failed' = failed
    PROVE  Running' /\ ColdStore'
  BY ClearDataLeaves DEF Running

LEMMA BeginClearDataRuns ==
    ASSUME Running, Heights, ColdStore, BeginClearData, ClearFrame,
           \A stop \in GcStopHeights : stop \in Nat /\ stop <= Height[cold_head]
    PROVE  Running' /\ ColdStore' /\ UNCHANGED <<stored, tail, chunk_tail>>
  <1>. DEFINE top(stop) == IF (epoch_first_block[head] = head /\ Prev[head] # genesis)
                                 /\ fork_tail < stop THEN stop ELSE fork_tail
              low(stop) == Larger(tail, top(stop) - gc_fork_clean_step)
              g(stop) == [gc EXCEPT !.stop = stop, !.tail = tail, !.remaining = gc_blocks_limit,
                                    !.bottom = low(stop)]
  <1>1. /\ {tail, fork_tail} \subseteq Nat /\ tail <= fork_tail /\ fork_tail <= Height[cold_head]
        /\ TailsBehindCold /\ gc \in GcRecords /\ head \in blocks
    BY DEF Running, TailsBehindCold, Collecting, HeadsInOrder
  <1>2. /\ blocks' = blocks /\ tail' = tail /\ chunk_tail' = chunk_tail /\ cold_head' = cold_head
        /\ UNCHANGED stored
    BY DEF BeginClearData, stored
  <1>3. PICK stop \in GcStopHeights :
           /\ gc' = ForksFrom(g(stop), top(stop) - 1) /\ fork_tail' = top(stop) /\ failed' = failed
           /\ stop \in Nat /\ stop <= Height[cold_head]
    <2>1. PICK stop \in GcStopHeights :
             IF stop > Height[head]
             THEN gc' = Idle /\ failed' = TRUE /\ UNCHANGED fork_tail
             ELSE gc' = ForksFrom(g(stop), top(stop) - 1) /\ fork_tail' = top(stop) /\ UNCHANGED failed
      BY DEF BeginClearData
    <2>. HIDE DEF g, top
    <2>2. stop \in Nat /\ stop <= Height[cold_head]
      OBVIOUS
    <2>3. ~(stop > Height[head])
      BY <2>2 DEF Heights
    <2>. QED
      BY <2>1, <2>2, <2>3
  <1>4. /\ top(stop) \in Nat /\ tail <= top(stop) /\ top(stop) <= Height[cold_head]
        /\ low(stop) \in Int /\ tail <= low(stop)
    BY <1>1, <1>3, GCAssumption DEF Larger
  <1>. HIDE DEF top, low
  <1>5. g(stop) \in GcRecords /\ g(stop).stop = stop /\ g(stop).tail = tail /\ g(stop).bottom = low(stop)
    <2>1. g(stop) = [pc |-> gc.pc, stop |-> stop, tail |-> tail, bottom |-> low(stop),
                     height |-> gc.height, current |-> gc.current, remaining |-> gc_blocks_limit]
      <3>1. g(stop) = [gc EXCEPT !.stop = stop, !.tail = tail, !.remaining = gc_blocks_limit,
                                 !.bottom = low(stop)]
        OBVIOUS
      <3>. HIDE DEF g
      <3>. QED
        BY <1>1, <3>1, RecordFields
    <2>. HIDE DEF g
    <2>. QED
      BY <1>1, <1>3, <1>4, <2>1, GCAssumption DEF GcRecords
  <1>. HIDE DEF g
  <1>6. /\ gc' \in GcRecords /\ gc'.pc \in {"idle", "canonical", "forks"}
        /\ gc'.pc = "canonical" => gc'.height = tail + 1 /\ gc'.height < stop /\ gc'.stop = stop
        /\ gc'.pc = "forks" =>
             /\ low(stop) <= top(stop) - 1 /\ gc'.height = top(stop) - 1 /\ gc'.current = None
             /\ gc'.bottom = low(stop) /\ gc'.stop = stop /\ gc'.tail = tail
    <2>1. top(stop) - 1 \in Int
      BY <1>4
    <2>. QED
      BY <1>3, <1>5, <2>1, ForksFromIs
  <1>7. Collecting'
    <2>1. gc'.pc = "forks" => gc'.height < fork_tail'
      BY <1>3, <1>4, <1>6
    <2>. QED
      BY <1>2, <1>3, <1>4, <1>6, <2>1 DEF Collecting
  <1>8. TailsBehindCold'
    BY <1>1, <1>2, <1>3, <1>4 DEF TailsBehindCold
  <1>. QED
    BY <1>1, <1>2, <1>3, <1>7, <1>8, ClearStepRuns

\* A fork is followed down from the block that was deleted.
LEMMA ClearForkRuns ==
    ASSUME Running, ColdStore, NEW b, ClearFork(b), ClearFrame,
           b \in blocks, b # genesis, b # head, Prev[b] # b, refcount[Prev[b]] > 0,
           Prev[b] \in blocks, Prev[b] \in Blocks, Height[Prev[b]] < gc.height
    PROVE  Running' /\ ColdStore' /\ ClearForkBlock(b) /\ UNCHANGED <<chunks, tail, chunk_tail>>
  <1>1. /\ ClearForkBlock(b) /\ UNCHANGED <<chunks, tail, fork_tail, chunk_tail, cold_head, failed>>
        /\ gc' = IF gc.remaining = 1 THEN Idle
                 ELSE [gc EXCEPT !.remaining = @ - 1, !.current = Prev[b]]
        /\ gc.pc = "forks"
    BY DEF ClearFork, tails
  <1>2. TailsBehindCold /\ Collecting /\ gc \in GcRecords /\ head \in blocks
    BY DEF Running, Collecting, HeadsInOrder
  <1>3. head \in blocks' /\ Prev[b] \in blocks'
    BY <1>1, <1>2 DEF ClearForkBlock
  <1>4. TailsBehindCold'
    BY <1>1, <1>2 DEF TailsBehindCold
  <1>5. Collecting'
    <2>1. CASE gc.remaining = 1
      BY <1>1, <2>1, IdleIsRecord DEF Collecting
    <2>2. CASE gc.remaining # 1
      <3>1. gc' = [pc |-> gc.pc, stop |-> gc.stop, tail |-> gc.tail, bottom |-> gc.bottom,
                   height |-> gc.height, current |-> Prev[b], remaining |-> gc.remaining - 1]
        BY <1>1, <1>2, <2>2, RecordFields
      <3>2. gc' \in GcRecords
        BY <1>2, <3>1 DEF GcRecords
      <3>. QED
        BY <1>1, <1>2, <1>3, <3>1, <3>2 DEF Collecting
    <2>. QED
      BY <2>1, <2>2
  <1>. QED
    BY <1>1, <1>3, <1>4, <1>5, ClearStepRuns

LEMMA LowerForkTailRuns ==
    ASSUME Running, Heights, ColdStore, LowerForkTail, ClearFrame
    PROVE  Running' /\ ColdStore' /\ UNCHANGED <<stored, tail, chunk_tail>>
  <1>1. /\ gc.pc = "forks" /\ fork_tail' = gc.height /\ gc' = ForksFrom(gc, gc.height - 1)
        /\ UNCHANGED <<stored, tail, chunk_tail, cold_head, failed>> /\ blocks' = blocks
    BY DEF LowerForkTail, stored
  <1>2. /\ gc \in GcRecords /\ {gc.height, gc.bottom} \subseteq Int /\ gc.height - 1 \in Int
        /\ gc.tail = tail /\ tail <= gc.bottom /\ gc.bottom <= gc.height /\ gc.height < fork_tail
        /\ gc.stop <= Height[cold_head] /\ head \in blocks
    BY <1>1 DEF Running, Collecting, GcRecords, HeadsInOrder
  <1>3. TailsBehindCold'
    <2>1. TailsBehindCold /\ Height[cold_head] \in Nat
      BY DEF Running, Heights
    <2>. QED
      BY <1>1, <1>2, <2>1 DEF TailsBehindCold
  <1>4. /\ gc' \in GcRecords /\ gc'.pc \in {"idle", "canonical", "forks"}
        /\ gc'.pc = "canonical" =>
             gc'.height = gc.tail + 1 /\ gc'.height < gc.stop /\ gc'.stop = gc.stop
        /\ gc'.pc = "forks" =>
             /\ gc.bottom <= gc.height - 1 /\ gc'.height = gc.height - 1 /\ gc'.current = None
             /\ gc'.bottom = gc.bottom /\ gc'.stop = gc.stop /\ gc'.tail = gc.tail
    BY <1>1, <1>2, ForksFromIs
  <1>5. gc'.pc = "forks" => gc'.height < fork_tail'
    BY <1>1, <1>2, <1>4
  <1>6. Collecting'
    BY <1>1, <1>2, <1>4, <1>5 DEF Collecting
  <1>. QED
    BY <1>1, <1>2, <1>3, <1>6, ClearStepRuns

\* The tail goes up by one below the stop height, so it stays behind COLD_HEAD.
LEMMA TailGoesUp ==
    ASSUME Running, Heights, gc.pc = "canonical", UpdateTail(gc.height), cold_head' = cold_head,
           chunk_tail' \in Nat, chunk_tail' <= tail, NEW g \in GcRecords, g.stop = gc.stop,
           gc' = CanonicalFrom(g, gc.height + 1)
    PROVE  /\ tail' = tail + 1 /\ tail + 1 < Height[cold_head]
           /\ TailsBehindCold' /\ Collecting'
  <1>1. /\ {tail, fork_tail} \subseteq Nat /\ tail <= fork_tail /\ fork_tail <= Height[cold_head]
        /\ Height[cold_head] \in Nat
    BY DEF Running, TailsBehindCold, Heights
  <1>2. /\ gc.height = tail + 1 /\ gc.height < gc.stop /\ gc.stop \in Nat
        /\ gc.stop <= Height[cold_head] /\ gc.height + 1 \in Int
    BY <1>1 DEF Running, Collecting, GcRecords
  <1>3. tail' = tail + 1 /\ fork_tail' = Larger(fork_tail, tail + 1)
    BY <1>2 DEF UpdateTail
  <1>4. TailsBehindCold' /\ tail + 1 < Height[cold_head]
    BY <1>1, <1>2, <1>3 DEF TailsBehindCold, Larger
  <1>5. /\ gc' \in GcRecords /\ gc'.pc \in {"idle", "canonical"}
        /\ gc'.pc = "canonical" => /\ gc'.height = gc.height + 1 /\ gc.height + 1 < g.stop
                                   /\ gc'.stop = g.stop
    BY <1>2, CanonicalFromIs
  <1>6. Collecting'
    BY <1>2, <1>3, <1>5 DEF Collecting
  <1>. QED
    BY <1>3, <1>4, <1>6

LEMMA SkipHeightRuns ==
    ASSUME Running, Heights, ColdStore, SkipHeight, ClearFrame
    PROVE  Running' /\ ColdStore' /\ tail' = tail + 1 /\ gc.height = tail + 1
           /\ UNCHANGED <<stored, chunk_tail>>
  <1>1. /\ gc.pc = "canonical" /\ UpdateTail(gc.height) /\ gc' = CanonicalFrom(gc, gc.height + 1)
        /\ UNCHANGED <<stored, chunk_tail, cold_head, failed>> /\ blocks' = blocks
    BY DEF SkipHeight, stored
  <1>2. /\ chunk_tail \in Nat /\ chunk_tail <= tail /\ gc \in GcRecords /\ head \in blocks
        /\ gc.height = tail + 1
    BY <1>1 DEF Running, TailsBehindCold, Collecting, HeadsInOrder
  <1>3. tail' = tail + 1 /\ TailsBehindCold' /\ Collecting'
    BY <1>1, <1>2, TailGoesUp
  <1>. QED
    BY <1>1, <1>2, <1>3, ClearStepRuns

LEMMA StopAtForkRuns ==
    ASSUME Running, ColdStore, NEW b, StopAtFork(b), ClearFrame
    PROVE  Running' /\ ColdStore' /\ UNCHANGED <<stored, tail, chunk_tail>>
  <1>1. /\ gc' = Idle /\ UNCHANGED <<stored, tail, fork_tail, chunk_tail, cold_head, failed>>
        /\ blocks' = blocks /\ head \in blocks /\ TailsBehindCold
    BY DEF StopAtFork, tails, stored, Running, HeadsInOrder
  <1>2. Collecting' /\ TailsBehindCold'
    BY <1>1, IdleIsRecord DEF Collecting, TailsBehindCold
  <1>. QED
    BY <1>1, <1>2, ClearStepRuns

\* The block that goes is not the head, which is not below COLD_HEAD.
LEMMA ClearHeightRuns ==
    ASSUME Running, Heights, ColdStore, NEW b, ClearHeight(b), ClearFrame,
           refcount[Prev[b]] = 1, AtHeight(gc.height) = {b}, Prev[b] \in blocks,
           Height[Prev[b]] \in Nat, Height[Prev[b]] <= tail,
           MinChunkHeight(Prev[b]) \in Nat, MinChunkHeight(Prev[b]) <= tail
    PROVE  /\ Running' /\ ColdStore' /\ tail' = tail + 1 /\ gc.height = tail + 1
           /\ ClearCanonicalBlock(b)
  <1>1. /\ ClearCanonicalBlock(b) /\ UpdateTail(gc.height) /\ failed' = failed
        /\ gc' = CanonicalFrom([gc EXCEPT !.remaining = @ - 1], gc.height + 1)
        /\ cold_head' = cold_head /\ gc.pc = "canonical"
    BY DEF ClearHeight
  <1>2. gc \in GcRecords /\ gc.height = tail + 1 /\ head \in blocks /\ tail \in Nat
    BY <1>1 DEF Running, Collecting, HeadsInOrder, TailsBehindCold
  <1>3. blocks' = blocks \ {Prev[b]} /\ chunk_tail' = MinChunkHeight(Prev[b])
    BY <1>1 DEF ClearCanonicalBlock, ClearChunkData
  <1>4. tail' = tail + 1 /\ tail + 1 < Height[cold_head] /\ TailsBehindCold' /\ Collecting'
    <2>. DEFINE g == [gc EXCEPT !.remaining = @ - 1]
    <2>1. g \in GcRecords /\ g.stop = gc.stop
      BY <1>2 DEF GcRecords
    <2>2. gc' = CanonicalFrom(g, gc.height + 1)
      BY <1>1
    <2>. HIDE DEF g
    <2>. QED
      BY <1>1, <1>3, <2>1, <2>2, TailGoesUp
  <1>5. head \in blocks'
    BY <1>2, <1>3, <1>4 DEF Heights
  <1>. QED
    BY <1>1, <1>2, <1>4, <1>5, ClearStepRuns

-----------------------------------------------------------------------------
(* Accepting blocks                                                        *)

\* The copying follows the final head, which moves up its own chain.
LEMMA AcceptRuns ==
    ASSUME Running, ColdStore, NEW b \in Blocks \ {genesis}, AcceptNext(b), UNCHANGED coldVars,
           final_head' \in Blocks, Chain[final_head] \subseteq Chain[final_head'],
           final_head' \in Chain[head'], head' \in Blocks
    PROVE  Running' /\ ColdStore'
  <1>1. /\ cold' = cold /\ copying' = copying /\ cold_head' = cold_head /\ failed' = failed
        /\ crashes' = crashes /\ UNCHANGED <<tail, fork_tail, chunk_tail>>
        /\ blocks' = blocks \cup {b} /\ head' = Higher(b, head)
    BY DEF AcceptNext, AcceptBlock, coldVars, tails
  <1>2. HeadsInOrder'
    BY <1>1 DEF Running, HeadsInOrder, Higher
  <1>3. TailsBehindCold'
    BY <1>1 DEF Running, TailsBehindCold
  <1>4. Collecting'
    <2>1. /\ gc.pc = "idle" /\ gc \in GcRecords
          /\ gc' = IF Height[b] > Height[head] THEN [gc EXCEPT !.pc = "start"] ELSE gc
      BY DEF AcceptNext, AcceptBlock, Running, Collecting
    <2>2. gc' \in GcRecords /\ gc'.pc \in {"idle", "start"}
      BY <2>1 DEF GcRecords
    <2>. QED
      BY <2>2 DEF Collecting
  <1>5. CopyStep' /\ ColdStore'
    BY <1>1 DEF Running, CopyStep, ColdStore, InColdStore
  <1>6. NoSync'
    BY DEF AcceptNext, Running, NoSync, NotSyncing, Higher
  <1>. QED
    BY <1>1, <1>2, <1>3, <1>4, <1>5, <1>6 DEF Running

-----------------------------------------------------------------------------
(* The cold store                                                          *)

\* A copied block has its trie changes, as the tail is not above the cold head, and so the
\* cold store gets its whole state.
LEMMA CopyBlockRuns ==
    ASSUME Running, ColdStore, CopyBlock, cold.head \in Chain[cold.head],
           \A b \in NextToCopy : b \in blocks =>
               /\ b \in Blocks \ {genesis} /\ Prev[b] = cold.head /\ b \in Chain[final_head]
               /\ b \in trie_changes /\ ChunksOf(b) \subseteq Blocks \X Shards
    PROVE  Running' /\ ColdStore' /\ UNCHANGED gcVars
  <1>1. PICK b \in NextToCopy :
           /\ b \in blocks
           /\ cold' = [cold EXCEPT
                         !.blocks = @ \cup {b},
                         !.chunks = @ \cup ChunksOf(b),
                         !.nodes = IF b \in trie_changes THEN @ \cup Insertions(b) ELSE @]
           /\ copying' = [pc |-> "copied", block |-> b]
    BY DEF CopyBlock
  <1>2. /\ b \in Blocks \ {genesis} /\ Prev[b] = cold.head /\ b \in Chain[final_head]
        /\ b \in trie_changes /\ ChunksOf(b) \subseteq Blocks \X Shards
        /\ Insertions(b) \subseteq Nodes
    BY <1>1, GCAssumption DEF Insertions
  <1>3. /\ cold \in [head : Blocks, blocks : SUBSET Blocks, nodes : SUBSET Nodes,
                     chunks : SUBSET (Blocks \X Shards)]
        /\ final_head \in Blocks
        /\ \A x \in Chain[cold.head] : InColdStore(x)
    BY DEF ColdStore
  <1>4. cold' = [head |-> cold.head, blocks |-> cold.blocks \cup {b},
                 nodes |-> cold.nodes \cup Insertions(b), chunks |-> cold.chunks \cup ChunksOf(b)]
    BY <1>1, <1>2, <1>3
  <1>5. \A x \in Chain[cold.head] : InColdStore(x)'
    BY <1>3, <1>4 DEF InColdStore
  <1>6. InColdStore(b)'
    <2>1. StateOf[cold.head] \subseteq cold.nodes
      BY <1>3 DEF InColdStore
    <2>2. StateOf[b] \subseteq cold'.nodes
      BY <1>2, <1>4, <2>1 DEF Insertions
    <2>. QED
      BY <1>4, <2>2 DEF InColdStore
  <1>7. UNCHANGED gcVars /\ UNCHANGED <<header_head, sync>>
    BY DEF CopyBlock, syncVars
  <1>8. ColdStore'
    <2>1. final_head' = final_head
      BY <1>7 DEF gcVars
    <2>2. cold' \in [head : Blocks, blocks : SUBSET Blocks, nodes : SUBSET Nodes,
                     chunks : SUBSET (Blocks \X Shards)]
      BY <1>2, <1>3, <1>4
    <2>. QED
      BY <1>3, <1>4, <1>5, <2>1, <2>2 DEF ColdStore
  <1>9. CopyStep' /\ HeadsInOrder'
    BY <1>1, <1>2, <1>4, <1>6, <1>7 DEF CopyStep, gcVars, stored, HeadsInOrder, Running
  <1>10. TailsBehindCold' /\ Collecting' /\ NoSync' /\ failed' = failed /\ crashes' = crashes
    BY <1>7 DEF gcVars, stored, tails, Running, TailsBehindCold, Collecting, NoSync, NotSyncing
  <1>. QED
    BY <1>7, <1>8, <1>9, <1>10 DEF Running

\* The copied block is the child of the one before it.
LEMMA WriteColdHeadRuns ==
    ASSUME Running, ColdStore, WriteColdHead,
           \A b \in Blocks \ {genesis} : Chain[b] = Chain[Prev[b]] \cup {b}
    PROVE  Running' /\ ColdStore' /\ UNCHANGED gcVars
  <1>. DEFINE b == copying.block
  <1>1. /\ copying.pc = "copied" /\ cold' = [cold EXCEPT !.head = b]
        /\ copying' = [copying EXCEPT !.pc = "head"]
    BY DEF WriteColdHead
  <1>2. UNCHANGED gcVars /\ UNCHANGED <<header_head, sync>>
    BY DEF WriteColdHead, syncVars
  <1>3. /\ copying \in [pc : {"loop", "copied", "head"}, block : Blocks \cup {None}]
        /\ b \in Blocks \ {genesis} /\ Prev[b] = cold.head /\ b \in Chain[final_head]
        /\ InColdStore(b)
    BY <1>1 DEF Running, CopyStep
  <1>4. /\ cold \in [head : Blocks, blocks : SUBSET Blocks, nodes : SUBSET Nodes,
                     chunks : SUBSET (Blocks \X Shards)]
        /\ final_head \in Blocks
        /\ \A x \in Chain[cold.head] : InColdStore(x)
    BY DEF ColdStore
  <1>5. cold' = [head |-> b, blocks |-> cold.blocks, nodes |-> cold.nodes, chunks |-> cold.chunks]
    BY <1>1, <1>4
  <1>6. Chain[b] = Chain[cold.head] \cup {b}
    BY <1>3
  <1>7. ColdStore'
    <2>1. final_head' = final_head
      BY <1>2 DEF gcVars
    <2>. QED
      BY <1>3, <1>4, <1>5, <1>6, <2>1 DEF ColdStore, InColdStore
  <1>8. CopyStep'
    <2>1. copying' \in [pc : {"loop", "copied", "head"}, block : Blocks \cup {None}]
             /\ copying'.pc = "head" /\ copying'.block = b
      BY <1>1, <1>3
    <2>. QED
      BY <1>5, <2>1 DEF CopyStep
  <1>9. HeadsInOrder'
    BY <1>2, <1>3, <1>5, <1>6 DEF gcVars, stored, HeadsInOrder, Running
  <1>10. TailsBehindCold' /\ Collecting' /\ NoSync' /\ failed' = failed /\ crashes' = crashes
    BY <1>2 DEF gcVars, stored, tails, Running, TailsBehindCold, Collecting, NoSync, NotSyncing
  <1>. QED
    BY <1>2, <1>7, <1>8, <1>9, <1>10 DEF Running

LEMMA WriteHotColdHeadRuns ==
    ASSUME Running, Heights, ColdStore, WriteHotColdHead, cold.head \in Chain[cold.head]
    PROVE  Running' /\ ColdStore' /\ UNCHANGED <<stored, tail, chunk_tail>>
  <1>1. /\ cold_head' = copying.block /\ copying' = NotCopying /\ cold' = cold /\ copying.pc = "head"
        /\ UNCHANGED <<head, final_head, stored, tail, fork_tail, chunk_tail, gc, failed, crashes>>
        /\ UNCHANGED <<header_head, sync>>
    BY DEF WriteHotColdHead, tails, syncVars
  <1>2. cold_head' = cold.head
    BY <1>1 DEF Running, CopyStep
  <1>3. HeadsInOrder'
    BY <1>1, <1>2 DEF Running, HeadsInOrder, stored
  <1>4. TailsBehindCold'
    BY <1>1, <1>2 DEF Running, TailsBehindCold, Heights
  <1>5. Collecting'
    <2>1. gc.stop \in Nat /\ Collecting /\ Height[cold_head] <= Height[cold.head]
      BY DEF Running, Collecting, GcRecords, Heights
    <2>2. gc.stop <= Height[cold_head] => gc.stop <= Height[cold_head']
      BY <1>2, <2>1 DEF Heights
    <2>. QED
      BY <1>1, <2>1, <2>2 DEF Collecting, stored
  <1>6. CopyStep' /\ ColdStore' /\ NoSync'
    BY <1>1 DEF Running, CopyStep, NotCopying, ColdStore, InColdStore, NoSync, NotSyncing
  <1>. QED
    BY <1>1, <1>3, <1>4, <1>5, <1>6 DEF Running

-----------------------------------------------------------------------------
(* The other steps                                                         *)

LEMMA StoreUnchanged ==
    ASSUME Store, UNCHANGED <<stored, tail, chunk_tail>>
    PROVE  Store'
  <1>1. /\ blocks' = blocks /\ refcount' = refcount /\ trie_changes' = trie_changes /\ state' = state
        /\ chunks' = chunks /\ tail' = tail /\ chunk_tail' = chunk_tail
    BY DEF stored
  <1>2. PICK t \in Blocks : Tree(t) /\ Counts(t)
    BY DEF Store, StoredTree
  <1>3. Tree(t)'
    BY <1>1, <1>2 DEF Tree
  <1>4. Counts(t)'
    BY <1>1, <1>2 DEF Counts, Children, Inserters
  <1>5. ChunksHeld'
    BY <1>1 DEF Store, ChunksHeld
  <1>. QED
    BY <1>3, <1>4, <1>5 DEF Store, StoredTree

\* A crash forgets clear_data and the copying, and the stores are where they were.
LEMMA CrashKeeps ==
    ASSUME Archival, ColdStore, Crash
    PROVE  Archival' /\ ColdStore'
  <1>1. /\ crashes < MaxCrashes /\ crashes' = crashes + 1 /\ gc' = Idle
        /\ sync' = NotSyncing /\ copying' = NotCopying /\ cold' = cold /\ header_head' = header_head
        /\ UNCHANGED <<head, final_head, stored, tail, fork_tail, chunk_tail, cold_head, failed>>
    BY DEF Crash, CrashSync, CrashGC, tails
  <1>2. HeadsInOrder' /\ TailsBehindCold'
    BY <1>1 DEF Archival, Running, HeadsInOrder, TailsBehindCold, stored
  <1>3. Collecting'
    BY <1>1, IdleIsRecord DEF Collecting
  <1>4. CopyStep' /\ ColdStore' /\ NoSync'
    BY <1>1 DEF Archival, Running, CopyStep, NotCopying, ColdStore, InColdStore, NoSync
  <1>5. crashes' \in 0 .. MaxCrashes
    BY <1>1, GCAssumption DEF Archival, Running
  <1>6. Store'
    BY <1>1, StoreUnchanged DEF Archival
  <1>. QED
    BY <1>1, <1>2, <1>3, <1>4, <1>5, <1>6 DEF Archival, Running

LEMMA StutterKeeps ==
    ASSUME Inv, UNCHANGED vars
    PROVE  Inv'
  <1>1. /\ UNCHANGED <<kind, head, final_head, stored, tail, fork_tail, chunk_tail, cold_head, gc>>
        /\ UNCHANGED <<failed, crashes, header_head, sync, cold, copying>>
    BY DEF vars, gcVars, tails, syncVars, coldVars
  <1>2. ColdStore'
    BY <1>1 DEF Inv, ColdStore, InColdStore
  <1>3. ASSUME Archival PROVE Archival'
    <2>1. Store'
      BY <1>1, <1>3, StoreUnchanged DEF Archival
    <2>2. CopyStep' /\ NoSync'
      BY <1>1, <1>3 DEF Archival, Running, CopyStep, InColdStore, NoSync, NotSyncing
    <2>3. HeadsInOrder' /\ TailsBehindCold' /\ Collecting'
      BY <1>1, <1>3 DEF Archival, Running, HeadsInOrder, TailsBehindCold, Collecting, stored
    <2>. QED
      BY <1>1, <1>3, <2>1, <2>2, <2>3 DEF Archival, Running
  <1>. QED
    BY <1>1, <1>2, <1>3 DEF Inv, NotCopying

\* A node with a cold store never syncs state.
LEMMA ArchivalNeverSyncs ==
    ASSUME Running, kind = "Hot"
    PROVE  ~Sync
  <1>1. sync.pc = "no"
    BY DEF Running, NoSync, NotSyncing
  <1>. QED
    BY <1>1 DEF Sync, SyncStep, StartStateSync, StateNeeded, ResetBlock, ResetChunks, ResetState,
                ReceiveSyncPrev, ApplyParts, FinalizeShard, ResetHeads

\* No step changes the kind of the store.
LEMMA KindStays ==
    ASSUME Next
    PROVE  kind' = kind
  <1>1. CASE Accept
    BY <1>1 DEF Accept, AcceptNext, AcceptBlock
  <1>2. CASE Clear
    BY <1>2 DEF Clear, ClearData, BeginClearData, ClearFork, LowerForkTail, SkipHeight,
                StopAtFork, ClearHeight
  <1>3. CASE Sync
    BY <1>3 DEF Sync, SyncStep, StartStateSync, ResetBlock, ResetChunks, ResetState,
                ReceiveSyncPrev, ApplyParts, FinalizeShard, ResetHeads, gcVars
  <1>4. CASE Copy
    BY <1>4 DEF Copy, CopyBlock, WriteColdHead, WriteHotColdHead, gcVars
  <1>5. CASE Crash
    BY <1>5 DEF Crash, CrashSync, CrashGC
  <1>. QED
    BY <1>1, <1>2, <1>3, <1>4, <1>5 DEF Next

\* A node without a cold store copies nothing.
LEMMA PlainNodeKeeps ==
    ASSUME Inv, kind = "RPC", Next, \A b \in Blocks : last_final_block[b] \in Blocks
    PROVE  Inv'
  <1>1. ColdStore /\ cold.head = genesis /\ copying = NotCopying /\ copying.pc = "loop"
    BY DEF Inv, NotCopying
  <1>2. final_head \in Blocks /\ genesis \in Blocks
    BY <1>1, BlocksAssumption DEF ColdStore
  <1>3. cold' = cold /\ copying' = copying /\ final_head' \in Blocks
    <2>1. CASE Accept
      BY <1>2, <2>1 DEF Accept, AcceptNext, AcceptBlock, Higher, coldVars
    <2>2. CASE Clear
      BY <1>2, <2>2 DEF Clear, ClearData, BeginClearData, ClearFork, LowerForkTail, SkipHeight,
                        StopAtFork, ClearHeight, coldVars
    <2>3. CASE Sync
      BY <1>2, <2>3 DEF Sync, SyncStep, StartStateSync, ResetBlock, ResetChunks, ResetState,
                        ReceiveSyncPrev, ApplyParts, FinalizeShard, ResetHeads, coldVars, gcVars
    <2>4. CASE Copy
      BY <1>1, <2>4 DEF Copy, CopyBlock, WriteColdHead, WriteHotColdHead
    <2>5. CASE Crash
      BY <1>1, <1>2, <2>5 DEF Crash, CrashSync, CrashGC
    <2>. QED
      BY <2>1, <2>2, <2>3, <2>4, <2>5 DEF Next
  <1>4. ColdStore'
    BY <1>1, <1>3 DEF ColdStore, InColdStore
  <1>. QED
    BY <1>1, <1>3, <1>4, KindStays DEF Inv, NotCopying

-----------------------------------------------------------------------------
(* The first state, and the types                                          *)

LEMMA InitRuns ==
    ASSUME Init, Chain[genesis] = {genesis}, ChunksOf(genesis) \subseteq Blocks \X Shards
    PROVE  Running /\ ColdStore
  <1>1. /\ head = genesis /\ final_head = genesis /\ cold_head = genesis /\ blocks = {genesis}
        /\ tail = Height[genesis] /\ fork_tail = Height[genesis] /\ chunk_tail = Height[genesis]
        /\ gc = Idle /\ failed = FALSE /\ crashes = 0 /\ header_head = genesis /\ sync = NotSyncing
        /\ cold = [head |-> genesis, blocks |-> {genesis}, nodes |-> StateOf[genesis],
                   chunks |-> ChunksOf(genesis)]
        /\ copying = NotCopying
    BY DEF Init, GCInit, SyncInit
  <1>2. genesis \in Blocks /\ Height[genesis] \in Nat /\ StateOf[genesis] \in SUBSET Nodes
    BY BlocksAssumption, GCAssumption
  <1>3. ColdStore
    BY <1>1, <1>2 DEF ColdStore, InColdStore
  <1>4. HeadsInOrder /\ TailsBehindCold
    BY <1>1, <1>2 DEF HeadsInOrder, TailsBehindCold
  <1>5. Collecting
    BY <1>1, IdleIsRecord DEF Collecting
  <1>6. CopyStep /\ NoSync /\ crashes \in 0 .. MaxCrashes
    BY <1>1, <1>2, GCAssumption DEF CopyStep, NotCopying, NoSync
  <1>. QED
    BY <1>1, <1>3, <1>4, <1>5, <1>6 DEF Running

LEMMA TypesHold ==
    ASSUME Archival, ColdStore, Heights, kind = "Hot", blocks \cup trie_changes \subseteq Blocks,
           refcount \in [Blocks -> Nat], state \in [Nodes -> Nat]
    PROVE  TypeOK
  <1>1. {head, final_head, cold_head, cold.head, header_head} \subseteq Blocks
    BY DEF Archival, Running, NoSync, Heights
  <1>2. /\ gc.pc \in {"idle", "start", "forks", "canonical"}
        /\ copying.pc \in {"loop", "copied", "head"} /\ copying.block \in Blocks \cup {None}
    BY DEF Archival, Running, Collecting, GcRecords, CopyStep
  <1>3. /\ sync.pc \in {"no", "blocks", "chunks", "shards"} /\ sync.done \subseteq sync.applied
        /\ sync.applied \subseteq Shards
    BY DEF Archival, Running, NoSync, NotSyncing
  <1>4. chunks \subseteq Blocks \X Shards /\ cold.chunks \subseteq Blocks \X Shards
    BY DEF Archival, Store, ChunksHeld, ColdStore
  <1>5. {tail, fork_tail, chunk_tail} \subseteq Nat /\ failed \in BOOLEAN /\ crashes \in 0 .. MaxCrashes
    BY DEF Archival, Running, TailsBehindCold
  <1>. QED
    BY <1>1, <1>2, <1>3, <1>4, <1>5 DEF TypeOK
=============================================================================
