-------------------------- MODULE ColdStorageProofs --------------------------
(***************************************************************************)
(* The cold store is complete, and an archival node with split storage     *)
(* loses nothing, whatever its trees of blocks and states are and wherever *)
(* it crashes: proofs about ColdStorage.                                   *)
(***************************************************************************)
EXTENDS ColdStorageSteps, GarbageCollectionProofs

-----------------------------------------------------------------------------
(* The heads                                                               *)

LEMMA GenesisIsLowest ==
    ASSUME NEW b \in Blocks
    PROVE  Height[genesis] <= Height[b] /\ Height[b] \in Nat /\ Height[genesis] \in Nat
  BY ChainMembers, BlocksAssumption

\* The heads are ancestors of the head, in the order of their heights.
LEMMA HeadHeights ==
    ASSUME HeadsInOrder
    PROVE  /\ Heights
           /\ cold.head \in Chain[head] /\ cold_head \in Chain[head] /\ cold.head \in Chain[cold.head]
           /\ Height[final_head] <= Height[head] /\ Height[cold.head] <= Height[final_head]
  <1>1. head \in Blocks /\ final_head \in Blocks /\ Height[final_head] <= Height[head]
    BY ChainMembers DEF HeadsInOrder
  <1>2. cold.head \in Blocks /\ Height[cold.head] <= Height[final_head] /\ cold.head \in Chain[cold.head]
    BY <1>1, ChainMembers DEF HeadsInOrder
  <1>3. cold_head \in Blocks /\ Height[cold_head] <= Height[cold.head]
    BY <1>2, ChainMembers DEF HeadsInOrder
  <1>4. cold.head \in Chain[head] /\ cold_head \in Chain[head]
    BY <1>1, ChainTransitive DEF HeadsInOrder
  <1>. QED
    BY <1>1, <1>2, <1>3, <1>4, BlocksAssumption DEF Heights

\* get_gc_stop_height never goes beyond COLD_HEAD.
LEMMA StopBehindCold ==
    ASSUME kind = "Hot", HeadsInOrder, NEW stop \in GcStopHeights
    PROVE  stop \in Nat /\ stop <= Height[cold_head]
  <1>1. head \in Blocks /\ cold_head \in Blocks
    BY HeadHeights DEF Heights
  <1>2. gc_num_epochs_to_keep - 1 \in Nat
    BY GCAssumption
  <1>3. FirstBlockBack[gc_num_epochs_to_keep - 1][head] \in Blocks
    BY <1>1, <1>2, FirstBlockBackIsBlock
  <1>4. epoch_first_block[cold_head] \in Blocks /\ Height[epoch_first_block[cold_head]] <= Height[cold_head]
    BY <1>1, EpochFirstIsAncestor, ChainMembers
  <1>. DEFINE e == Height[FirstBlockBack[gc_num_epochs_to_keep - 1][head]]
              c == Height[epoch_first_block[cold_head]]
  <1>5. e \in Nat /\ c \in Nat /\ c <= Height[cold_head] /\ Height[cold_head] \in Nat
    BY <1>1, <1>3, <1>4, BlocksAssumption
  <1>6. StopHeight = IF c < e THEN c ELSE e
    BY DEF StopHeight
  <1>. HIDE DEF e, c
  <1>7. StopHeight \in Nat /\ StopHeight <= Height[cold_head]
    BY <1>5, <1>6
  <1>8. stop = StopHeight \/ stop = Height[genesis]
    BY DEF GcStopHeights
  <1>. QED
    BY <1>1, <1>7, <1>8, GenesisIsLowest

-----------------------------------------------------------------------------
(* Accepting blocks                                                        *)

\* A block that is accepted is above the tail: below it there is no block on the final head.
LEMMA AcceptAboveTail ==
    ASSUME Archival, NEW t, Tree(t), NEW b \in Blocks \ {genesis}, Prev[b] \in blocks,
           Height[b] >= tail, final_head \in Chain[b]
    PROVE  tail < Height[b]
  <1>. SUFFICES ASSUME Height[b] = tail PROVE FALSE
    BY BlocksAssumption DEF Tree
  <1>1. Height[cold_head] <= Height[b] /\ Height[cold_head] \in Nat
    BY HeadHeights, ChainMembers, BlocksAssumption DEF Archival, Running, Heights
  <1>2. tail = Height[genesis]
    BY <1>1, BlocksAssumption DEF Archival, Running, TailsBehindCold
  <1>3. Height[Prev[b]] < Height[b] /\ Prev[b] \in Blocks
    BY BlocksAssumption DEF Tree
  <1>. QED
    BY <1>2, <1>3, GenesisIsLowest

\* It is stored with its chunks.
LEMMA AcceptStores ==
    ASSUME Archival, NEW b \in Blocks \ {genesis}, AcceptBlock(b)
    PROVE  Store'
  <1>1. PICK t \in Blocks : Tree(t) /\ Counts(t)
    BY DEF Archival, Store, StoredTree
  <1>2. tail < Height[b] /\ Prev[b] \in blocks /\ tail' = tail
    BY <1>1, AcceptAboveTail DEF AcceptBlock, Finalizable, tails
  <1>3. Tree(t)' /\ Counts(t)'
    BY <1>1, <1>2, TreeGrows DEF AcceptBlock
  <1>4. ChunksHeld'
    <2>1. /\ chunks' = chunks \cup {<<b, s>> : s \in NewChunks[b]} /\ blocks' = blocks \cup {b}
          /\ chunk_tail' = chunk_tail /\ ChunksHeld
      BY DEF AcceptBlock, tails, Archival, Store
    <2>2. \A s \in NewChunks[b] : <<b, s>> \in Blocks \X Shards /\ HeightCreated(<<b, s>>) = Height[b]
      BY ChunkTypes
    <2>3. chunk_tail <= Height[b]
      BY <1>2, BlocksAssumption DEF Archival, Running, TailsBehindCold
    <2>4. ChunksOf(b) \subseteq chunks'
      BY <1>2, <2>1, ChunksOfChild DEF ChunksHeld
    <2>. QED
      BY <2>1, <2>2, <2>3, <2>4 DEF ChunksHeld
  <1>. QED
    BY <1>3, <1>4 DEF Store, StoredTree

\* The final head moves up its own chain, and stays an ancestor of the head.
LEMMA AcceptMovesHeads ==
    ASSUME HeadsInOrder, NEW b \in Blocks \ {genesis}, final_head \in Chain[b],
           head' = Higher(b, head), final_head' = Higher(last_final_block[b], final_head)
    PROVE  /\ final_head' \in Blocks /\ Chain[final_head] \subseteq Chain[final_head']
           /\ final_head' \in Chain[head'] /\ head' \in Blocks
  <1>. DEFINE f == last_final_block[b]
  <1>1. f \in Chain[b] /\ f \in Blocks /\ Height[f] < Height[b]
    BY LastFinalIsAncestor
  <1>2. head \in Blocks /\ final_head \in Blocks /\ final_head \in Chain[head]
    BY HeadHeights DEF HeadsInOrder, Heights
  <1>3. Height[f] > Height[final_head] => final_head \in Chain[f]
    BY <1>1, <1>2, ChainLinear, BlocksAssumption
  <1>4. ~(Height[b] > Height[head]) => f \in Chain[head]
    BY <1>1, <1>2, FinalIsCommon, BlocksAssumption
  <1>5. /\ final_head' \in Blocks /\ final_head \in Chain[final_head'] /\ final_head' \in Chain[b]
        /\ ~(Height[b] > Height[head]) => final_head' \in Chain[head]
    BY <1>1, <1>2, <1>3, <1>4, ChainMembers DEF Higher
  <1>6. final_head' \in Chain[head'] /\ head' \in Blocks
    BY <1>2, <1>5 DEF Higher
  <1>. QED
    BY <1>5, <1>6, ChainTransitive

LEMMA AcceptKeeps ==
    ASSUME Archival, ColdStore, Accept
    PROVE  Archival' /\ ColdStore'
  <1>1. PICK b \in Blocks \ {genesis} : AcceptNext(b)
    BY DEF Accept
  <1>2. AcceptBlock(b) /\ UNCHANGED coldVars /\ HeadsInOrder
    BY <1>1 DEF Accept, AcceptNext, Archival, Running
  <1>3. /\ final_head' \in Blocks /\ Chain[final_head] \subseteq Chain[final_head']
        /\ final_head' \in Chain[head'] /\ head' \in Blocks
    BY <1>2, AcceptMovesHeads DEF AcceptBlock, Finalizable
  <1>4. Running' /\ ColdStore'
    BY <1>1, <1>2, <1>3, AcceptRuns DEF Archival
  <1>. QED
    BY <1>2, <1>4, AcceptStores DEF Archival

-----------------------------------------------------------------------------
(* clear_data                                                              *)

\* Neither the root nor a block of the canonical chain is taken for the end of a fork.
LEMMA DanglingIsLeaf ==
    ASSUME Running, gc.pc = "forks", NEW t \in Blocks, Tree(t), Counts(t), NEW b \in Dangling
    PROVE  b \in blocks \ {t} /\ Children(b) = {} /\ b # head /\ Height[b] <= gc.height
  <1>1. HeadsInOrder /\ TailsBehindCold /\ Collecting /\ Heights
    BY HeadHeights DEF Running
  <1>2. /\ gc.height \in Int /\ tail <= gc.height /\ gc.height < Height[head]
        /\ gc.current # None => gc.current \in blocks /\ Height[gc.current] < gc.height
    <2>1. gc.height \in Int /\ gc.bottom \in Int
      BY <1>1 DEF Collecting, GcRecords
    <2>. QED
      BY <1>1, <2>1 DEF TailsBehindCold, Collecting, Heights
  <1>3. blocks \subseteq Blocks /\ t \in blocks /\ head \in blocks /\ Height[t] <= tail /\ tail \in Nat
    BY <1>1 DEF Tree, HeadsInOrder
  <1>4. b \in blocks /\ refcount[b] = 0 /\ Height[b] <= gc.height
    BY <1>2, <1>3, BlocksAssumption DEF Dangling, AtHeight
  <1>5. Children(b) = {}
    BY <1>3, <1>4, CountOfChildren
  <1>6. b # head /\ t # head
    BY <1>2, <1>3, <1>4, BlocksAssumption
  <1>7. b # t
    <2>1. t \in Chain[head]
      BY <1>3, StoredAncestors
    <2>2. Children(t) # {}
      BY <1>3, <1>6, <2>1, StoredChild
    <2>. QED
      BY <1>5, <2>2
  <1>. QED
    BY <1>4, <1>5, <1>6, <1>7

LEMMA ClearForkKeeps ==
    ASSUME Archival, ColdStore, NEW b \in Dangling, ClearFork(b), ClearFrame
    PROVE  Archival' /\ ColdStore'
  <1>1. PICK t \in Blocks : Tree(t) /\ Counts(t)
    BY DEF Archival, Store, StoredTree
  <1>2. gc.pc = "forks" /\ Running /\ ChunksHeld
    BY DEF ClearFork, Archival, Store
  <1>3. b \in blocks \ {t} /\ Children(b) = {} /\ b # head /\ Height[b] <= gc.height
    BY <1>1, <1>2, DanglingIsLeaf
  <1>4. /\ b # genesis /\ Prev[b] \in blocks /\ b \in Blocks /\ Prev[b] \in Blocks /\ Prev[b] # b
        /\ Height[Prev[b]] < gc.height
    <2>1. /\ b # genesis /\ Prev[b] \in blocks /\ b \in Blocks /\ Prev[b] \in Blocks
          /\ Height[Prev[b]] < Height[b] /\ {Height[b], Height[Prev[b]]} \subseteq Nat
      BY <1>1, <1>3, BlocksAssumption DEF Tree
    <2>2. gc.height \in Int
      BY <1>2 DEF Running, Collecting, GcRecords
    <2>. QED
      BY <1>3, <2>1, <2>2
  <1>5. refcount[Prev[b]] > 0
    <2>1. b \in Children(Prev[b])
      BY <1>3, <1>4 DEF Children
    <2>2. refcount[Prev[b]] \in Nat /\ refcount[Prev[b]] # 0
      BY <1>1, <1>4, <2>1, CountOfChildren
    <2>. QED
      BY <2>2
  <1>6. Running' /\ ColdStore' /\ ClearForkBlock(b) /\ UNCHANGED <<chunks, tail, chunk_tail>>
    BY <1>2, <1>3, <1>4, <1>5, ClearForkRuns
  <1>7. Tree(t)' /\ Counts(t)'
    BY <1>1, <1>3, <1>6, TreeLosesLeaf
  <1>8. ChunksHeld'
    BY <1>2, <1>6 DEF ChunksHeld, ClearForkBlock
  <1>. QED
    BY <1>6, <1>7, <1>8 DEF Archival, Store, StoredTree

\* The one block of the height is the only child of the root.
LEMMA OnlyChild ==
    ASSUME Running, gc.pc = "canonical", NEW t \in Blocks, Tree(t), Counts(t),
           NEW b \in AtHeight(gc.height), ~StartsFork(Prev[b])
    PROVE  /\ b \in blocks \ {t} /\ Prev[b] = t /\ Children(t) = {b} /\ refcount[t] = 1
           /\ AtHeight(gc.height) = {b} /\ Height[b] = tail + 1
  <1>1. gc.height = tail + 1 /\ tail \in Nat
    BY DEF Running, Collecting, TailsBehindCold
  <1>2. blocks \subseteq Blocks /\ t \in blocks /\ Height[t] <= tail /\ Height[t] \in Nat
    BY BlocksAssumption DEF Tree
  <1>3. ASSUME NEW c \in AtHeight(gc.height) PROVE c \in blocks \ {t} /\ Prev[c] = t /\ c \in Children(t)
    <2>1. c \in blocks /\ Height[c] = tail + 1 /\ c # t
      BY <1>1, <1>2 DEF AtHeight
    <2>2. /\ c # genesis /\ Prev[c] \in blocks /\ Height[Prev[c]] < Height[c]
          /\ Height[Prev[c]] \in Nat
      BY <1>2, <2>1, BlocksAssumption DEF Tree
    <2>3. Prev[c] = t
      BY <1>1, <2>1, <2>2 DEF Tree
    <2>. QED
      BY <2>1, <2>2, <2>3 DEF Children
  <1>4. refcount[t] = 1
    <2>1. refcount[t] \in Nat /\ refcount[t] # 0
      BY <1>2, <1>3, CountOfChildren
    <2>2. ~(refcount[t] > 1)
      BY <1>3 DEF StartsFork
    <2>. QED
      BY <2>1, <2>2
  <1>5. Children(t) = {b}
    <2>1. Cardinality(Children(t)) = 1 /\ IsFiniteSet(Children(t))
      BY <1>2, <1>4, CountOfChildren
    <2>2. \E x : Children(t) = {x}
      BY <2>1, FS_Singleton
    <2>. QED
      BY <1>3, <2>2
  <1>. QED
    BY <1>1, <1>3, <1>4, <1>5 DEF AtHeight

LEMMA ClearHeightKeeps ==
    ASSUME Archival, ColdStore, NEW b \in AtHeight(gc.height), ClearHeight(b), ClearFrame
    PROVE  Archival' /\ ColdStore'
  <1>1. PICK t \in Blocks : Tree(t) /\ Counts(t)
    BY DEF Archival, Store, StoredTree
  <1>2. gc.pc = "canonical" /\ ~StartsFork(Prev[b]) /\ Running /\ Heights /\ ChunksHeld
    BY HeadHeights DEF ClearHeight, Archival, Store, Running
  <1>3. /\ b \in blocks \ {t} /\ Prev[b] = t /\ Children(t) = {b} /\ refcount[t] = 1
        /\ AtHeight(gc.height) = {b} /\ Height[b] = tail + 1
    BY <1>1, <1>2, OnlyChild
  <1>4. t \in blocks /\ Height[t] <= tail /\ Height[t] \in Nat /\ blocks \subseteq Blocks
    BY <1>1, BlocksAssumption DEF Tree
  <1>5. /\ MinChunkHeight(t) \in Nat /\ MinChunkHeight(t) <= tail
        /\ \A x \in blocks : \A c \in ChunksOf(x) : HeightCreated(c) >= MinChunkHeight(t)
    BY <1>1, ChunksAboveMin
  <1>6. Running' /\ ColdStore' /\ tail' = tail + 1 /\ ClearCanonicalBlock(b)
    BY <1>2, <1>3, <1>4, <1>5, ClearHeightRuns
  <1>7. Tree(b)' /\ Counts(b)'
    BY <1>1, <1>3, <1>6, TreeLosesRoot
  <1>8. ChunksHeld'
    <2>1. /\ blocks' = blocks \ {t} /\ chunk_tail' = MinChunkHeight(t)
          /\ chunks' = {c \in chunks : HeightCreated(c) < chunk_tail
                                          \/ HeightCreated(c) >= MinChunkHeight(t)}
      BY <1>3, <1>6 DEF ClearCanonicalBlock, ClearChunkData
    <2>2. \A x \in blocks' : ChunksOf(x) \subseteq chunks'
      BY <1>2, <1>5, <2>1 DEF ChunksHeld
    <2>3. ASSUME NEW c \in chunks' PROVE HeightCreated(c) >= chunk_tail'
      <3>1. c \in chunks /\ HeightCreated(c) >= chunk_tail /\ HeightCreated(c) \in Nat /\ chunk_tail \in Nat
        BY <1>1, <1>2, <2>1, ChunkTypes DEF ChunksHeld, Running, TailsBehindCold
      <3>. QED
        BY <1>5, <2>1, <3>1
    <2>. QED
      BY <1>2, <2>1, <2>2, <2>3 DEF ChunksHeld
  <1>. QED
    BY <1>3, <1>4, <1>6, <1>7, <1>8 DEF Archival, Store, StoredTree

LEMMA ClearKeeps ==
    ASSUME Archival, ColdStore, kind = "Hot", Clear
    PROVE  Archival' /\ ColdStore'
  <1>1. ClearFrame
    BY DEF Clear, ClearFrame, ClearData, BeginClearData, ClearFork, LowerForkTail, SkipHeight,
           StopAtFork, ClearHeight
  <1>2. Store /\ Running /\ Heights /\ HeadsInOrder
    BY HeadHeights DEF Archival, Running
  <1>3. ASSUME Running', ColdStore', UNCHANGED <<stored, tail, chunk_tail>>
        PROVE  Archival' /\ ColdStore'
    BY <1>2, <1>3, StoreUnchanged DEF Archival
  <1>4. CASE BeginClearData
    <2>1. \A stop \in GcStopHeights : stop \in Nat /\ stop <= Height[cold_head]
      BY <1>2, StopBehindCold
    <2>. QED
      BY <1>1, <1>2, <1>3, <1>4, <2>1, BeginClearDataRuns
  <1>5. ASSUME NEW b \in Dangling, ClearFork(b) PROVE Archival' /\ ColdStore'
    BY <1>1, <1>5, ClearForkKeeps
  <1>6. CASE LowerForkTail
    BY <1>1, <1>2, <1>3, <1>6, LowerForkTailRuns
  <1>7. CASE SkipHeight
    <2>1. PICK t \in Blocks : Tree(t) /\ Counts(t)
      BY <1>2 DEF Store, StoredTree
    <2>2. /\ Running' /\ ColdStore' /\ tail' = tail + 1 /\ gc.height = tail + 1
          /\ UNCHANGED <<stored, chunk_tail>>
      BY <1>1, <1>2, <1>7, SkipHeightRuns
    <2>3. Tree(t)' /\ Counts(t)'
      BY <1>7, <2>1, <2>2, TreeAboveTail DEF SkipHeight
    <2>4. ChunksHeld'
      BY <1>2, <2>2 DEF Store, ChunksHeld, stored
    <2>. QED
      BY <2>2, <2>3, <2>4 DEF Archival, Store, StoredTree
  <1>8. ASSUME NEW b \in AtHeight(gc.height), StopAtFork(b) PROVE Archival' /\ ColdStore'
    BY <1>1, <1>2, <1>3, <1>8, StopAtForkRuns
  <1>9. ASSUME NEW b \in AtHeight(gc.height), ClearHeight(b) PROVE Archival' /\ ColdStore'
    BY <1>1, <1>9, ClearHeightKeeps
  <1>. QED
    BY <1>4, <1>5, <1>6, <1>7, <1>8, <1>9 DEF Clear, ClearData

-----------------------------------------------------------------------------
(* The cold store                                                          *)

\* The next block to copy is a child of the cold head: none is skipped.
LEMMA NextIsChild ==
    ASSUME HeadsInOrder, NEW b \in NextToCopy
    PROVE  /\ b \in Blocks \ {genesis} /\ Prev[b] = cold.head /\ b \in Chain[final_head]
           /\ Height[cold.head] < Height[b]
  <1>1. /\ b \in Chain[head] /\ Height[cold.head] < Height[b] /\ Height[b] <= Height[final_head]
        /\ \A c \in Chain[head] :
             Height[cold.head] < Height[c] /\ Height[c] <= Height[final_head] => Height[b] <= Height[c]
    BY DEF NextToCopy, ToCopy
  <1>2. /\ head \in Blocks /\ cold.head \in Blocks /\ final_head \in Blocks
        /\ cold.head \in Chain[head] /\ final_head \in Chain[head]
        /\ Height[cold.head] \in Nat /\ Height[final_head] \in Nat
    BY HeadHeights DEF HeadsInOrder, Heights
  <1>3. b \in Blocks /\ Height[b] \in Nat
    BY <1>1, <1>2, ChainMembers, BlocksAssumption
  <1>4. cold.head \in Chain[b] /\ b \in Chain[final_head]
    BY <1>1, <1>2, <1>3, ChainLinear
  <1>5. b # genesis /\ cold.head \in Chain[Prev[b]]
    BY <1>1, <1>2, <1>3, <1>4, ChainMembers
  <1>6. Prev[b] \in Blocks /\ Height[Prev[b]] < Height[b] /\ Height[Prev[b]] \in Nat
    BY <1>3, <1>5, BlocksAssumption
  <1>7. Prev[b] \in Chain[head]
    <2>1. Prev[b] \in Chain[b]
      BY <1>3, <1>5, <1>6, ChainUnfolds, ChainMembers
    <2>. QED
      BY <1>1, <1>2, <2>1, ChainTransitive
  <1>8. Prev[b] = cold.head
    <2>. SUFFICES ASSUME Prev[b] # cold.head PROVE FALSE
      OBVIOUS
    <2>1. Height[cold.head] < Height[Prev[b]]
      BY <1>5, <1>6, ChainMembers
    <2>. QED
      BY <1>1, <1>2, <1>3, <1>6, <1>7, <2>1
  <1>. QED
    BY <1>1, <1>3, <1>4, <1>5, <1>8

LEMMA CopyKeeps ==
    ASSUME Archival, ColdStore, Copy
    PROVE  Archival' /\ ColdStore'
  <1>1. Store /\ Running /\ Heights /\ HeadsInOrder /\ cold.head \in Chain[cold.head]
    BY HeadHeights DEF Archival, Running
  <1>2. ASSUME Running', ColdStore', UNCHANGED <<stored, tail, chunk_tail>>
        PROVE  Archival' /\ ColdStore'
    BY <1>1, <1>2, StoreUnchanged DEF Archival
  <1>3. CASE CopyBlock
    <2>1. PICK t \in Blocks : Tree(t) /\ Counts(t)
      BY <1>1 DEF Store, StoredTree
    <2>2. Height[t] <= tail /\ tail <= Height[cold.head] /\ {Height[t], tail, Height[cold.head]} \subseteq Nat
      BY <1>1, <1>3, <2>1, BlocksAssumption DEF Tree, Heights, CopyBlock
    <2>3. ASSUME NEW b \in NextToCopy, b \in blocks
          PROVE  /\ b \in Blocks \ {genesis} /\ Prev[b] = cold.head /\ b \in Chain[final_head]
                 /\ b \in trie_changes /\ ChunksOf(b) \subseteq Blocks \X Shards
      <3>1. /\ b \in Blocks \ {genesis} /\ Prev[b] = cold.head /\ b \in Chain[final_head]
            /\ Height[cold.head] < Height[b] /\ Height[b] \in Nat
        BY <1>1, NextIsChild, BlocksAssumption
      <3>2. b \in trie_changes
        BY <2>1, <2>2, <2>3, <3>1 DEF Counts
      <3>. QED
        BY <3>1, <3>2, ChunkTypes
    <2>4. Running' /\ ColdStore' /\ UNCHANGED gcVars
      BY <1>1, <1>3, <2>3, CopyBlockRuns
    <2>. QED
      BY <1>2, <2>4 DEF gcVars, tails
  <1>4. CASE WriteColdHead
    <2>1. Running' /\ ColdStore' /\ UNCHANGED gcVars
      BY <1>1, <1>4, ChainUnfolds, WriteColdHeadRuns
    <2>. QED
      BY <1>2, <2>1 DEF gcVars, tails
  <1>5. CASE WriteHotColdHead
    BY <1>1, <1>2, <1>5, WriteHotColdHeadRuns
  <1>. QED
    BY <1>3, <1>4, <1>5 DEF Copy

-----------------------------------------------------------------------------
(* The theorems                                                            *)

LEMMA InitInv == Init => Inv
  <1>. SUFFICES ASSUME Init PROVE Inv
    OBVIOUS
  <1>1. /\ kind \in {"RPC", "Hot"} /\ blocks = {genesis} /\ refcount = [b \in Blocks |-> 0]
        /\ trie_changes = {} /\ tail = Height[genesis] /\ chunk_tail = Height[genesis]
        /\ state = [n \in Nodes |-> IF n \in StateOf[genesis] THEN 1 ELSE 0]
        /\ chunks = ChunksOf(genesis) /\ cold.head = genesis /\ copying = NotCopying
    BY DEF Init, GCInit
  <1>2. /\ genesis \in Blocks /\ Chain[genesis] = {genesis} /\ Height[genesis] \in Nat
        /\ ChunksOf(genesis) \subseteq Blocks \X Shards
    BY BlocksAssumption, ChainUnfolds, ChunkTypes
  <1>3. Tree(genesis)
    BY <1>1, <1>2, FS_EmptySet, FS_AddElement DEF Tree
  <1>4. Counts(genesis)
    <2>1. \A b \in Blocks : Children(b) = {}
      BY <1>1 DEF Children
    <2>2. \A n \in Nodes : Inserters(n, genesis) = {}
      BY <1>1 DEF Inserters
    <2>3. Cardinality({}) = 0
      BY FS_EmptySet
    <2>4. refcount = [b \in Blocks |-> IF b \in blocks THEN Cardinality(Children(b)) ELSE 0]
      BY <1>1, <2>1, <2>3
    <2>5. state = [n \in Nodes |-> (IF n \in StateOf[genesis] THEN 1 ELSE 0)
                                      + Cardinality(Inserters(n, genesis))]
      BY <1>1, <2>2, <2>3
    <2>. QED
      BY <1>1, <2>4, <2>5 DEF Counts
  <1>5. ChunksHeld
    <2>1. \A s \in Shards : HeightCreated(<<ChunkIn[genesis][s], s>>) = Height[genesis]
      BY ChunkInUnfolds DEF HeightCreated
    <2>2. \A c \in ChunksOf(genesis) : HeightCreated(c) = Height[genesis]
      BY <2>1 DEF ChunksOf
    <2>. QED
      BY <1>1, <1>2, <2>2 DEF ChunksHeld
  <1>6. Running /\ ColdStore
    BY <1>2, InitRuns
  <1>. QED
    BY <1>1, <1>2, <1>3, <1>4, <1>5, <1>6 DEF Inv, Archival, Store, StoredTree

\* The inductive invariant holds in every state.
THEOREM InvHolds == Spec => []Inv
  <1>1. ASSUME Inv, Next PROVE Inv'
    <2>1. CASE kind = "RPC"
      BY <1>1, <2>1, PlainNodeKeeps, LastFinalIsAncestor
    <2>2. CASE kind = "Hot"
      <3>1. Archival /\ ColdStore /\ ~Sync
        BY <1>1, <2>2, ArchivalNeverSyncs DEF Inv, Archival
      <3>2. Archival' /\ ColdStore'
        BY <1>1, <2>2, <3>1, AcceptKeeps, ClearKeeps, CopyKeeps, CrashKeeps DEF Next
      <3>. QED
        BY <1>1, <2>2, <3>2, KindStays DEF Inv
    <2>. QED
      BY <1>1, <2>1, <2>2 DEF Inv
  <1>2. Inv /\ [Next]_vars => Inv'
    BY <1>1, StutterKeeps
  <1>. QED
    BY <1>2, InitInv, PTL DEF Spec

\* The cold store holds final blocks only, every one up to its head and each with its
\* chunks and its whole state (update_cold_db, update_cold_head), for every tree of blocks
\* that finality allows, every number of crashes and every length of an epoch.
THEOREM ColdStoreIsCompleteHolds == Spec => []ColdStoreIsComplete
  <1>1. Inv => ColdStoreIsComplete
    <2>. SUFFICES ASSUME Inv PROVE ColdStoreIsComplete
      OBVIOUS
    <2>1. final_head \in Blocks /\ \A b \in Chain[cold.head] : InColdStore(b)
      BY DEF Inv, ColdStore
    <2>2. cold.head \in Chain[final_head]
      BY <2>1, ChainMembers DEF Inv, Archival, Running, HeadsInOrder
    <2>. QED
      BY <2>1, <2>2 DEF ColdStoreIsComplete, InColdStore
  <1>. QED
    BY <1>1, InvHolds, PTL

\* A block of the canonical chain of an archival node is readable from the hot store or,
\* with its chunks and its state, from the cold one, whatever clear_data removed.
THEOREM NothingIsLostHolds == Spec => []NothingIsLost
  <1>1. Inv => NothingIsLost
    <2>. SUFFICES ASSUME Inv, kind = "Hot", NEW b \in Chain[head], b \notin blocks
                  PROVE  InColdStore(b)
      BY DEF NothingIsLost, InColdStore
    <2>1. Archival /\ \A x \in Chain[cold.head] : InColdStore(x)
      BY DEF Inv, ColdStore
    <2>2. PICK t \in Blocks : Tree(t)
      BY <2>1 DEF Archival, Store, StoredTree
    <2>3. HeadsInOrder /\ TailsBehindCold /\ head \in Blocks /\ head \in blocks
      BY <2>1 DEF Archival, Running, HeadsInOrder
    <2>4. b \in Chain[t] /\ Height[b] < Height[t]
      BY <2>2, <2>3, StoredAncestors
    <2>5. b \in Blocks /\ Height[genesis] <= Height[b] /\ Height[b] \in Nat /\ Height[genesis] \in Nat
      BY <2>3, ChainMembers, GenesisIsLowest
    <2>6. Height[t] <= tail /\ tail \in Nat /\ Height[t] \in Nat
      BY <2>2, BlocksAssumption DEF Tree
    <2>7. tail < Height[cold_head]
      BY <2>3, <2>4, <2>5, <2>6 DEF TailsBehindCold
    <2>8. /\ cold.head \in Chain[head] /\ Height[cold_head] <= Height[cold.head]
          /\ Height[cold_head] \in Nat /\ Height[cold.head] \in Nat
      BY <2>3, HeadHeights DEF Heights
    <2>9. Height[b] <= Height[cold.head]
      BY <2>4, <2>5, <2>6, <2>7, <2>8
    <2>10. b \in Chain[cold.head]
      BY <2>3, <2>8, <2>9, ChainLinear
    <2>. QED
      BY <2>1, <2>10
  <1>. QED
    BY <1>1, InvHolds, PTL

\* All blocks of an archival node are ones clear_data still comes to.
LEMMA AllBlocksAreLive ==
    ASSUME NEW t \in Blocks, Tree(t), head \in blocks
    PROVE  LiveBlocks = blocks
  <1>. DEFINE H == {h \in {Height[b] : b \in Chain[head] \cap blocks} : h <= tail}
              zero == 0
              low == Height[t]
  <1>1. blocks \subseteq Blocks /\ t \in blocks /\ low \in Nat /\ low <= tail /\ tail \in Nat
    BY BlocksAssumption DEF Tree
  <1>2. ASSUME NEW b \in blocks PROVE low <= Height[b] /\ (Height[b] <= tail => b = t)
    <2>1. b # t => tail < Height[b]
      BY DEF Tree
    <2>2. Height[b] \in Nat
      BY <1>1, BlocksAssumption
    <2>. QED
      BY <1>1, <2>1, <2>2
  <1>3. H = {low}
    <2>1. t \in Chain[head]
      BY StoredAncestors
    <2>2. low \in H
      BY <1>1, <2>1
    <2>3. \A h \in H : h = low
      BY <1>2
    <2>. QED
      BY <2>2, <2>3
  <1>4. LiveBlocks = {b \in blocks : Height[b] >= Max({0} \cup H)}
    BY DEF LiveBlocks
  <1>5. Max({0} \cup H) = low
    <2>1. {0} \cup H = {zero, low} /\ zero \in Nat /\ low >= zero
      BY <1>1, <1>3
    <2>. HIDE DEF H, zero, low
    <2>2. \E x \in {zero, low} : \A y \in {zero, low} : x >= y
      BY <1>1, <2>1
    <2>3. Max({zero, low}) \in {zero, low} /\ \A y \in {zero, low} : Max({zero, low}) >= y
      BY <2>2, Zenon DEF Max
    <2>4. Max({zero, low}) = low
      BY <1>1, <2>1, <2>3
    <2>. QED
      BY <2>1, <2>4
  <1>. HIDE DEF H, low
  <1>. QED
    BY <1>1, <1>2, <1>4, <1>5

\* What clear_data relies on holds of an archival node in every state.
LEMMA ArchivalStore ==
    ASSUME Inv, kind = "Hot"
    PROVE  HotStoreInvariant /\ StoredStates
  <1>0. Archival /\ ColdStore
    BY DEF Inv
  <1>1. PICK t \in Blocks : Tree(t) /\ Counts(t)
    BY <1>0 DEF Archival, Store, StoredTree
  <1>2. HeadsInOrder /\ TailsBehindCold /\ ChunksHeld
    BY <1>0 DEF Archival, Store, Running
  <1>3. blocks \subseteq Blocks /\ t \in blocks /\ head \in blocks /\ Height[t] <= tail
        /\ tail \in Nat /\ Height[t] \in Nat
    BY <1>1, <1>2, BlocksAssumption DEF Tree, HeadsInOrder
  <1>4. LiveBlocks = blocks
    BY <1>1, <1>3, AllBlocksAreLive
  <1>5. TypeOK
    <2>1. refcount \in [Blocks -> Nat]
      <3>1. \A b \in Blocks : refcount[b] \in Nat
        BY <1>1, CountOfChildren
      <3>2. refcount = [b \in Blocks |-> refcount[b]]
        BY <1>1 DEF Counts
      <3>. QED
        BY <3>1, <3>2
    <2>2. state \in [Nodes -> Nat]
      BY <1>1, NodesOfStates
    <2>3. blocks \cup trie_changes \subseteq Blocks
      BY <1>1, <1>3 DEF Counts
    <2>. QED
      BY <1>0, <1>2, <2>1, <2>2, <2>3, HeadHeights, TypesHold
  <1>6. OneTail
    <2>1. t \in Chain[head]
      BY <1>1, <1>3, StoredAncestors
    <2>2. \A b \in blocks \ {t} : b # genesis /\ Prev[b] \in blocks
      BY <1>1 DEF Tree
    <2>. QED
      BY <1>3, <1>4, <2>1, <2>2 DEF OneTail
  <1>7. ChainAboveTailIsKept
    <2>. SUFFICES ASSUME NEW b \in Chain[head], Height[b] >= tail PROVE b \in blocks
      BY DEF ChainAboveTailIsKept
    <2>1. b \in blocks \/ Height[b] < Height[t]
      BY <1>1, <1>3, StoredAncestors
    <2>2. Height[b] \in Nat
      BY <1>2, ChainMembers, BlocksAssumption DEF HeadsInOrder
    <2>. QED
      BY <1>3, <2>1, <2>2
  <1>8. TailsInOrder
    BY <1>2 DEF TailsInOrder, TailsBehindCold
  <1>9. RefCountsAreChildren
    BY <1>1, <1>3, <1>4, CountOfChildren DEF RefCountsAreChildren
  <1>10. ChunksAreKept
    BY <1>2, <1>4 DEF ChunksAreKept, ChunksHeld
  <1>11. NoChunkIsForgotten
    <2>1. ASSUME NEW c \in chunks PROVE ~(HeightCreated(c) < chunk_tail)
      <3>1. HeightCreated(c) \in Nat /\ chunk_tail \in Nat /\ HeightCreated(c) >= chunk_tail
        BY <1>2, ChunkTypes DEF ChunksHeld, TailsBehindCold
      <3>. QED
        BY <3>1
    <2>. QED
      BY <2>1 DEF NoChunkIsForgotten
  <1>12. StoredStates
    BY <1>1, <1>4, NodesOfStates DEF StoredStates
  <1>. QED
    BY <1>5, <1>6, <1>7, <1>8, <1>9, <1>10, <1>11, <1>12 DEF HotStoreInvariant, StoreInvariant

\* After every commit and every crash, the hot store of an archival node is one tree of
\* blocks that is complete above the tail, with the counts of children clear_data trusts
\* and all chunks of its blocks.
THEOREM ArchivalStoreHolds == Spec => [](kind = "Hot" => HotStoreInvariant)
  <1>1. Inv => (kind = "Hot" => HotStoreInvariant)
    BY ArchivalStore
  <1>. QED
    BY <1>1, InvHolds, PTL

\* The State column of an archival node holds the nodes of the states of its blocks and
\* no other, whatever forks were cleared and wherever a crash stopped it.
THEOREM ArchivalStatesAreExact == Spec => [](kind = "Hot" => StatesAreExact)
  <1>1. Inv => (kind = "Hot" => StatesAreExact)
    BY ArchivalStore DEF StatesAreExact
  <1>. QED
    BY <1>1, InvHolds, PTL

\* No assertion and no error of clear_data is ever hit on an archival node.
THEOREM ArchivalClearDataNeverFails == Spec => [](kind = "Hot" => ClearDataNeverFails)
  <1>1. Inv => (kind = "Hot" => ClearDataNeverFails)
    BY DEF Inv, Archival, Running, ClearDataNeverFails
  <1>. QED
    BY <1>1, InvHolds, PTL
=============================================================================
