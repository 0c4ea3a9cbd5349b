----------------------- MODULE GarbageCollectionProofs -----------------------
(***************************************************************************)
(* What GarbageCollection does to the blocks and chunks of the store and   *)
(* to the references to trie nodes, for every tree of blocks: the chains   *)
(* of a tree, what is final and where epochs begin, and how the tree of    *)
(* the stored blocks grows, loses a fork and loses its root.               *)
(***************************************************************************)
EXTENDS GarbageCollection, Induction, FiniteSetTheorems, TLAPS

\* Induction from parent to child.
LEMMA TreeInduction ==
    ASSUME NEW S, genesis \in S, \A b \in Blocks \ {genesis} : Prev[b] \in S => b \in S
    PROVE  \A b \in Blocks : b \in S
  <1>. SUFFICES ASSUME NEW x \in Blocks \ S PROVE FALSE
    OBVIOUS
  <1>. DEFINE H == {h \in Nat : \E b \in Blocks \ S : h = Height[b]}
  <1>1. H \in SUBSET Nat /\ H # {}
    BY BlocksAssumption
  <1>2. PICK h \in H : \A k \in H : h <= k
    BY <1>1, LeastNatural
  <1>3. PICK b \in Blocks \ S : h = Height[b]
    BY <1>2
  <1>4. b # genesis /\ Prev[b] \in Blocks \ S /\ Height[Prev[b]] < Height[b]
    BY <1>3, BlocksAssumption
  <1>5. Height[Prev[b]] \in H
    BY <1>4, BlocksAssumption
  <1>. QED
    BY <1>2, <1>3, <1>4, <1>5, BlocksAssumption

\* f has the value v0 at genesis, and at any other block what step makes of the block
\* and of the value at its parent.
Descends(f, V, v0, step) ==
    /\ f \in [Blocks -> V]
    /\ \A b \in Blocks : f[b] = IF b = genesis THEN v0 ELSE step[<<b, f[Prev[b]]>>]

\* There is such a function.
LEMMA TreeRecursion ==
    ASSUME NEW V, NEW v0 \in V, NEW step \in [Blocks \X V -> V]
    PROVE  \E f : Descends(f, V, v0, step)
  <1>. DEFINE Root == {genesis}
              base == [b \in Root |-> v0]
  <1>1. base[genesis] = v0 /\ \A b \in Blocks : b \in Root <=> b = genesis
    OBVIOUS
  <1>2. IsRecursion(Blocks, V, Height, Root, Prev, base, step)
    BY BlocksAssumption DEF IsRecursion
  <1>. HIDE DEF Root, base
  <1>3. PICK f \in [Blocks -> V] :
           \A b \in Blocks : Follows(f, b, Root, Prev, base, step)
    BY <1>2, RecursionExists
  <1>4. \A b \in Blocks : f[b] = IF b = genesis THEN v0 ELSE step[<<b, f[Prev[b]]>>]
    BY <1>1, <1>3 DEF Follows
  <1>. QED
    BY <1>4 DEF Descends
-----------------------------------------------------------------------------
(* Chain                                                                   *)

\* The equation that defines Chain.
IsChain(chain) ==
    chain = [b \in Blocks |-> IF b = genesis THEN {b} ELSE chain[Prev[b]] \cup {b}]

\* Chain satisfies its equation, and its values are sets of blocks.
LEMMA ChainUnfolds ==
    /\ Chain \in [Blocks -> SUBSET Blocks]
    /\ Chain[genesis] = {genesis}
    /\ \A b \in Blocks \ {genesis} : Chain[b] = Chain[Prev[b]] \cup {b}
  <1>. DEFINE V == SUBSET Blocks
              v0 == {genesis}
              step == [p \in Blocks \X V |-> p[2] \cup {p[1]}]
  <1>1. v0 \in V /\ step \in [Blocks \X V -> V]
    BY BlocksAssumption
  <1>2. \A b \in Blocks, v \in V : step[<<b, v>>] = v \cup {b}
    OBVIOUS
  <1>. HIDE DEF V, v0, step
  <1>3. PICK f : Descends(f, V, v0, step)
    BY <1>1, TreeRecursion
  <1>4. \A b \in Blocks : f[b] = IF b = genesis THEN {b} ELSE f[Prev[b]] \cup {b}
    BY <1>2, <1>3, BlocksAssumption DEF v0, Descends
  <1>5. IsChain(f)
    BY <1>3, <1>4 DEF IsChain, Descends
  <1>6. PICK g : IsChain(g) /\ Chain = [b \in Blocks |-> g[b]]
    <2>1. Chain = [b \in Blocks |-> (CHOOSE g : IsChain(g))[b]]
      BY DEF Chain, IsChain
    <2>. QED
      BY <1>5, <2>1, Zenon
  <1>7. \A b \in Blocks : Chain[b] = IF b = genesis THEN {b} ELSE Chain[Prev[b]] \cup {b}
    <2>1. \A b \in Blocks : Chain[b] = g[b]
      BY <1>6
    <2>2. \A b \in Blocks : g[b] = IF b = genesis THEN {b} ELSE g[Prev[b]] \cup {b}
      BY <1>6 DEF IsChain
    <2>. QED
      BY <2>1, <2>2, BlocksAssumption
  <1>8. \A b \in Blocks : Chain[b] \in SUBSET Blocks
    <2>. DEFINE S == {b \in Blocks : Chain[b] \in SUBSET Blocks}
    <2>1. genesis \in S
      BY <1>7, BlocksAssumption
    <2>2. ASSUME NEW b \in Blocks \ {genesis}, Prev[b] \in S PROVE b \in S
      <3>1. Chain[b] = Chain[Prev[b]] \cup {b} /\ Chain[Prev[b]] \subseteq Blocks
        BY <1>7, <2>2
      <3>. QED
        BY <3>1
    <2>. HIDE DEF S
    <2>3. \A b \in Blocks : b \in S
      BY <2>1, <2>2, TreeInduction
    <2>. QED
      BY <2>3 DEF S
  <1>9. Chain \in [Blocks -> SUBSET Blocks]
    <2>1. Chain = [b \in Blocks |-> Chain[b]]
      BY <1>6
    <2>. QED
      BY <1>8, <2>1
  <1>. QED
    BY <1>7, <1>9, BlocksAssumption

\* A chain ends with its block and begins with genesis, and all its other blocks are
\* below the block and in the chain of its parent.
LEMMA ChainMembers ==
    ASSUME NEW b \in Blocks
    PROVE  /\ b \in Chain[b] /\ genesis \in Chain[b] /\ Chain[b] \subseteq Blocks
           /\ \A x \in Chain[b] : /\ Height[x] <= Height[b]
                                  /\ x # b => /\ b # genesis /\ x \in Chain[Prev[b]]
                                              /\ Height[x] < Height[b]
  <1>. DEFINE S == {c \in Blocks : /\ c \in Chain[c] /\ genesis \in Chain[c]
                                   /\ \A x \in Chain[c] : Height[x] <= Height[c]}
  <1>1. genesis \in S
    BY ChainUnfolds, BlocksAssumption
  <1>2. ASSUME NEW c \in Blocks \ {genesis}, Prev[c] \in S PROVE c \in S
    <2>1. Chain[c] = Chain[Prev[c]] \cup {c} /\ Chain[Prev[c]] \subseteq Blocks
      BY ChainUnfolds, BlocksAssumption
    <2>2. ASSUME NEW x \in Chain[c] PROVE Height[x] <= Height[c]
      <3>1. x = c \/ x \in Chain[Prev[c]]
        BY <2>1
      <3>2. x \in Chain[Prev[c]] => Height[x] <= Height[Prev[c]] /\ x \in Blocks
        BY <1>2, <2>1
      <3>. QED
        BY <3>1, <3>2, BlocksAssumption
    <2>. QED
      BY <1>2, <2>1, <2>2
  <1>3. \A c \in Blocks : c \in S
    <2>. HIDE DEF S
    <2>. QED
      BY <1>1, <1>2, TreeInduction
  <1>4. Chain[b] \subseteq Blocks
    BY ChainUnfolds
  <1>5. ASSUME NEW x \in Chain[b], x # b
        PROVE  b # genesis /\ x \in Chain[Prev[b]] /\ Height[x] < Height[b]
    <2>1. b # genesis /\ x \in Chain[Prev[b]]
      BY <1>5, ChainUnfolds
    <2>2. Prev[b] \in S /\ x \in Blocks /\ Prev[b] \in Blocks
      BY <1>3, <1>4, <2>1, BlocksAssumption
    <2>3. Height[x] <= Height[Prev[b]]
      BY <2>1, <2>2
    <2>. QED
      BY <2>1, <2>2, <2>3, BlocksAssumption
  <1>. QED
    BY <1>3, <1>4, <1>5

\* The ancestors of an ancestor are ancestors.
LEMMA ChainTransitive ==
    ASSUME NEW z \in Blocks, NEW y \in Chain[z]
    PROVE  Chain[y] \subseteq Chain[z]
  <1>. DEFINE S == {c \in Blocks : y \in Chain[c] => Chain[y] \subseteq Chain[c]}
  <1>1. genesis \in S
    BY ChainUnfolds, BlocksAssumption
  <1>2. \A c \in Blocks \ {genesis} : Prev[c] \in S => c \in S
    BY ChainUnfolds, BlocksAssumption
  <1>. HIDE DEF S
  <1>3. z \in S
    BY <1>1, <1>2, TreeInduction
  <1>. QED
    BY <1>3 DEF S

\* The ancestors of a block are in one line: the lower of two is an ancestor of the other.
LEMMA ChainLinear ==
    ASSUME NEW z \in Blocks, NEW x \in Chain[z], NEW y \in Chain[z], Height[x] <= Height[y]
    PROVE  x \in Chain[y]
  <1>. DEFINE S == {c \in Blocks : x \in Chain[c] /\ y \in Chain[c] => x \in Chain[y]}
  <1>0. x \in Blocks /\ y \in Blocks
    BY ChainMembers
  <1>1. genesis \in S
    BY ChainUnfolds, BlocksAssumption
  <1>2. ASSUME NEW c \in Blocks \ {genesis}, Prev[c] \in S PROVE c \in S
    <2>. SUFFICES ASSUME x \in Chain[c], y \in Chain[c], y # c PROVE x \in Chain[y]
      BY <1>0
    <2>1. y \in Chain[Prev[c]] /\ Height[y] < Height[c]
      BY ChainMembers
    <2>2. x # c
      BY <1>0, <2>1, BlocksAssumption
    <2>3. x \in Chain[Prev[c]]
      BY <2>2, ChainMembers
    <2>. QED
      BY <1>2, <2>1, <2>3
  <1>. HIDE DEF S
  <1>3. z \in S
    BY <1>1, <1>2, TreeInduction
  <1>. QED
    BY <1>3 DEF S
-----------------------------------------------------------------------------
(* Final blocks                                                            *)

\* Whether a block has the grandparent final, as Block::produce decides.
MakesFinal(b) == Height[b] = Height[Prev[b]] + 1 /\ last_ds_final_block[Prev[b]] = Prev[Prev[b]]

\* The equation that defines last_final_block.
IsLastFinal(last) ==
    last = [b \in Blocks |->
              IF b = genesis \/ Prev[b] = genesis THEN genesis
              ELSE IF Height[b] = Height[Prev[b]] + 1
                        /\ last_ds_final_block[Prev[b]] = Prev[Prev[b]]
                   THEN Prev[Prev[b]]
                   ELSE last[Prev[b]]]

\* last_final_block satisfies its equation.
LEMMA LastFinalUnfolds ==
    /\ last_final_block[genesis] = genesis
    /\ \A b \in Blocks \ {genesis} :
         last_final_block[b] = IF Prev[b] = genesis THEN genesis
                               ELSE IF MakesFinal(b) THEN Prev[Prev[b]]
                               ELSE last_final_block[Prev[b]]
  <1>. DEFINE step == [p \in Blocks \X Blocks |->
                         IF p[1] = genesis \/ Prev[p[1]] = genesis THEN genesis
                         ELSE IF MakesFinal(p[1]) THEN Prev[Prev[p[1]]] ELSE p[2]]
  <1>1. step \in [Blocks \X Blocks -> Blocks]
    BY BlocksAssumption
  <1>2. \A b \in Blocks \ {genesis}, v \in Blocks :
           step[<<b, v>>] = IF Prev[b] = genesis THEN genesis
                            ELSE IF MakesFinal(b) THEN Prev[Prev[b]] ELSE v
    OBVIOUS
  <1>. HIDE DEF step
  <1>3. PICK f : Descends(f, Blocks, genesis, step)
    BY <1>1, TreeRecursion, BlocksAssumption
  <1>4. /\ f \in [Blocks -> Blocks]
        /\ \A b \in Blocks :
             f[b] = IF b = genesis \/ Prev[b] = genesis THEN genesis
                    ELSE IF MakesFinal(b) THEN Prev[Prev[b]] ELSE f[Prev[b]]
    <2>1. f \in [Blocks -> Blocks] /\ f[genesis] = genesis
      BY <1>3, BlocksAssumption DEF Descends
    <2>2. ASSUME NEW b \in Blocks \ {genesis}
          PROVE  f[b] = IF Prev[b] = genesis THEN genesis
                        ELSE IF MakesFinal(b) THEN Prev[Prev[b]] ELSE f[Prev[b]]
      <3>1. f[b] = step[<<b, f[Prev[b]]>>] /\ f[Prev[b]] \in Blocks
        BY <1>3, <2>1, BlocksAssumption DEF Descends
      <3>. QED
        BY <1>2, <3>1
    <2>. QED
      BY <2>1, <2>2
  <1>5. IsLastFinal(f)
    BY <1>4, Zenon DEF IsLastFinal, MakesFinal
  <1>6. PICK g : IsLastFinal(g) /\ last_final_block = [b \in Blocks |-> g[b]]
    <2>1. last_final_block = [b \in Blocks |-> (CHOOSE g : IsLastFinal(g))[b]]
      BY DEF last_final_block, IsLastFinal
    <2>. QED
      BY <1>5, <2>1, Zenon
  <1>7. \A b \in Blocks : last_final_block[b] = g[b]
    BY <1>6
  <1>8. \A b \in Blocks :
           g[b] = IF b = genesis \/ Prev[b] = genesis THEN genesis
                  ELSE IF MakesFinal(b) THEN Prev[Prev[b]] ELSE g[Prev[b]]
    BY <1>6, Zenon DEF IsLastFinal, MakesFinal
  <1>. QED
    BY <1>7, <1>8, BlocksAssumption

\* The last final block of a block is an ancestor below it.
LEMMA LastFinalIsAncestor ==
    ASSUME NEW b \in Blocks
    PROVE  /\ last_final_block[b] \in Chain[b] /\ last_final_block[b] \in Blocks
           /\ b # genesis => Height[last_final_block[b]] < Height[b]
  <1>. DEFINE S == {c \in Blocks : last_final_block[c] \in Chain[c]
                                      /\ (c # genesis => last_final_block[c] # c)}
  <1>1. genesis \in S
    BY LastFinalUnfolds, ChainMembers, BlocksAssumption
  <1>2. ASSUME NEW c \in Blocks \ {genesis}, Prev[c] \in S PROVE c \in S
    <2>1. Prev[c] \in Blocks /\ Prev[c] \in Chain[Prev[c]] /\ genesis \in Chain[Prev[c]]
      BY ChainMembers, BlocksAssumption
    <2>2. Prev[c] # genesis => Prev[Prev[c]] \in Chain[Prev[c]]
      BY <2>1, ChainMembers, ChainUnfolds, BlocksAssumption
    <2>3. last_final_block[c] \in Chain[Prev[c]]
      BY <1>2, <2>1, <2>2, LastFinalUnfolds
    <2>4. c \notin Chain[Prev[c]] /\ Chain[c] = Chain[Prev[c]] \cup {c}
      BY <2>1, ChainMembers, ChainUnfolds, BlocksAssumption
    <2>. QED
      BY <2>3, <2>4
  <1>. HIDE DEF S
  <1>3. b \in S
    BY <1>1, <1>2, TreeInduction
  <1>. QED
    BY <1>3, ChainMembers DEF S

\* A block above a final one is built on it: the step from parent to child is what
\* consensus guarantees.
LEMMA FinalIsCommon ==
    ASSUME NEW b \in Blocks, NEW c \in Blocks, Height[c] > Height[last_final_block[b]]
    PROVE  last_final_block[b] \in Chain[c]
  <1>. DEFINE f == last_final_block[b]
              S == {x \in Blocks : Height[x] > Height[f] => f \in Chain[x]}
  <1>0. f \in Blocks
    BY LastFinalIsAncestor
  <1>1. genesis \in S
    <2>1. genesis \in Chain[f]
      BY <1>0, ChainMembers
    <2>2. Height[genesis] <= Height[f]
      BY <1>0, <2>1, ChainMembers
    <2>. QED
      BY <1>0, <2>2, BlocksAssumption
  <1>2. ASSUME NEW x \in Blocks \ {genesis}, Prev[x] \in S PROVE x \in S
    <2>. SUFFICES ASSUME Height[x] > Height[f] PROVE f \in Chain[x]
      OBVIOUS
    <2>1. Prev[x] = f \/ Height[Prev[x]] > Height[f]
      BY FinalityAssumption
    <2>2. f \in Chain[Prev[x]]
      BY <1>2, <2>1, ChainMembers
    <2>. QED
      BY <2>2, ChainUnfolds
  <1>. HIDE DEF S
  <1>3. c \in S
    BY <1>1, <1>2, TreeInduction
  <1>. QED
    BY <1>3 DEF S
-----------------------------------------------------------------------------
(* Epochs                                                                  *)

\* The equation that defines epoch_first_block.
IsEpochFirst(first) ==
    first = [b \in Blocks |->
               IF b # genesis /\ ~NextBlockInNextEpoch(Prev[b], first[Prev[b]])
               THEN first[Prev[b]] ELSE b]

\* The first block of the epoch of a block is the block or an ancestor of it.
LEMMA EpochFirstIsAncestor ==
    ASSUME NEW c \in Blocks
    PROVE  epoch_first_block[c] \in Chain[c] /\ epoch_first_block[c] \in Blocks
  <1>. DEFINE step == [p \in Blocks \X Blocks |->
                         IF ~NextBlockInNextEpoch(Prev[p[1]], p[2]) THEN p[2] ELSE p[1]]
  <1>1. step \in [Blocks \X Blocks -> Blocks]
    OBVIOUS
  <1>2. \A b \in Blocks, v \in Blocks :
           step[<<b, v>>] = IF ~NextBlockInNextEpoch(Prev[b], v) THEN v ELSE b
    OBVIOUS
  <1>. HIDE DEF step
  <1>3. PICK f : Descends(f, Blocks, genesis, step)
    BY <1>1, TreeRecursion, BlocksAssumption
  <1>4. /\ f \in [Blocks -> Blocks]
        /\ \A b \in Blocks :
             f[b] = IF b # genesis /\ ~NextBlockInNextEpoch(Prev[b], f[Prev[b]])
                    THEN f[Prev[b]] ELSE b
    BY <1>2, <1>3, BlocksAssumption DEF Descends
  <1>5. IsEpochFirst(f)
    BY <1>4, Zenon DEF IsEpochFirst
  <1>6. PICK g : IsEpochFirst(g) /\ epoch_first_block = [b \in Blocks |-> g[b]]
    <2>1. epoch_first_block = [b \in Blocks |-> (CHOOSE g : IsEpochFirst(g))[b]]
      BY DEF epoch_first_block, IsEpochFirst
    <2>. QED
      BY <1>5, <2>1, Zenon
  <1>7. \A b \in Blocks : epoch_first_block[b] = g[b]
    BY <1>6
  <1>8. \A b \in Blocks : g[b] = b \/ (b # genesis /\ g[b] = g[Prev[b]])
    BY <1>6, Zenon DEF IsEpochFirst
  <1>. DEFINE S == {b \in Blocks : g[b] \in Chain[b]}
  <1>9. genesis \in S
    BY <1>8, ChainMembers, BlocksAssumption
  <1>10. ASSUME NEW b \in Blocks \ {genesis}, Prev[b] \in S PROVE b \in S
    BY <1>8, <1>10, ChainMembers, ChainUnfolds
  <1>. HIDE DEF S
  <1>11. c \in S
    BY <1>9, <1>10, TreeInduction
  <1>. QED
    BY <1>7, <1>11, ChainMembers DEF S

-----------------------------------------------------------------------------
(* The recursive definitions of GarbageCollection                          *)

\* The equation that defines ChunkIn.
IsChunkIn(last) ==
    last = [b \in Blocks |->
              [s \in Shards |-> IF b = genesis \/ s \in NewChunks[b] THEN b ELSE last[Prev[b]][s]]]

\* The chunks of a block are those of its parent or were included in it.
LEMMA ChunkInUnfolds ==
    /\ ChunkIn \in [Blocks -> [Shards -> Blocks]]
    /\ \A b \in Blocks \ {genesis}, s \in Shards :
         ChunkIn[b][s] = IF s \in NewChunks[b] THEN b ELSE ChunkIn[Prev[b]][s]
    /\ \A s \in Shards : ChunkIn[genesis][s] = genesis
  <1>. DEFINE V == [Shards -> Blocks]
              v0 == [s \in Shards |-> genesis]
              step == [p \in Blocks \X V |->
                         [s \in Shards |-> IF s \in NewChunks[p[1]] THEN p[1] ELSE p[2][s]]]
  <1>1. v0 \in V /\ step \in [Blocks \X V -> V]
    BY BlocksAssumption
  <1>2. \A b \in Blocks, v \in V :
           step[<<b, v>>] = [s \in Shards |-> IF s \in NewChunks[b] THEN b ELSE v[s]]
    OBVIOUS
  <1>. HIDE DEF V, v0, step
  <1>3. PICK f : Descends(f, V, v0, step)
    BY <1>1, TreeRecursion
  <1>4. /\ f \in [Blocks -> [Shards -> Blocks]]
        /\ \A b \in Blocks :
             f[b] = [s \in Shards |-> IF b = genesis \/ s \in NewChunks[b] THEN b ELSE f[Prev[b]][s]]
    <2>1. f \in [Blocks -> V]
      BY <1>3 DEF Descends
    <2>2. f[genesis] = [s \in Shards |-> genesis]
      BY <1>3, BlocksAssumption DEF Descends, v0
    <2>3. ASSUME NEW b \in Blocks \ {genesis}
          PROVE  f[b] = [s \in Shards |-> IF s \in NewChunks[b] THEN b ELSE f[Prev[b]][s]]
      <3>1. Prev[b] \in Blocks /\ f[Prev[b]] \in V /\ f[b] = step[<<b, f[Prev[b]]>>]
        BY <1>3, <2>1, BlocksAssumption DEF Descends
      <3>. QED
        BY <1>2, <3>1
    <2>4. ASSUME NEW b \in Blocks
          PROVE  f[b] = [s \in Shards |->
                           IF b = genesis \/ s \in NewChunks[b] THEN b ELSE f[Prev[b]][s]]
      BY <2>2, <2>3
    <2>. QED
      BY <2>1, <2>4 DEF V
  <1>5. IsChunkIn(f)
    BY <1>4, Zenon DEF IsChunkIn
  <1>6. PICK g : IsChunkIn(g) /\ ChunkIn = [b \in Blocks |-> g[b]]
    <2>1. ChunkIn = [b \in Blocks |-> (CHOOSE g : IsChunkIn(g))[b]]
      BY DEF ChunkIn, IsChunkIn
    <2>. QED
      BY <1>5, <2>1, Zenon
  <1>7. \A b \in Blocks : ChunkIn[b] = g[b]
    BY <1>6
  <1>8. \A b \in Blocks :
           g[b] = [s \in Shards |-> IF b = genesis \/ s \in NewChunks[b] THEN b ELSE g[Prev[b]][s]]
    BY <1>6, Zenon DEF IsChunkIn
  <1>9. \A b \in Blocks, s \in Shards :
           ChunkIn[b][s] = IF b = genesis \/ s \in NewChunks[b] THEN b ELSE ChunkIn[Prev[b]][s]
    <2>. TAKE b \in Blocks, s \in Shards
    <2>1. g[b][s] = IF b = genesis \/ s \in NewChunks[b] THEN b ELSE g[Prev[b]][s]
      BY <1>8, Zenon
    <2>2. b # genesis => Prev[b] \in Blocks
      BY BlocksAssumption
    <2>. QED
      BY <1>7, <2>1, <2>2, Zenon
  <1>. DEFINE S == {b \in Blocks : ChunkIn[b] \in [Shards -> Blocks]}
  <1>. DEFINE value(b) == [s \in Shards |-> IF b = genesis \/ s \in NewChunks[b] THEN b
                                              ELSE ChunkIn[Prev[b]][s]]
  <1>0. ASSUME NEW b \in Blocks PROVE ChunkIn[b] = value(b)
    <2>1. ChunkIn[b] = [s \in Shards |-> ChunkIn[b][s]]
      <3>1. ChunkIn[b] = g[b]
        BY <1>7
      <3>2. g[b] = [s \in Shards |-> g[b][s]]
        BY <1>8
      <3>. QED
        BY <3>1, <3>2, Zenon
    <2>. QED
      BY <1>9, <2>1, Zenon
  <1>10. genesis \in S
    <2>1. value(genesis) \in [Shards -> Blocks]
      BY BlocksAssumption
    <2>. QED
      BY <1>0, <2>1, BlocksAssumption, Zenon
  <1>11. ASSUME NEW b \in Blocks \ {genesis}, Prev[b] \in S PROVE b \in S
    <2>1. \A s \in Shards : ChunkIn[Prev[b]][s] \in Blocks
      BY <1>11
    <2>2. value(b) \in [Shards -> Blocks]
      BY <2>1
    <2>. QED
      BY <1>0, <2>2, Zenon
  <1>. HIDE DEF S
  <1>12. \A b \in Blocks : b \in S
    BY <1>10, <1>11, TreeInduction
  <1>13. ChunkIn = [b \in Blocks |-> ChunkIn[b]]
    BY <1>6
  <1>. QED
    BY <1>9, <1>12, <1>13, BlocksAssumption DEF S

\* The equation that defines FirstBlockBack.
IsFirstBlockBack(f) ==
    f = [n \in Nat |->
           [b \in Blocks |->
              LET first == epoch_first_block[b]
              IN  IF n = 0 \/ first = genesis THEN first ELSE f[n - 1][Prev[first]]]]

\* Going back over epochs ends at a block.
LEMMA FirstBlockBackIsBlock ==
    ASSUME NEW n \in Nat, NEW c \in Blocks
    PROVE  FirstBlockBack[n][c] \in Blocks
  <1>. DEFINE V == [Blocks -> Blocks]
              Root == {0}
              rank == [i \in Nat |-> i]
              parent == [i \in Nat \ Root |-> i - 1]
              base == [i \in Root |-> [b \in Blocks |-> epoch_first_block[b]]]
              step == [p \in Nat \X V |->
                         [b \in Blocks |->
                            IF epoch_first_block[b] = genesis THEN genesis
                            ELSE p[2][Prev[epoch_first_block[b]]]]]
  <1>0. \A b \in Blocks : epoch_first_block[b] \in Blocks
    BY EpochFirstIsAncestor
  <1>1. IsRecursion(Nat, V, rank, Root, parent, base, step)
    <2>1. rank \in [Nat -> Nat] /\ Root \in SUBSET Nat /\ parent \in [Nat \ Root -> Nat]
      OBVIOUS
    <2>2. base \in [Root -> V] /\ V # {}
      <3>1. [b \in Blocks |-> epoch_first_block[b]] \in V
        BY <1>0
      <3>. HIDE DEF V
      <3>. QED
        BY <3>1
    <2>3. step \in [Nat \X V -> V]
      BY <1>0, BlocksAssumption
    <2>4. \A i \in Nat \ Root : rank[parent[i]] < rank[i]
      OBVIOUS
    <2>. HIDE DEF V, Root, rank, parent, base, step
    <2>. QED
      BY <2>1, <2>2, <2>3, <2>4 DEF IsRecursion
  <1>2. /\ \A i \in Nat \ Root : parent[i] = i - 1
        /\ base[0] = [b \in Blocks |-> epoch_first_block[b]]
        /\ \A i \in Nat, v \in V : step[<<i, v>>] =
             [b \in Blocks |-> IF epoch_first_block[b] = genesis THEN genesis
                               ELSE v[Prev[epoch_first_block[b]]]]
    OBVIOUS
  <1>3. \A i \in Nat : i \in Root <=> i = 0
    OBVIOUS
  <1>. HIDE DEF V, Root, rank, parent, base, step
  <1>4. PICK f \in [Nat -> V] : \A i \in Nat : Follows(f, i, Root, parent, base, step)
    BY <1>1, RecursionExists
  <1>5. \A i \in Nat :
           f[i] = [b \in Blocks |->
                     IF i = 0 \/ epoch_first_block[b] = genesis THEN epoch_first_block[b]
                     ELSE f[i - 1][Prev[epoch_first_block[b]]]]
    <2>1. f[0] = [b \in Blocks |-> epoch_first_block[b]]
      BY <1>2, <1>3, <1>4 DEF Follows
    <2>2. ASSUME NEW i \in Nat, i # 0
          PROVE  f[i] = [b \in Blocks |-> IF epoch_first_block[b] = genesis THEN genesis
                                          ELSE f[i - 1][Prev[epoch_first_block[b]]]]
      <3>1. i \in Nat \ Root /\ parent[i] = i - 1 /\ i - 1 \in Nat /\ f[i - 1] \in V
        BY <1>2, <1>3, <1>4, <2>2
      <3>2. f[i] = step[<<i, f[i - 1]>>]
        BY <1>4, <3>1 DEF Follows
      <3>. QED
        BY <1>2, <3>1, <3>2, Zenon
    <2>. QED
      BY <2>1, <2>2
  <1>6. IsFirstBlockBack(f)
    BY <1>4, <1>5 DEF IsFirstBlockBack
  <1>7. FirstBlockBack = CHOOSE g : IsFirstBlockBack(g)
    BY DEF FirstBlockBack, IsFirstBlockBack
  <1>8. IsFirstBlockBack(FirstBlockBack)
    BY <1>6, <1>7, Zenon
  <1>9. \A i \in Nat, b \in Blocks :
           FirstBlockBack[i][b] =
             IF i = 0 \/ epoch_first_block[b] = genesis THEN epoch_first_block[b]
             ELSE FirstBlockBack[i - 1][Prev[epoch_first_block[b]]]
    <2>. DEFINE row(i) == [b \in Blocks |->
                             IF i = 0 \/ epoch_first_block[b] = genesis THEN epoch_first_block[b]
                             ELSE FirstBlockBack[i - 1][Prev[epoch_first_block[b]]]]
    <2>1. FirstBlockBack = [i \in Nat |-> row(i)]
      BY <1>8 DEF IsFirstBlockBack
    <2>. HIDE DEF row
    <2>2. \A i \in Nat : FirstBlockBack[i] = row(i)
      BY <2>1, Zenon
    <2>. TAKE i \in Nat, b \in Blocks
    <2>3. row(i)[b] = IF i = 0 \/ epoch_first_block[b] = genesis THEN epoch_first_block[b]
                      ELSE FirstBlockBack[i - 1][Prev[epoch_first_block[b]]]
      BY Zenon DEF row
    <2>. QED
      BY <2>2, <2>3, Zenon
  <1>. DEFINE S == {i \in Nat : \A b \in Blocks : FirstBlockBack[i][b] \in Blocks}
  <1>10. 0 \in S
    BY <1>0, <1>9
  <1>11. ASSUME NEW i \in Nat, i \in S PROVE i + 1 \in S
    <2>1. ASSUME NEW b \in Blocks PROVE FirstBlockBack[i + 1][b] \in Blocks
      <3>1. epoch_first_block[b] # genesis => Prev[epoch_first_block[b]] \in Blocks
        BY <1>0, BlocksAssumption
      <3>2. i + 1 \in Nat /\ i + 1 # 0 /\ (i + 1) - 1 = i
        OBVIOUS
      <3>. QED
        BY <1>0, <1>9, <1>11, <3>1, <3>2
    <2>. QED
      BY <2>1
  <1>. HIDE DEF S
  <1>12. n \in S
    BY <1>10, <1>11, NaturalInduction
  <1>. QED
    BY <1>12 DEF S

-----------------------------------------------------------------------------
(* The tree of the stored blocks                                           *)

\* Induction over the blocks of the store, from the root up.
LEMMA StoredInduction ==
    ASSUME NEW t, Tree(t), NEW S, t \in S,
           \A b \in blocks \ {t} : Prev[b] \in S => b \in S
    PROVE  \A b \in blocks : b \in S
  <1>. DEFINE T == {b \in Blocks : b \in blocks => b \in S}
  <1>1. genesis \in T
    BY BlocksAssumption DEF Tree
  <1>2. ASSUME NEW b \in Blocks \ {genesis}, Prev[b] \in T PROVE b \in T
    BY <1>2 DEF Tree
  <1>. HIDE DEF T
  <1>3. \A b \in Blocks : b \in T
    BY <1>1, <1>2, TreeInduction
  <1>. QED
    BY <1>3 DEF T, Tree

\* The ancestors of a stored block are in the store down to the root.
LEMMA StoredAncestors ==
    ASSUME NEW t, Tree(t), NEW b \in blocks
    PROVE  /\ t \in Chain[b]
           /\ \A x \in Chain[b] : x \in blocks \/ (x \in Chain[t] /\ Height[x] < Height[t])
  <1>. DEFINE S == {c \in Blocks : /\ t \in Chain[c]
                                   /\ \A x \in Chain[c] : x \in blocks
                                        \/ (x \in Chain[t] /\ Height[x] < Height[t])}
  <1>0. t \in Blocks /\ t \in blocks
    BY DEF Tree
  <1>1. t \in S
    BY <1>0, ChainMembers
  <1>2. ASSUME NEW c \in blocks \ {t}, Prev[c] \in S PROVE c \in S
    <2>1. c \in Blocks \ {genesis}
      BY DEF Tree
    <2>2. Chain[c] = Chain[Prev[c]] \cup {c}
      BY <2>1, ChainUnfolds
    <2>. QED
      BY <1>2, <2>1, <2>2
  <1>. HIDE DEF S
  <1>3. b \in S
    BY <1>1, <1>2, StoredInduction
  <1>. QED
    BY <1>3 DEF S

\* A stored ancestor of a stored block has a stored child on the way.
LEMMA StoredChild ==
    ASSUME NEW t, Tree(t), NEW b \in blocks, NEW x \in Chain[b], x \in blocks, x # b
    PROVE  \E c \in Children(x) : c \in Chain[b]
  <1>. DEFINE S == {y \in Blocks : x \in Chain[y] /\ x # y => \E c \in Children(x) : c \in Chain[y]}
  <1>0. t \in Blocks /\ t \in blocks /\ blocks \subseteq Blocks
    BY DEF Tree
  <1>1. t \in S
    <2>1. x # t => Height[t] < Height[x]
      BY <1>0, BlocksAssumption DEF Tree
    <2>. QED
      BY <1>0, <2>1, ChainMembers, BlocksAssumption
  <1>2. ASSUME NEW y \in blocks \ {t}, Prev[y] \in S PROVE y \in S
    <2>. SUFFICES ASSUME x \in Chain[y], x # y PROVE \E c \in Children(x) : c \in Chain[y]
      BY <1>0
    <2>1. y \in Blocks \ {genesis} /\ x \in Chain[Prev[y]] /\ y \in Chain[y]
      BY <1>0, ChainMembers
    <2>2. Chain[y] = Chain[Prev[y]] \cup {y}
      BY <2>1, ChainUnfolds
    <2>3. CASE x = Prev[y]
      <3>1. y \in Children(x)
        BY <2>1, <2>3 DEF Children
      <3>. QED
        BY <2>1, <3>1
    <2>4. CASE x # Prev[y]
      BY <1>2, <2>1, <2>2, <2>4
    <2>. QED
      BY <2>3, <2>4
  <1>. HIDE DEF S
  <1>3. b \in S
    BY <1>1, <1>2, StoredInduction
  <1>. QED
    BY <1>3 DEF S

\* The children of a block are finitely many, and it has one if the count says so.
LEMMA CountOfChildren ==
    ASSUME NEW t, Tree(t), Counts(t), NEW b \in Blocks
    PROVE  /\ refcount[b] \in Nat
           /\ b \in blocks => /\ refcount[b] = Cardinality(Children(b))
                              /\ refcount[b] = 0 <=> Children(b) = {}
           /\ IsFiniteSet(Children(b)) /\ Cardinality(Children(b)) \in Nat
  <1>1. Children(b) \subseteq blocks /\ IsFiniteSet(blocks)
    BY DEF Children, Tree
  <1>2. IsFiniteSet(Children(b))
    BY <1>1, FS_Subset
  <1>3. Cardinality(Children(b)) \in Nat /\ (Cardinality(Children(b)) = 0 <=> Children(b) = {})
    BY <1>2, FS_CardinalityType, FS_EmptySet
  <1>. QED
    BY <1>2, <1>3 DEF Counts

LEMMA CountOfInserters ==
    ASSUME NEW t, Tree(t), NEW n
    PROVE  /\ IsFiniteSet(Inserters(n, t)) /\ Cardinality(Inserters(n, t)) \in Nat
           /\ Cardinality(Inserters(n, t)) = 0 <=> Inserters(n, t) = {}
  <1>1. Inserters(n, t) \subseteq blocks /\ IsFiniteSet(blocks)
    BY DEF Inserters, Tree
  <1>2. IsFiniteSet(Inserters(n, t))
    BY <1>1, FS_Subset
  <1>. QED
    BY <1>2, FS_CardinalityType, FS_EmptySet

\* A node is in the store exactly if it is in the state of a stored block.
LEMMA NodesOfStates ==
    ASSUME NEW t, Tree(t), Counts(t)
    PROVE  /\ state \in [Nodes -> Nat]
           /\ StoredNodes = UNION {StateOf[b] : b \in blocks}
  <1>0. /\ t \in Blocks /\ t \in blocks /\ blocks \subseteq Blocks
        /\ \A b \in Blocks : StateOf[b] \subseteq Nodes
    BY GCAssumption DEF Tree
  <1>1. \A n \in Nodes : /\ Cardinality(Inserters(n, t)) \in Nat
                         /\ Cardinality(Inserters(n, t)) = 0 <=> Inserters(n, t) = {}
    BY CountOfInserters
  <1>2. ASSUME NEW n \in Nodes
        PROVE  /\ state[n] \in Nat
               /\ state[n] > 0 <=> n \in StateOf[t] \/ Inserters(n, t) # {}
    <2>1. state[n] = (IF n \in StateOf[t] THEN 1 ELSE 0) + Cardinality(Inserters(n, t))
      BY DEF Counts
    <2>. QED
      BY <1>1, <2>1
  <1>3. state \in [Nodes -> Nat]
    <2>1. state = [n \in Nodes |-> state[n]]
      BY DEF Counts
    <2>. QED
      BY <1>2, <2>1
  <1>4. ASSUME NEW n \in StoredNodes PROVE \E b \in blocks : n \in StateOf[b]
    <2>1. n \in StateOf[t] \/ Inserters(n, t) # {}
      BY <1>2 DEF StoredNodes
    <2>. QED
      BY <1>0, <2>1 DEF Inserters, Insertions
  <1>5. ASSUME NEW n \in Nodes PROVE \A b \in blocks : n \in StateOf[b] => n \in StoredNodes
    <2>. DEFINE S == {b \in Blocks : n \in StateOf[b] => n \in StoredNodes}
    <2>1. t \in S
      BY <1>0, <1>2 DEF StoredNodes
    <2>2. ASSUME NEW b \in blocks \ {t}, Prev[b] \in S PROVE b \in S
      <3>. SUFFICES ASSUME n \in StateOf[b], n \notin StateOf[Prev[b]] PROVE n \in StoredNodes
        BY <1>0, <2>2
      <3>1. b \in Inserters(n, t)
        BY DEF Inserters, Insertions
      <3>. QED
        BY <1>2, <3>1 DEF StoredNodes
    <2>. HIDE DEF S
    <2>3. \A b \in blocks : b \in S
      BY <2>1, <2>2, StoredInduction
    <2>. QED
      BY <2>3 DEF S
  <1>6. ASSUME NEW n, NEW b \in blocks, n \in StateOf[b] PROVE n \in StoredNodes
    BY <1>0, <1>5, <1>6
  <1>. QED
    BY <1>3, <1>4, <1>6

\* A new block on a stored one, above the tail, is a leaf of the tree.
LEMMA TreeGrows ==
    ASSUME NEW t, Tree(t), Counts(t), NEW b \in Blocks \ {genesis}, b \notin blocks,
           Prev[b] \in blocks, tail < Height[b],
           blocks' = blocks \cup {b}, tail' = tail,
           refcount' = [refcount EXCEPT ![Prev[b]] = @ + 1],
           trie_changes' = trie_changes \cup {b},
           state' = [n \in Nodes |-> IF n \in Insertions(b) THEN state[n] + 1 ELSE state[n]]
    PROVE  Tree(t)' /\ Counts(t)'
  <1>. DEFINE p == Prev[b]
  <1>0. /\ t \in Blocks /\ t \in blocks /\ blocks \subseteq Blocks /\ b # t /\ p \in Blocks /\ p # b
        /\ Height[t] < Height[b] /\ b \notin Children(p)
    BY BlocksAssumption DEF Tree, Children
  <1>1. Tree(t)'
    <2>1. IsFiniteSet(blocks')
      BY FS_AddElement DEF Tree
    <2>. QED
      BY <2>1 DEF Tree
  <1>2. trie_changes' = blocks' \ {t}
    BY <1>0 DEF Counts
  <1>3. ASSUME NEW x \in Blocks
        PROVE  refcount'[x] = IF x \in blocks' THEN Cardinality(Children(x)') ELSE 0
    <2>1. refcount[x] = IF x \in blocks THEN Cardinality(Children(x)) ELSE 0
      BY DEF Counts
    <2>2. CASE x = p
      <3>1. Children(x)' = Children(x) \cup {b}
        BY <1>0, <2>2 DEF Children
      <3>2. Cardinality(Children(x)') = Cardinality(Children(x)) + 1
        <4>1. IsFiniteSet(Children(x)) /\ (b \notin Children(x))
          BY <1>0, <2>2, CountOfChildren
        <4>. QED
          BY <3>1, <4>1, FS_AddElement
      <3>3. refcount'[x] = refcount[x] + 1
        BY <2>2 DEF Counts
      <3>. QED
        BY <2>1, <2>2, <3>2, <3>3
    <2>3. CASE x = b
      <3>1. Children(x)' = {}
        <4>1. ASSUME NEW c \in blocks \ {genesis}, Prev[c] = b PROVE FALSE
          BY <1>0, <4>1, BlocksAssumption DEF Tree
        <4>. QED
          BY <1>0, <2>3, <4>1 DEF Children
      <3>2. refcount'[x] = refcount[x]
        BY <1>0, <2>3 DEF Counts
      <3>. QED
        BY <2>1, <2>3, <3>1, <3>2, FS_EmptySet
    <2>4. CASE x # p /\ x # b
      <3>1. Children(x)' = Children(x)
        BY <1>0, <2>4 DEF Children
      <3>2. refcount'[x] = refcount[x]
        BY <1>0, <2>4 DEF Counts
      <3>. QED
        BY <2>1, <2>4, <3>1, <3>2
    <2>. QED
      BY <2>2, <2>3, <2>4
  <1>4. refcount' = [x \in Blocks |-> IF x \in blocks' THEN Cardinality(Children(x)') ELSE 0]
    <2>1. refcount' = [x \in Blocks |-> refcount'[x]]
      BY DEF Counts
    <2>. QED
      BY <1>3, <2>1, Zenon
  <1>5. ASSUME NEW n \in Nodes
        PROVE  state'[n] = (IF n \in StateOf[t] THEN 1 ELSE 0) + Cardinality(Inserters(n, t)')
    <2>1. state[n] = (IF n \in StateOf[t] THEN 1 ELSE 0) + Cardinality(Inserters(n, t))
      BY DEF Counts
    <2>2. /\ IsFiniteSet(Inserters(n, t)) /\ Cardinality(Inserters(n, t)) \in Nat
          /\ b \notin Inserters(n, t)
      BY CountOfInserters DEF Inserters
    <2>3. CASE n \in Insertions(b)
      <3>1. Inserters(n, t)' = Inserters(n, t) \cup {b}
        BY <1>0, <2>3 DEF Inserters, Insertions
      <3>2. Cardinality(Inserters(n, t)') = Cardinality(Inserters(n, t)) + 1
        BY <2>2, <3>1, FS_AddElement
      <3>. QED
        BY <2>1, <2>2, <2>3, <3>2
    <2>4. CASE n \notin Insertions(b)
      <3>1. Inserters(n, t)' = Inserters(n, t)
        BY <1>0, <2>4 DEF Inserters, Insertions
      <3>. QED
        BY <2>1, <2>4, <3>1
    <2>. QED
      BY <2>3, <2>4
  <1>. QED
    BY <1>1, <1>2, <1>4, <1>5 DEF Counts

\* clear_block_data with GCMode::Fork takes a leaf off the tree.
LEMMA TreeLosesLeaf ==
    ASSUME NEW t, Tree(t), Counts(t), NEW b \in blocks \ {t}, Children(b) = {},
           ClearForkBlock(b), tail' = tail
    PROVE  Tree(t)' /\ Counts(t)'
  <1>. DEFINE p == Prev[b]
  <1>0. /\ t \in Blocks /\ t \in blocks /\ blocks \subseteq Blocks /\ b \in Blocks \ {genesis}
        /\ p \in blocks /\ p # b /\ b \in Children(p) /\ b \in trie_changes
        /\ blocks' = blocks \ {b}
    BY BlocksAssumption DEF Tree, Children, Counts, ClearForkBlock
  <1>1. Tree(t)'
    <2>1. IsFiniteSet(blocks')
      BY <1>0, FS_RemoveElement DEF Tree
    <2>2. ASSUME NEW c \in blocks' \ {t} PROVE Prev[c] \in blocks'
      BY <1>0 DEF Tree, Children
    <2>. QED
      BY <1>0, <2>1, <2>2 DEF Tree
  <1>2. trie_changes' = blocks' \ {t}
    BY <1>0 DEF Counts, ClearForkBlock
  <1>3. ASSUME NEW x \in Blocks
        PROVE  refcount'[x] = IF x \in blocks' THEN Cardinality(Children(x)') ELSE 0
    <2>1. refcount[x] = IF x \in blocks THEN Cardinality(Children(x)) ELSE 0
      BY DEF Counts
    <2>2. CASE x = p
      <3>1. Children(x)' = Children(x) \ {b}
        BY <1>0, <2>2 DEF Children
      <3>2. Cardinality(Children(x)') = Cardinality(Children(x)) - 1
        <4>1. IsFiniteSet(Children(x)) /\ (b \in Children(x))
          BY <1>0, <2>2, CountOfChildren
        <4>. QED
          BY <3>1, <4>1, FS_RemoveElement
      <3>3. refcount'[x] = refcount[x] - 1
        BY <1>0, <2>2 DEF Counts, ClearForkBlock
      <3>. QED
        BY <1>0, <2>1, <2>2, <3>2, <3>3
    <2>3. CASE x = b
      BY <1>0, <2>3 DEF Counts, ClearForkBlock
    <2>4. CASE x # p /\ x # b
      <3>1. Children(x)' = Children(x)
        BY <1>0, <2>4 DEF Children
      <3>2. refcount'[x] = refcount[x]
        BY <1>0, <2>4 DEF Counts, ClearForkBlock
      <3>. QED
        BY <1>0, <2>1, <2>4, <3>1, <3>2
    <2>. QED
      BY <2>2, <2>3, <2>4
  <1>4. refcount' = [x \in Blocks |-> IF x \in blocks' THEN Cardinality(Children(x)') ELSE 0]
    <2>1. refcount' = [x \in Blocks |-> refcount'[x]]
      BY DEF Counts, ClearForkBlock
    <2>. QED
      BY <1>3, <2>1, Zenon
  <1>5. ASSUME NEW n \in Nodes
        PROVE  state'[n] = (IF n \in StateOf[t] THEN 1 ELSE 0) + Cardinality(Inserters(n, t)')
    <2>1. /\ state[n] = (IF n \in StateOf[t] THEN 1 ELSE 0) + Cardinality(Inserters(n, t))
          /\ state'[n] = IF n \in Insertions(b) THEN state[n] - 1 ELSE state[n]
      BY <1>0 DEF Counts, ClearForkBlock
    <2>2. IsFiniteSet(Inserters(n, t)) /\ Cardinality(Inserters(n, t)) \in Nat
      BY CountOfInserters
    <2>3. CASE n \in Insertions(b)
      <3>1. Inserters(n, t)' = Inserters(n, t) \ {b} /\ b \in Inserters(n, t)
        BY <1>0, <2>3 DEF Inserters, Insertions
      <3>2. Cardinality(Inserters(n, t)') = Cardinality(Inserters(n, t)) - 1
        BY <2>2, <3>1, FS_RemoveElement
      <3>. QED
        BY <2>1, <2>2, <2>3, <3>2
    <2>4. CASE n \notin Insertions(b)
      <3>1. Inserters(n, t)' = Inserters(n, t)
        BY <1>0, <2>4 DEF Inserters, Insertions
      <3>. QED
        BY <2>1, <2>4, <3>1
    <2>. QED
      BY <2>3, <2>4
  <1>6. state' = [n \in Nodes |-> (IF n \in StateOf[t] THEN 1 ELSE 0) + Cardinality(Inserters(n, t)')]
    <2>1. state' = [n \in Nodes |-> state'[n]]
      BY DEF ClearForkBlock
    <2>. QED
      BY <1>5, <2>1, Zenon
  <1>. QED
    BY <1>1, <1>2, <1>4, <1>6 DEF Counts

\* clear_block_data with GCMode::Canonical takes the root off the tree when it has one
\* child, which is the new root.
LEMMA TreeLosesRoot ==
    ASSUME NEW t, Tree(t), Counts(t), NEW b \in blocks \ {t}, Prev[b] = t, Children(t) = {b},
           Height[b] = tail + 1, ClearCanonicalBlock(b), tail' = tail + 1
    PROVE  Tree(b)' /\ Counts(b)'
  <1>0. /\ t \in Blocks /\ t \in blocks /\ blocks \subseteq Blocks /\ b \in Blocks \ {genesis}
        /\ b \in trie_changes /\ blocks' = blocks \ {t}
    BY BlocksAssumption DEF Tree, Counts, ClearCanonicalBlock
  <1>1. Tree(b)'
    <2>1. IsFiniteSet(blocks')
      BY <1>0, FS_RemoveElement DEF Tree
    <2>2. ASSUME NEW c \in blocks' \ {b}
          PROVE  c # genesis /\ Prev[c] \in blocks' /\ tail' < Height[c]
      <3>1. c # genesis /\ Prev[c] \in blocks /\ tail < Height[c] /\ c \in Blocks
        BY <1>0 DEF Tree
      <3>2. Prev[c] # t
        BY <1>0, <3>1 DEF Children
      <3>3. tail < Height[Prev[c]] /\ Height[Prev[c]] < Height[c]
        BY <3>1, <3>2, BlocksAssumption DEF Tree
      <3>4. {tail, Height[c], Height[Prev[c]]} \subseteq Nat
        BY <3>1, BlocksAssumption DEF Tree
      <3>. QED
        BY <1>0, <3>1, <3>2, <3>3, <3>4
    <2>. QED
      BY <1>0, <2>1, <2>2 DEF Tree
  <1>2. trie_changes' = blocks' \ {b}
    BY <1>0 DEF Counts, ClearCanonicalBlock
  <1>3. ASSUME NEW x \in Blocks
        PROVE  refcount'[x] = IF x \in blocks' THEN Cardinality(Children(x)') ELSE 0
    <2>1. refcount[x] = IF x \in blocks THEN Cardinality(Children(x)) ELSE 0
      BY DEF Counts
    <2>2. refcount'[x] = IF x = t THEN 0 ELSE refcount[x]
      BY DEF Counts, ClearCanonicalBlock
    <2>3. CASE x \in blocks'
      <3>1. t \notin Children(x)
        BY <1>0, <2>3, BlocksAssumption DEF Children, Tree
      <3>2. Children(x)' = Children(x)
        BY <1>0, <3>1 DEF Children
      <3>. QED
        BY <1>0, <2>1, <2>2, <2>3, <3>2
    <2>. QED
      BY <1>0, <2>1, <2>2, <2>3
  <1>4. refcount' = [x \in Blocks |-> IF x \in blocks' THEN Cardinality(Children(x)') ELSE 0]
    <2>1. refcount' = [x \in Blocks |-> refcount'[x]]
      BY DEF Counts, ClearCanonicalBlock
    <2>. QED
      BY <1>3, <2>1, Zenon
  <1>5. ASSUME NEW n \in Nodes
        PROVE  state'[n] = (IF n \in StateOf[b] THEN 1 ELSE 0) + Cardinality(Inserters(n, b)')
    <2>1. /\ state[n] = (IF n \in StateOf[t] THEN 1 ELSE 0) + Cardinality(Inserters(n, t))
          /\ state'[n] = IF n \in Deletions(b) THEN state[n] - 1 ELSE state[n]
      BY <1>0 DEF Counts, ClearCanonicalBlock
    <2>2. IsFiniteSet(Inserters(n, t)) /\ Cardinality(Inserters(n, t)) \in Nat
      BY CountOfInserters
    <2>3. /\ n \in Deletions(b) <=> n \in StateOf[t] /\ n \notin StateOf[b]
          /\ n \in Insertions(b) <=> n \in StateOf[b] /\ n \notin StateOf[t]
      BY DEF Deletions, Insertions
    <2>4. CASE n \in Insertions(b)
      <3>1. Inserters(n, b)' = Inserters(n, t) \ {b} /\ b \in Inserters(n, t)
        BY <1>0, <2>4 DEF Inserters, Insertions
      <3>2. Cardinality(Inserters(n, b)') = Cardinality(Inserters(n, t)) - 1
        BY <2>2, <3>1, FS_RemoveElement
      <3>. QED
        BY <2>1, <2>2, <2>3, <2>4, <3>2
    <2>5. CASE n \notin Insertions(b)
      <3>1. Inserters(n, b)' = Inserters(n, t)
        BY <1>0, <2>5 DEF Inserters, Insertions
      <3>. QED
        BY <2>1, <2>2, <2>3, <2>5, <3>1
    <2>. QED
      BY <2>4, <2>5
  <1>6. state' = [n \in Nodes |-> (IF n \in StateOf[b] THEN 1 ELSE 0) + Cardinality(Inserters(n, b)')]
    <2>1. state' = [n \in Nodes |-> state'[n]]
      BY DEF ClearCanonicalBlock
    <2>. QED
      BY <1>5, <2>1, Zenon
  <1>. QED
    BY <1>1, <1>2, <1>4, <1>6 DEF Counts

\* The tail moves over a height without a block.
LEMMA TreeAboveTail ==
    ASSUME NEW t, Tree(t), Counts(t), AtHeight(tail + 1) = {}, tail' = tail + 1, UNCHANGED stored
    PROVE  Tree(t)' /\ Counts(t)'
  <1>0. /\ t \in Blocks /\ t \in blocks /\ blocks \subseteq Blocks /\ tail \in Nat
        /\ blocks' = blocks /\ refcount' = refcount /\ trie_changes' = trie_changes /\ state' = state
    BY DEF Tree, stored
  <1>1. ASSUME NEW b \in blocks \ {t} PROVE tail' < Height[b]
    <2>1. tail < Height[b] /\ Height[b] # tail + 1 /\ Height[b] \in Nat
      BY <1>0, BlocksAssumption DEF Tree, AtHeight
    <2>. QED
      BY <1>0, <2>1
  <1>2. Tree(t)'
    BY <1>0, <1>1, BlocksAssumption DEF Tree
  <1>. QED
    BY <1>0, <1>2 DEF Counts, Children, Inserters

-----------------------------------------------------------------------------
(* The chunks of the stored blocks                                         *)

\* A chunk of a block was included in it or is a chunk of its parent.
LEMMA ChunksOfChild ==
    ASSUME NEW b \in Blocks \ {genesis}
    PROVE  ChunksOf(b) \subseteq ChunksOf(Prev[b]) \cup {<<b, s>> : s \in NewChunks[b]}
  <1>. SUFFICES ASSUME NEW s \in Shards
                PROVE  <<ChunkIn[b][s], s>> \in ChunksOf(Prev[b]) \cup {<<b, r>> : r \in NewChunks[b]}
    BY DEF ChunksOf
  <1>. QED
    BY ChunkInUnfolds DEF ChunksOf

LEMMA ChunkTypes ==
    ASSUME NEW b \in Blocks
    PROVE  /\ ChunksOf(b) \subseteq Blocks \X Shards
           /\ \A c \in Blocks \X Shards : HeightCreated(c) \in Nat
           /\ \A s \in NewChunks[b] : <<b, s>> \in Blocks \X Shards /\ HeightCreated(<<b, s>>) = Height[b]
  BY ChunkInUnfolds, GCAssumption, BlocksAssumption DEF ChunksOf, HeightCreated

\* The chunk heights that clear_data keeps when the root goes are those of all stored
\* blocks: the other blocks have chunks of the root or newer ones.
LEMMA ChunksAboveMin ==
    ASSUME NEW t, Tree(t)
    PROVE  /\ MinChunkHeight(t) \in Nat /\ MinChunkHeight(t) <= tail
           /\ \A b \in blocks : \A c \in ChunksOf(b) : HeightCreated(c) >= MinChunkHeight(t)
  <1>. DEFINE H == {tail} \cup {HeightCreated(c) : c \in ChunksOf(t)}
              m == MinChunkHeight(t)
              S == {b \in Blocks : \A c \in ChunksOf(b) : HeightCreated(c) >= m}
  <1>0. t \in Blocks /\ t \in blocks /\ blocks \subseteq Blocks /\ tail \in Nat
    BY DEF Tree
  <1>1. H \in SUBSET Nat /\ tail \in H
    BY <1>0, ChunkTypes
  <1>2. m = CHOOSE h \in H : \A k \in H : h <= k
    BY DEF MinChunkHeight, Min
  <1>3. \A c \in ChunksOf(t) : HeightCreated(c) \in H
    OBVIOUS
  <1>. HIDE DEF H, m
  <1>4. m \in H /\ \A k \in H : m <= k
    <2>1. \E h \in H : \A k \in H : h <= k
      BY <1>1, LeastNatural
    <2>. QED
      BY <1>2, <2>1, Zenon
  <1>5. m \in Nat /\ m <= tail
    BY <1>1, <1>4
  <1>6. t \in S
    BY <1>0, <1>1, <1>3, <1>4, <1>5
  <1>7. ASSUME NEW b \in blocks \ {t}, Prev[b] \in S PROVE b \in S
    <2>1. b \in Blocks \ {genesis} /\ tail < Height[b]
      BY <1>0 DEF Tree
    <2>2. ASSUME NEW c \in ChunksOf(b) PROVE HeightCreated(c) >= m
      <3>1. CASE c \in ChunksOf(Prev[b])
        BY <1>7, <3>1
      <3>2. CASE \E s \in NewChunks[b] : c = <<b, s>>
        <4>1. HeightCreated(c) = Height[b] /\ Height[b] \in Nat
          BY <2>1, <3>2, ChunkTypes, BlocksAssumption
        <4>. QED
          BY <1>0, <1>5, <2>1, <4>1
      <3>. QED
        BY <2>1, <3>1, <3>2, ChunksOfChild
    <2>. QED
      BY <2>1, <2>2
  <1>. HIDE DEF S
  <1>8. \A b \in blocks : b \in S
    BY <1>6, <1>7, StoredInduction
  <1>. QED
    BY <1>5, <1>8 DEF S, m
=============================================================================
