--------------------------- MODULE OrphanBlockPool ---------------------------
(***************************************************************************)
(* The pool of blocks whose previous block is not accepted yet             *)
(* (chain/chain/src/orphan.rs).  A pool is a record:                       *)
(*   orphans      the blocks                                               *)
(*   requested    orphans_requested_missing_chunks                         *)
(*   height_idx   height -> the orphans at the height                      *)
(*   prev_idx     block -> its children among the orphans, as they came    *)
(* An absent entry of an index is empty.                                   *)
(***************************************************************************)
EXTENDS Integers, Sequences, SequencesExt, FiniteSetsExt

CONSTANTS
    Block, Genesis,
    Prev, HeightOf,
    MAX_ORPHAN_SIZE,
    MAX_ORPHAN_MISSING_CHUNKS,
    NUM_ORPHAN_ANCESTORS_CHECK

Height == {HeightOf[b] : b \in Block}

NoOrphans ==
    [orphans |-> {}, requested |-> {},
     height_idx |-> [h \in Height |-> {}], prev_idx |-> [b \in Block |-> <<>>]]

\* retain drops the entries all of whose blocks are gone, and keeps the others whole.
RetainHeights(idx, gone) == [h \in Height |-> IF idx[h] \subseteq gone THEN {} ELSE idx[h]]

RetainPrev(idx, gone) ==
    [b \in Block |-> IF Range(idx[b]) \subseteq gone THEN <<>> ELSE idx[b]]

Push(o, b, requested) ==
    [orphans |-> o.orphans \cup {b},
     requested |-> IF requested THEN o.requested \cup {b} ELSE o.requested,
     height_idx |-> [o.height_idx EXCEPT ![HeightOf[b]] = @ \cup {b}],
     prev_idx |-> [o.prev_idx EXCEPT ![Prev[b]] = Append(@, b)]]

AtHeights(o, heights) == UNION {o.height_idx[h] : h \in heights}

\* The heights removed, from the top, until there is room; always the first of them.
EvictedHeights(o, kept) ==
    LET heights == {h \in Height : o.height_idx[h] # {}} IN
    {h \in heights :
        LET above == {g \in heights : g > h} IN
        above = {} \/ Cardinality(kept \ AtHeights(o, above)) >= MAX_ORPHAN_SIZE}

\* Mutant: the index by previous block loses every entry with an evicted block.
EvictEntries(o, old) ==
    LET heights == EvictedHeights(o, o.orphans \ old)
        gone == old \cup AtHeights(o, heights)
    IN  [orphans |-> o.orphans \ gone,
         requested |-> o.requested \ gone,
         height_idx |-> RetainHeights([h \in Height |-> IF h \in heights THEN {}
                                                        ELSE o.height_idx[h]], gone),
         prev_idx |-> [b \in Block |-> IF Range(o.prev_idx[b]) \cap gone # {} THEN <<>>
                                       ELSE o.prev_idx[b]]]

\* The orphans of MAX_ORPHAN_AGE_SECS or more go first, then the highest ones.
Evict(o, old) ==
    LET heights == EvictedHeights(o, o.orphans \ old)
        gone == old \cup AtHeights(o, heights)
    IN  [orphans |-> o.orphans \ gone,
         requested |-> o.requested \ gone,
         height_idx |-> RetainHeights([h \in Height |-> IF h \in heights THEN {}
                                                        ELSE o.height_idx[h]], gone),
         prev_idx |-> RetainPrev(o.prev_idx, gone)]

\* OrphanBlockPool::add; old are the orphans that have reached the age.
AddOrphan(o, b, requested, old) ==
    LET pushed == Push(o, b, requested) IN
    IF Cardinality(pushed.orphans) > MAX_ORPHAN_SIZE
    THEN Evict(pushed, old \cap pushed.orphans)
    ELSE pushed

\* The orphans remove_by_prev_hash returns.
Children(o, p) ==
    FoldLeft(LAMBDA found, b : IF b \in o.orphans /\ ~Contains(found, b) THEN Append(found, b)
                               ELSE found,
             <<>>, o.prev_idx[p])

\* remove_by_prev_hash.
RemoveByPrev(o, p) ==
    LET gone == Range(o.prev_idx[p]) IN
    [orphans |-> o.orphans \ gone,
     requested |-> o.requested \ gone,
     height_idx |-> RetainHeights(o.height_idx, gone),
     prev_idx |-> [o.prev_idx EXCEPT ![p] = <<>>]]

\* get_orphans_within_depth: the queue is popped at its end, and the first block at
\* the target depth ends the walk.
RECURSIVE Walk(_, _, _)
Walk(o, queue, found) ==
    IF queue = <<>> \/ Last(queue).depth = NUM_ORPHAN_ANCESTORS_CHECK THEN found
    ELSE LET kids == o.prev_idx[Last(queue).block]
             next == [i \in DOMAIN kids |-> [block |-> kids[i], depth |-> Last(queue).depth + 1]]
         IN  Walk(o, Front(queue) \o next, found \o kids)

OrphansWithinDepth(o, p) == Walk(o, <<[block |-> p, depth |-> 0]>>, <<>>)

\* can_request_missing_chunks_for_orphan.
CanRequest(o, b) ==
    Cardinality(o.requested) < MAX_ORPHAN_MISSING_CHUNKS /\ b \notin o.requested

\* mark_missing_chunks_requested_for_orphan.
MarkRequested(o, b) == [o EXCEPT !.requested = @ \cup {b}]

-----------------------------------------------------------------------------
(* What a pool must satisfy                                                *)

\* Every orphan is found by its previous block and by its height.
Indexed(o) ==
    \A b \in o.orphans : b \in Range(o.prev_idx[Prev[b]]) /\ b \in o.height_idx[HeightOf[b]]
=============================================================================
