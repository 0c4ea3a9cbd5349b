------------------------------ MODULE BlockTree ------------------------------
(***************************************************************************)
(* The blocks a node may see, as their headers describe them: parents,     *)
(* heights, last final blocks (core/primitives/src/block.rs) and epochs    *)
(* (chain/epoch-manager/src/lib.rs).                                       *)
(***************************************************************************)
EXTENDS Integers

CONSTANTS
    Blocks, genesis,
    Prev,            \* prev_hash, of every block but genesis
    Height,
    epoch_length

ASSUME BlocksAssumption ==
    /\ genesis \in Blocks
    /\ Prev \in [Blocks \ {genesis} -> Blocks]
    /\ Height \in [Blocks -> Nat]
    /\ \A b \in Blocks \ {genesis} : Height[Prev[b]] < Height[b]
    /\ epoch_length \in Nat \ {0}

\* The block and its ancestors.
Chain ==
    LET chain[b \in Blocks] == IF b = genesis THEN {b} ELSE chain[Prev[b]] \cup {b}
    IN  [b \in Blocks |-> chain[b]]

\* Block::produce: a block whose parent is one height below doomslug-finalizes it.
last_ds_final_block ==
    LET last[b \in Blocks] ==
            IF b = genesis THEN genesis
            ELSE IF Height[b] = Height[Prev[b]] + 1 THEN Prev[b]
            ELSE last[Prev[b]]
    IN  [b \in Blocks |-> last[b]]

\* Block::produce: two such steps in a row make the grandparent final.
last_final_block ==
    LET last[b \in Blocks] ==
            IF b = genesis \/ Prev[b] = genesis THEN genesis
            ELSE IF Height[b] = Height[Prev[b]] + 1
                      /\ last_ds_final_block[Prev[b]] = Prev[Prev[b]]
                 THEN Prev[Prev[b]]
                 ELSE last[Prev[b]]
    IN  [b \in Blocks |-> last[b]]

\* What Doomslug allows (FinalityIrrevocable of DoomslugConsensus): a block above a final
\* one is built on it, or on a block that is above it too.
ASSUME FinalityAssumption ==
    \A b \in Blocks, c \in Blocks \ {genesis} :
        LET final == last_final_block[b]
        IN  Height[c] > Height[final] => Prev[c] = final \/ Height[Prev[c]] > Height[final]

\* is_next_block_in_next_epoch, for a block whose epoch began with first.
NextBlockInNextEpoch(b, first) ==
    \/ b = genesis
    \/ LET estimated_next_epoch_start == Height[first] + epoch_length
       IN  IF epoch_length <= 3
           THEN Height[b] + 1 >= estimated_next_epoch_start
           ELSE Height[last_final_block[b]] + 3 >= estimated_next_epoch_start

\* BlockInfo::epoch_first_block.
epoch_first_block ==
    LET first[b \in Blocks] ==
            IF b # genesis /\ ~NextBlockInNextEpoch(Prev[b], first[Prev[b]])
            THEN first[Prev[b]] ELSE b
    IN  [b \in Blocks |-> first[b]]

\* update_final_head_from_block keeps the higher of two final heads.
Higher(b, c) == IF Height[b] > Height[c] THEN b ELSE c

\* check_if_finalizable, on a chain shorter than NUM_PARENTS_TO_CHECK_FINALITY.
Finalizable(b, final_head) == final_head \in Chain[b]
=============================================================================
