--------------------------- MODULE MCStateSnapshot ---------------------------
(***************************************************************************)
(* An instance of StateSnapshot: a chain that skips heights, with a fork   *)
(* of f4 that is the head for a while.                                     *)
(***************************************************************************)
EXTENDS StateSnapshot

MCHeight ==
    [g |-> 0, a1 |-> 1, a2 |-> 2, a3 |-> 3, f4 |-> 4, a5 |-> 5, a7 |-> 7,
     a8 |-> 8, a9 |-> 9, a10 |-> 10, a11 |-> 11]

MCBlocks == DOMAIN MCHeight

MCPrev ==
    [a1 |-> "g", a2 |-> "a1", a3 |-> "a2", f4 |-> "a2", a5 |-> "a3",
     a7 |-> "a5", a8 |-> "a7", a9 |-> "a8", a10 |-> "a9", a11 |-> "a10"]

MCShards == {0, 1}
MCKeys   == {0, 1}

MCChanged ==
    [b \in MCBlocks |->
        [s \in MCShards |->
            CASE s = 0 /\ b \in {"a1", "a5"} -> {0}
              [] s = 0 /\ b \in {"a3", "a7"} -> {1}
              [] s = 0 /\ b = "a8" -> {0, 1}
              [] s = 1 /\ b \in {"a2", "a7"} -> {0}
              [] s = 1 /\ b \in {"a1", "f4", "a5"} -> {1}
              [] OTHER -> {}]]

\* Shard 0 has no chunks in a9 and a10 and shard 1 in few blocks.
MCNewChunks ==
    [b \in MCBlocks |-> (IF b \in {"a9", "a10"} THEN {} ELSE {0})
                           \cup (IF b \in {"g", "a2", "f4", "a7", "a9"} THEN {1} ELSE {})]
=============================================================================
