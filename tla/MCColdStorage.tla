---------------------------- MODULE MCColdStorage ----------------------------
(***************************************************************************)
(* An instance of ColdStorage: a chain that skips heights and misses       *)
(* chunks, with a fork of d3, beside a3, f4 and f6 that is the head in     *)
(* turns with the chain until a7.                                          *)
(***************************************************************************)
EXTENDS ColdStorage

MCHeight ==
    [g |-> 0, a1 |-> 1, a2 |-> 2, a3 |-> 3, d3 |-> 3, f4 |-> 4, a5 |-> 5, f6 |-> 6, a7 |-> 7,
     a8 |-> 8, a9 |-> 9, a10 |-> 10, a11 |-> 11, b12 |-> 12, a13 |-> 13, a14 |-> 14,
     a15 |-> 15, a16 |-> 16]

MCBlocks == DOMAIN MCHeight

MCPrev ==
    [a1 |-> "g", a2 |-> "a1", a3 |-> "a2", d3 |-> "a2", f4 |-> "d3", a5 |-> "a3",
     f6 |-> "f4", a7 |-> "a5", a8 |-> "a7", a9 |-> "a8", a10 |-> "a9", a11 |-> "a10",
     b12 |-> "a10", a13 |-> "a11", a14 |-> "a13", a15 |-> "a14", a16 |-> "a15"]

MCNodes == {"p", "q", "r", "u"}

\* The same node comes and goes, on one branch or on several; u is in one state only.
MCStateOf ==
    [g |-> {"p"}, a1 |-> {"p", "q"}, a2 |-> {"q"}, a3 |-> {"p", "q"}, d3 |-> {"p", "q"},
     f4 |-> {"p", "u"}, f6 |-> {"p", "r"}, a5 |-> {"p"}, a7 |-> {"p", "r"}, a8 |-> {"r"},
     a9 |-> {"p", "r"}, a10 |-> {"p"}, a11 |-> {"q"}, b12 |-> {"r"}, a13 |-> {"p"},
     a14 |-> {"p", "q"}, a15 |-> {"p"}, a16 |-> {"q"}]

MCShards == {0, 1}

MCShardOf == [n \in MCNodes |-> IF n = "r" THEN 1 ELSE 0]

\* Shard 1 has new chunks in a1, a8 and a14 only.
MCNewChunks == [b \in MCBlocks |-> IF b \in {"g", "a1", "a8", "a14"} THEN {0, 1} ELSE {0}]
=============================================================================
