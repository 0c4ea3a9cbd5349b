-------------------------- MODULE MCChunkCollection --------------------------
(***************************************************************************)
(* A chain a1 a2 a3, a block b1 that shares its chunk with a1, and a block *)
(* b4 above a2, with which the head passes the chunk of a3.  The epoch     *)
(* ends with the first block.  The node does not track the shard of d3 and *)
(* e3, two chunks of one height, and produces p2 on b1.                    *)
(***************************************************************************)
EXTENDS ChunkCollection

CONSTANTS g, a1, b1, a2, a3, b4, c1, p2, d3, e3

MCPrev == g :> g @@ a1 :> g @@ b1 :> g @@ a2 :> a1 @@ a3 :> a2 @@ b4 :> a2
MCHeightOf == g :> 0 @@ a1 :> 1 @@ b1 :> 1 @@ a2 :> 2 @@ a3 :> 3 @@ b4 :> 4
MCFinalOf == g :> g @@ a1 :> g @@ b1 :> g @@ a2 :> g @@ a3 :> a1 @@ b4 :> g
MCEpochAfter == g :> 0 @@ a1 :> 1 @@ b1 :> 1 @@ a2 :> 1 @@ a3 :> 1 @@ b4 :> 1
MCChunksOf == g :> {} @@ a1 :> {c1} @@ b1 :> {c1} @@ a2 :> {} @@ a3 :> {d3} @@ b4 :> {}

MCChunkPrev == c1 :> g @@ d3 :> a2 @@ e3 :> a2 @@ p2 :> b1
MCChunkHeight == c1 :> 1 @@ d3 :> 3 @@ e3 :> 3 @@ p2 :> 2
MCChunkShard == c1 :> 0 @@ d3 :> 1 @@ e3 :> 1 @@ p2 :> 0
=============================================================================
