--------------------------- MODULE MCBlockPipeline ---------------------------
(***************************************************************************)
(* A block tree: the chain a1 .. a4, a block b1 at the height of a1 and a  *)
(* block c3 that skips height 2.                                           *)
(***************************************************************************)
EXTENDS BlockPipeline, TLC

CONSTANTS g, a1, a2, a3, a4, b1, c3, k1, k2, k3

ForkPrev == g :> g @@ a1 :> g @@ a2 :> a1 @@ a3 :> a2 @@ a4 :> a3 @@ b1 :> g @@ c3 :> a1
ForkHeightOf == g :> 0 @@ a1 :> 1 @@ a2 :> 2 @@ a3 :> 3 @@ a4 :> 4 @@ b1 :> 1 @@ c3 :> 3
ForkFinalOf == g :> g @@ a1 :> g @@ a2 :> g @@ a3 :> a1 @@ a4 :> a2 @@ b1 :> g @@ c3 :> g
ForkChunksOf ==
    g :> {} @@ a1 :> {} @@ a2 :> {k2} @@ a3 :> {k3} @@ a4 :> {} @@ b1 :> {k1} @@ c3 :> {}
=============================================================================
