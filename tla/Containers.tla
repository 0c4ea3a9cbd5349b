----------------------------- MODULE Containers -----------------------------
(***************************************************************************)
(* The operations on maps and sequences that the models share.             *)
(***************************************************************************)
EXTENDS Integers, Sequences, Folds, FiniteSetsExt

\* HashMap::insert: the map f with v at k.
Put(f, k, v) == [x \in DOMAIN f \cup {k} |-> IF x = k THEN v ELSE f[x]]

\* Iterator::filter: the elements of s that are in T, in their order.
Keep(s, T) ==
    MapThenFoldSet(LAMBDA x, kept : IF x \in T THEN Append(kept, x) ELSE kept, <<>>,
                   LAMBDA i : s[i], LAMBDA indices : Max(indices), DOMAIN s)
=============================================================================
