------------------------- MODULE MCClientTransactions -------------------------
(***************************************************************************)
(* An instance of ClientTransactions: two access keys, one with three      *)
(* transactions of which two have the same nonce, and two chains that are  *)
(* the head in turns.                                                      *)
(***************************************************************************)
EXTENDS ClientTransactions

MCHeight == [g |-> 0, a1 |-> 1, a2 |-> 2, f3 |-> 3, a4 |-> 4]

MCBlocks == DOMAIN MCHeight

MCPrev == [a1 |-> "g", a2 |-> "a1", f3 |-> "a1", a4 |-> "a2"]

MCNonce == [s1 |-> 1, s2 |-> 2, t2 |-> 2, u1 |-> 1]

MCTxs == DOMAIN MCNonce

MCKeyOf == [s1 |-> 1, s2 |-> 1, t2 |-> 1, u1 |-> 2]

MCSize == [s1 |-> 1, s2 |-> 1, t2 |-> 1, u1 |-> 2]

\* u1 expires.
MCValidUntil == [s1 |-> 9, s2 |-> 9, t2 |-> 9, u1 |-> 3]
=============================================================================
