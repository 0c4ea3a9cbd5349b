-------------------------- MODULE ClientTransactions --------------------------
(***************************************************************************)
(* What a validator's client (chain/client/src/client.rs) does with the    *)
(* transaction pool of a shard it tracks: it inserts the transactions it   *)
(* is sent, reconciles the pool with each block it accepts and pulls the   *)
(* transactions of the chunks it produces.                                 *)
(*                                                                         *)
(* A block brings the chunk this node built on its parent, one of another  *)
(* chunk producer with a transaction, or no new chunk.                     *)
(***************************************************************************)
EXTENDS BlockTree, TransactionPool

CONSTANTS
    OthersTxs,       \* the transactions other chunk producers include
    MaxRounds        \* bound on the rounds of prepare_transactions

ASSUME OthersAssumption == OthersTxs \subseteq Txs /\ MaxRounds \in Nat

VARIABLES
    pool,
    blocks, head,
    chunk,           \* the transactions of the new chunk of each block
    produced,        \* the transactions of the chunk this node built on a block
    waited           \* history: groups pulled since a key's transactions wait

vars == <<pool, blocks, head, chunk, produced, waited>>

TxsOf(bs) == UNION {Range(chunk[b]) : b \in bs}

Included(b) == TxsOf(Chain[b])

\* The nonces of the access keys in the state after a block.
NoncesAt(b) ==
    [k \in PoolKeys |-> Max({0} \cup {Nonce[t] : t \in {u \in Included(b) : KeyOf[u] = k}})]

ValidAfter(t, b) == Valid(t, NoncesAt(b), Height[b])

Init ==
    /\ pool = NewPool
    /\ blocks = {genesis} /\ head = genesis
    /\ chunk = [b \in Blocks |-> <<>>]
    /\ produced = [b \in Blocks |-> <<>>]
    /\ waited = [k \in PoolKeys |-> 0]

\* process_tx for a transaction that passes its checks; the others change nothing.
ProcessTx(t) ==
    /\ ValidAfter(t, head)
    /\ pool' = InsertTransaction(pool, t)
    /\ UNCHANGED <<blocks, head, chunk, produced, waited>>

-----------------------------------------------------------------------------
(* reconcile_transaction_pool                                              *)

\* Mutant: of the new chain only its last block is looked at.
ReorgRemovesHead(new_head, prev_head) ==
    [to_remove |-> <<new_head>>,
     to_reintroduce |-> SetToSortSeq(Chain[prev_head] \ Chain[new_head],
                                     LAMBDA b, c : Height[b] > Height[c])]

\* The blocks down to the common ancestor of the new head and the previous one.
Reorg(new_head, prev_head) ==
    LET walk[r, i \in Blocks] ==
            IF r = i THEN [to_remove |-> <<>>, to_reintroduce |-> <<>>]
            ELSE IF Height[r] > Height[i]
            THEN LET rest == walk[Prev[r], i]
                 IN  [rest EXCEPT !.to_remove = <<r>> \o @]
            ELSE LET rest == walk[r, Prev[i]]
                 IN  [rest EXCEPT !.to_reintroduce = <<i>> \o @]
    IN  walk[new_head, prev_head]

\* The pool after the block, by its status Next, Reorg or Fork.
Reconciled(b, chunks) ==
    IF Prev[b] = head THEN RemoveTransactions(pool, chunks[b])
    ELSE IF Height[b] <= Height[head] THEN pool
    ELSE LET reorg == Reorg(b, head)
             reintroduced == FoldLeft(LAMBDA p, c : ReintroduceTransactions(p, chunks[c]),
                                      pool, reorg.to_reintroduce)
         IN  FoldLeft(LAMBDA p, c : RemoveTransactions(p, chunks[c]),
                      reintroduced, reorg.to_remove)

\* The keys whose groups the iterator reached.
Pulled(p, it) ==
    {k \in PoolKeys : p.transactions[k] # <<>>
                        /\ (it.groups[k] = <<>> \/ k \in Range(it.sorted_groups))}

\* Mutant: the transactions of the chunk do not go back to the pool.
PreparedOnly(p, loop) == DropIterator(p, loop.it)

\* Client::prepare_transactions: the iterator is dropped, and what it pulled for the chunk
\* goes back to the pool until a block includes it.
Prepared(p, loop) == ReintroduceTransactions(DropIterator(p, loop.it), loop.transactions)

\* produce_chunk on top of the block, with its chunks and in the state after it.
ProduceChunk(b, p, nonces) ==
    \E n \in 0 .. MaxRounds :
        LET loop == PrepareLoop(p, nonces, Height[b], n)
            pulled == Pulled(p, loop.it)
        IN  /\ pool' = Prepared(p, loop)
            /\ produced' = [produced EXCEPT ![b] = loop.transactions]
            /\ waited' = [k \in PoolKeys |->
                            IF k \in pulled \/ p.transactions[k] = <<>> THEN 0
                            ELSE waited[k] + Cardinality(pulled)]

\* The chunks that may come with a child of the block.
ChunksAfter(b) ==
    {<<>>, produced[b]} \cup {<<t>> : t \in {u \in OthersTxs : ValidAfter(u, b)}}

\* on_block_accepted.
AcceptBlock(b) ==
    /\ b \notin blocks /\ Prev[b] \in blocks
    /\ Finalizable(b, last_final_block[head])
    /\ blocks' = blocks \cup {b}
    /\ head' = Higher(b, head)
    /\ \E txs \in ChunksAfter(Prev[b]) :
         /\ chunk' = [chunk EXCEPT ![b] = txs]
         /\ LET p == Reconciled(b, chunk')
            IN  \/ head' = b /\ ProduceChunk(b, p, NoncesAt(b)')
                \/ /\ pool' = p
                   /\ waited' = [k \in PoolKeys |-> IF p.transactions[k] = <<>> THEN 0
                                                    ELSE waited[k]]
                   /\ UNCHANGED produced

Next ==
    \/ \E t \in Txs : ProcessTx(t)
    \/ \E b \in Blocks \ {genesis} : AcceptBlock(b)

Spec == Init /\ [][Next]_vars

-----------------------------------------------------------------------------
(* Properties                                                              *)

TypeOK ==
    /\ pool.transactions \in [PoolKeys -> Seq(Txs)]
    /\ pool.unique_transactions \subseteq Txs
    /\ pool.last_used_key \in PoolKeys \cup {0}
    /\ pool.total_transaction_size \in 0 .. total_transaction_size_limit
    /\ blocks \subseteq Blocks /\ head \in blocks
    /\ chunk \in [Blocks -> Seq(Txs)]
    /\ produced \in [Blocks -> Seq(Txs)]
    /\ waited \in [PoolKeys -> Nat]

\* The expects of the pool on its size: whatever is inserted, pulled, put back and removed,
\* and in whatever order, the counted size is that of the transactions, and none of them
\* is in the pool twice or without its hash.
PoolIsCounted ==
    /\ pool.total_transaction_size = SizeOf(PoolTxs(pool))
    /\ PoolTxs(pool) \subseteq pool.unique_transactions
    /\ \A k \in PoolKeys : IsInjective(pool.transactions[k])

\* The pool is well-formed and its size and hashes are right.
PoolInvariant == TypeOK /\ PoolIsCounted

\* reconcile_transaction_pool leaves no transaction in the pool that the chain of the head
\* includes, over any sequence of blocks, forks and reorganizations.
NothingIncludedIsInPool == PoolTxs(pool) \cap Included(head) = {}

\* A chunk this node builds can be applied: its transactions are valid one after the other
\* in the state after the block below it.
ProducedChunksAreValid ==
    \A b \in blocks :
        \A i \in DOMAIN produced[b] :
            /\ ValidAfter(produced[b][i], b)
            /\ \A j \in 1 .. i - 1 :
                 KeyOf[produced[b][j]] = KeyOf[produced[b][i]] =>
                     Nonce[produced[b][j]] < Nonce[produced[b][i]]

\* The round robin of the pool iterator (types.rs) over all chunks: transactions wait for
\* at most one group of each other key.
NobodyStarves == \A k \in PoolKeys : waited[k] < Cardinality(PoolKeys)

Conflicts(t, u) == t # u /\ KeyOf[t] = KeyOf[u] /\ Nonce[t] = Nonce[u]

\* "Reintroduce valid transactions back to the pool": no block, reorganization or chunk
\* loses a transaction that is in the pool or on the chain and can still be included,
\* unless the chunk has one with its nonce or the reorganization finds the pool full.
TransactionsAreKept ==
    [][\A t \in PoolTxs(pool) \cup Included(head) :
         \/ t \in PoolTxs(pool') \cup Included(head)'
         \/ ~ValidAfter(t, head)'
         \/ \E u \in Range(produced'[head']) : Conflicts(t, u)
         \/ /\ t \notin PoolTxs(pool)
            /\ SizeOf(PoolTxs(pool) \cup TxsOf(Chain[head] \ Chain[head']))
                 > total_transaction_size_limit]_vars

\* The comment on unique_transactions, "to quickly check if the given transaction is in the
\* pool", and that on InsertTransactionResult::Duplicate.
UniqueTransactionsAreInPool == pool.unique_transactions = PoolTxs(pool)
=============================================================================
