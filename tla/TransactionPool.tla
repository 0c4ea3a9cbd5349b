---------------------------- MODULE TransactionPool ----------------------------
(***************************************************************************)
(* The transaction pool of a shard (chain/pool/src/lib.rs, types.rs) as    *)
(* operators on a record, and the loop of prepare_transactions             *)
(* (framework/src/runtime/mod.rs) that pulls transactions from it.         *)
(*                                                                         *)
(* A pool key stands for an access key of an account; the order of the     *)
(* keys is random in the code and fixed here.  A transaction is valid if   *)
(* its nonce is above that of its access key and it has not expired.       *)
(***************************************************************************)
EXTENDS Naturals, SequencesExt

CONSTANTS
    Txs, KeyOf, Nonce, Size,
    ValidUntil,      \* the height of a transaction's base block plus the validity period
    total_transaction_size_limit

ASSUME TxsAssumption ==
    /\ KeyOf \in [Txs -> Nat \ {0}]
    /\ Nonce \in [Txs -> Nat \ {0}]
    /\ Size \in [Txs -> Nat \ {0}]
    /\ ValidUntil \in [Txs -> Nat]
    /\ total_transaction_size_limit \in Nat

PoolKeys == {KeyOf[t] : t \in Txs}

SizeOf(txs) == MapThenSumSet(LAMBDA t : Size[t], txs)

\* TransactionPool::new.  A key without transactions has no entry in the code.
NewPool ==
    [transactions |-> [k \in PoolKeys |-> <<>>], unique_transactions |-> {},
     last_used_key |-> 0, total_transaction_size |-> 0]

PoolTxs(pool) == UNION {Range(pool.transactions[k]) : k \in PoolKeys}

\* insert_transaction: Duplicate, NoSpaceLeft or Success.
InsertTransaction(pool, t) ==
    IF t \in pool.unique_transactions THEN pool
    ELSE IF pool.total_transaction_size + Size[t] > total_transaction_size_limit
    THEN [pool EXCEPT !.unique_transactions = @ \cup {t}]
    ELSE [pool EXCEPT !.unique_transactions = @ \cup {t},
                      !.total_transaction_size = @ + Size[t],
                      !.transactions = [@ EXCEPT ![KeyOf[t]] = Append(@, t)]]

\* reintroduce_transactions.
ReintroduceTransactions(pool, txs) == FoldLeft(InsertTransaction, pool, txs)

\* Mutant: the size of every hash is taken off.
RemoveTransactionsByHash(pool, txs) ==
    LET hashes == Range(txs) \cap pool.unique_transactions
    IN  [pool EXCEPT
           !.unique_transactions = @ \ hashes,
           !.transactions = [k \in PoolKeys |-> SelectSeq(@[k], LAMBDA t : t \notin hashes)],
           !.total_transaction_size = @ - SizeOf(hashes)]

\* remove_transactions.
RemoveTransactions(pool, txs) ==
    LET hashes == Range(txs) \cap pool.unique_transactions
    IN  [pool EXCEPT
           !.unique_transactions = @ \ hashes,
           !.transactions = [k \in PoolKeys |-> SelectSeq(@[k], LAMBDA t : t \notin hashes)],
           !.total_transaction_size = @ - SizeOf(hashes \cap PoolTxs(pool))]

-----------------------------------------------------------------------------
(* PoolIteratorWrapper and TransactionGroup                                *)

\* sort_by_key, the largest nonces first.
SortedByNonce(txs) ==
    LET nonces == SetToSortSeq({Nonce[t] : t \in Range(txs)}, >)
    IN  FlattenSeq([i \in DOMAIN nonces |-> SelectSeq(txs, LAMBDA t : Nonce[t] = nonces[i])])

\* Mutant: starts with the first key each time.
NextKeyFirst(keys, last_used_key) == Min(keys)

NextKey(keys, last_used_key) ==
    LET after == {k \in keys : k > last_used_key}
    IN  IF after = {} THEN Min(keys) ELSE Min(after)

\* The iterator: the groups it has not reached are in the pool, the others in its queue.
NewIterator(pool) ==
    [groups |-> pool.transactions, sorted_groups |-> <<>>, last_used_key |-> pool.last_used_key]

\* PoolIterator::next moves to the group that is last in the queue then; without one it
\* leaves the queue empty.
IteratorNext(it) ==
    LET nonempty == {k \in PoolKeys : it.groups[k] # <<>>}
        in_pool == nonempty \ Range(it.sorted_groups)
        queue == SelectSeq(it.sorted_groups, LAMBDA k : k \in nonempty)
    IN  IF in_pool # {}
        THEN LET key == NextKey(in_pool, it.last_used_key)
             IN  [groups |-> [it.groups EXCEPT ![key] = SortedByNonce(@)],
                  sorted_groups |-> Append(it.sorted_groups, key),
                  last_used_key |-> key]
        ELSE [it EXCEPT !.sorted_groups = IF queue = <<>> THEN <<>>
                                          ELSE Append(Tail(queue), Head(queue))]

\* Drop: the groups go back to the pool and the pulled transactions leave it.
DropIterator(pool, it) ==
    LET pulled == PoolTxs(pool) \ UNION {Range(it.groups[k]) : k \in PoolKeys}
    IN  [transactions |-> it.groups,
         unique_transactions |-> pool.unique_transactions \ pulled,
         last_used_key |-> it.last_used_key,
         total_transaction_size |-> pool.total_transaction_size - SizeOf(pulled)]

-----------------------------------------------------------------------------
(* prepare_transactions                                                    *)

\* chain_validate and verify_and_charge_transaction, on top of a block of this height in a
\* state with these nonces.
Valid(t, nonces, height) == height <= ValidUntil[t] /\ Nonce[t] > nonces[KeyOf[t]]

\* Mutant: all transactions of a chunk are checked in the state before it.
ChargeNothing(nonces, t) == nonces

\* verify_and_charge_transaction moves the nonce of the access key.
Charge(nonces, t) == [nonces EXCEPT ![KeyOf[t]] = Nonce[t]]

\* TransactionGroup::next until a transaction is valid: it and the ones behind it leave
\* the group.
PullFromGroup(loop, height) ==
    LET key == Last(loop.it.sorted_groups)
        group == loop.it.groups[key]
        valid == {i \in DOMAIN group : Valid(group[i], loop.nonces, height)}
        left == IF valid = {} THEN <<>> ELSE SubSeq(group, 1, Max(valid) - 1)
        pulled == [loop EXCEPT !.it = [@ EXCEPT !.groups = [@ EXCEPT ![key] = left]]]
    IN  IF valid = {} THEN pulled
        ELSE [pulled EXCEPT !.transactions = Append(@, group[Max(valid)]),
                            !.nonces = Charge(@, group[Max(valid)])]

\* The loop after n rounds: its limits of gas, size, receipts and time may end it after
\* any.
PrepareLoop(pool, nonces, height, n) ==
    LET after[i \in 0 .. n] ==
            IF i = 0 THEN [it |-> NewIterator(pool), nonces |-> nonces, transactions |-> <<>>]
            ELSE LET loop == after[i - 1]
                     next == [loop EXCEPT !.it = IteratorNext(@)]
                 IN  IF next.it.sorted_groups = <<>> THEN next ELSE PullFromGroup(next, height)
    IN  after[n]
=============================================================================
