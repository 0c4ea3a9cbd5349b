SPECIFICATION Spec
CONSTANTS
    Blocks <- MCBlocks
    genesis = "g"
    Prev <- MCPrev
    Height <- MCHeight
    epoch_length = 10
    Txs <- MCTxs
    KeyOf <- MCKeyOf
    Nonce <- MCNonce
    Size <- MCSize
    ValidUntil <- MCValidUntil
    total_transaction_size_limit = 4
    OthersTxs = {"s2", "u1"}
    MaxRounds = 2
INVARIANTS
    UniqueTransactionsAreInPool
CHECK_DEADLOCK FALSE
