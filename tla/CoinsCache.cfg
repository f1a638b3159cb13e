SPECIFICATION ViewsSpec
CONSTANTS
    t1 = t1
    t2 = t2
    c1 = c1
    c2 = c2
    p = p
    b1 = b1
    b2 = b2
    Absent = Absent
    NULL = NULL
    TxId <- MCTxId
    CCoins <- MCCCoins
    Pruned <- MCPruned
    Block <- MCBlock
PROPERTIES
    StoreSpec
