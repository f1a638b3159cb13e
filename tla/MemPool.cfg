SPECIFICATION Spec
CONSTANTS
    NULL = NULL
    Block <- MCBlock
    Genesis = "g"
    Prev <- MCPrev
    Height <- MCHeight
    Vtx <- MCVtx
    TxId <- MCTxId
    BadScript = {}
    COINBASE_MATURITY = 1
    MAX_MONEY = 100
    Subsidy <- MCSubsidy
    FirstFeeHeight = 1
    Tx <- MCTx
    NonStandard = {}
    LowFee = {"t4"}
    WalletTx = {"t1", "t2"}
    VtxPrev <- MCVtxPrev
    MEMPOOL_HEIGHT = 1000
    MAX_ORPHAN_TRANSACTIONS = 2
INVARIANTS
    PoolIndexed
    
    OrphanIndex
    BlockConnects
    NothingHeldBack
PROPERTIES
    OrphansSettled
