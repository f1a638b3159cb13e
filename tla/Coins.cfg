SPECIFICATION Spec
CONSTANTS
    Absent = Absent
    NULL = NULL
    NoUndo = NoUndo
    Block <- MCBlock
    Genesis = "g"
    Prev <- MCPrev
    Height <- MCHeight
    Vtx <- MCVtx
    TxId <- MCTxId
    BadScript = {"t7"}
    COINBASE_MATURITY = 1
    MAX_MONEY = 100
    Subsidy <- MCSubsidy
    FirstFeeHeight = 3
INVARIANTS
    CoinsMatchChain
    VerdictByChain
    VerifyDBPasses
    NoInflation
