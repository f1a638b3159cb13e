SPECIFICATION Spec
CONSTANTS
    g = g
    a1 = a1
    a2 = a2
    b1 = b1
    b2 = b2
    b3 = b3
    x3 = x3
    x4 = x4
    h = h
    NULL = NULL
    Block <- MCBlock
    Genesis = g
    Prev <- MCPrev
    Work <- MCWork
    Hash <- MCHash
    BadHeader = {h}
    Invalid = {x3}
    MaxFaults = 2
INVARIANTS
    MainChainLinked
    BestChainValid
    CandidatesRight
    FailedSound
    UndoAvailable
    
    
    InvalidWorkCovers
PROPERTIES
    BestWorkGrows
