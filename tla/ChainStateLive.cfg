SPECIFICATION FairSpec
CONSTANTS
    g = g
    a1 = a1
    a2 = a2
    b1 = b1
    b2 = b2
    b3 = b3
    x3 = x3
    x4 = x4
    h = h
    NULL = NULL
    Block <- MCSmallBlock
    Genesis = g
    Prev <- MCPrev
    Work <- MCWork
    Hash <- MCHash
    BadHeader = {}
    Invalid = {x3}
    MaxFaults = 1
PROPERTIES
    HandlerReturns
    
