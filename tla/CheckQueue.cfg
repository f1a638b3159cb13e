SPECIFICATION FairSpec
CONSTANTS
    w1 = w1
    w2 = w2
    m = m
    Worker <- MCWorker
    Master = m
    nBatchSize = 2
    MaxBlocks = 2
    MaxChecks = 4
    MaxFailing = 1
    MaxSpurious = 1
    Interruptible = TRUE
CHECK_DEADLOCK FALSE
INVARIANTS
    Accounting
PROPERTIES
    KeepsPromise
