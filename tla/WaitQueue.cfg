SPECIFICATION FairSpec
CONSTANTS
    i1 = i1
    i2 = i2
    w1 = w1
    w2 = w2
    w3 = w3
    Ids = {i1, i2}
    Waiters = {w1, w2, w3}
    NoId = NoId
    MaxCalls = 2
INVARIANTS
    QueueInv
    NoUseAfterFree
PROPERTIES
    ImplementsWaitTable
    EveryQueueFreed
