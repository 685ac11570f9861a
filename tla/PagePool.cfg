SPECIFICATION FairSpec
CONSTANTS
    t1 = t1
    t2 = t2
    h = h
    a = a
    b = b
    c = c
    d = d
    Threads = {t1, t2}
    Pages = {h, a, b, c, d}
    Files <- MCFiles
    FileOf <- MCFileOf
    Headers = {h}
    NFrames = 3
    MaxFds = 3
    MaxPins = 1
    MaxChanges <- MCChanges
    Free = Free
    Nobody = Nobody
INVARIANTS
    TypeOK
    Bookkeeping
    NeverExhausted
    PinsStay
    NothingLost
PROPERTIES
    LogBeforeData
    GetReturns
