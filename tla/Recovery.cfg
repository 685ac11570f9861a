SPECIFICATION Spec
CONSTANTS
    w1 = w1
    w2 = w2
    A = A
    B = B
    h1 = h1
    h2 = h2
    Workers = {w1, w2}
    Keys = {A, B}
    Hashes = {h1, h2}
    Hashings <- AllHashings
    Slots = 2
    MaxFds = 3
    MaxPages = 2
    MaxRecords = 2
    MaxTx = 2
    MaxCheckpoints = 1
    MaxCrashes = 1
    Bad = Bad
    NoKey = NoKey
SYMMETRY Symmetry
CHECK_DEADLOCK FALSE
INVARIANTS
    TypeOK
    HistoryRestored
    NothingInPart
    LogIdsIncrease
    TransactionIdsNew
    NoAssertionFails
    HangsOnlyFor
PROPERTIES
    CommitsSurvive
