SPECIFICATION FairSpec
CONSTANTS
    w1 = w1
    w2 = w2
    w3 = w3
    p1 = p1
    p2 = p2
    Workers = {w1, w2, w3}
    Pages = {p1, p2}
    MaxTx = 2
INVARIANTS
    GateInv
    NoneDuringCheckpoint
    CheckpointComplete
    AllSavedAtExit
PROPERTIES
    ProgramEnds
