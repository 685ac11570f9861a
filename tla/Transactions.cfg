SPECIFICATION MCSpec
CONSTANTS
    t1 = t1
    t2 = t2
    t3 = t3
    A = A
    B = B
    C = C
    Tx = {t1, t2, t3}
    Keys = {A, B, C}
    NoTx = NoTx
    Absent = Absent
    DynIds <- MCDynIds
    Workloads <- AllWorkloads
    Initial <- MCInitial
INVARIANTS
    TypeOK
    LockInv
    WriteExclusion
    WaitersHoldNothing
    NoWaitCycle
    VersionsOrdered
    CrashesOnlyFor
PROPERTIES
    ImplementsSnapshotIsolation
    EveryTransactionEnds
