SPECIFICATION FairSpec
CONSTANTS
    t1 = t1
    t2 = t2
    t3 = t3
    A = A
    B = B
    C = C
    Tx = {t1, t2}
    Keys = {A, C}
    NoTx = NoTx
    Absent = Absent
    DynIds <- MCDynIds
    Workloads <- ReadOfInsert
    Initial <- MCInitial
PROPERTIES
    ReadsReturn
