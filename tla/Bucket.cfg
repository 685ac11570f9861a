SPECIFICATION FairSpecAlone
CONSTANTS
    t1 = t1
    t2 = t2
    t3 = t3
    A = A
    B = B
    C = C
    Threads = {t1, t2, t3}
    Keys = {A, B, C}
    DataSlots = 2
    IndexSlots = 2
    Plans <- MixedPlans
    Nobody = Nobody
INVARIANTS
    TypeOK
    ChainWhole
    IndexFinds
    FindsVersion
PROPERTIES
    OperationsEnd
