SPECIFICATION Spec
CONSTANTS
    t1 = t1
    t2 = t2
    t3 = t3
    A = A
    B = B
    C = C
    Threads = {t1, t2}
    Keys = {A, B}
    DataSlots = 2
    IndexSlots = 2
    Plans <- FillingPlans
    Nobody = Nobody
INVARIANTS
    ChainWhole
