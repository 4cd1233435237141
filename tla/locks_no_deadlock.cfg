SPECIFICATION Spec
CONSTANTS
    t1 = t1
    t2 = t2
    t3 = t3
    Threads = {t1, t2, t3}
    Shards = 2
    Ops <- AllButSemanticInsert
SYMMETRY Symmetry
INVARIANTS
    TypeOK
    NoDeadlock
