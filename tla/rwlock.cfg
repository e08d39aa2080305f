SPECIFICATION FairSpec
CONSTANTS
    g1 = g1
    g2 = g2
    g3 = g3
    t1 = t1
    t2 = t2
    t3 = t3
    Guards <- ThreeGuards
    Owner <- OnePerThread
INVARIANTS
    LockInv
PROPERTIES
    ExclusionSpec
    Served
