SPECIFICATION Spec
CONSTANTS
    Sizes <- MCSizes
    Capacities <- MCCapacities
INVARIANTS
    TypeOK
    BlocksDisjoint
CHECK_DEADLOCK FALSE
