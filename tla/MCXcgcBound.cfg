SPECIFICATION Spec
CONSTANTS
    Sizes <- MCSizes
    Capacities <- MCCapacities
INVARIANTS
    BlocksInHeap
CHECK_DEADLOCK FALSE
