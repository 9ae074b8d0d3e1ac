SPECIFICATION CSpec
CONSTANTS
    PageSize = 16
    Sizes <- MCSizes
    Capacities <- MCCapacities
    Caps = {0, 3}
    Pieces <- MCPieces
    Elements = {"u", "v"}
    BUILDER_DEFAULT_SIZE = 4
    LIST_DEFAULT_CAP = 3
    VALUE_SIZE = 2
INVARIANTS
    TypeOK
    ContentsKept
PROPERTIES
    ImplementsArena
CHECK_DEADLOCK FALSE
