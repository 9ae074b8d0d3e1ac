SPECIFICATION MainSpec
CONSTANTS
    IntBits = 8
    ToDouble <- MCToDouble
    DoubleOp <- MCDoubleOp
    DoubleEq <- MCDoubleEq
    Nodes <- MCNodes
    Programs <- MCPrograms
    Tokens <- MCTokens
    LitValue <- MCLitValue
    Bucket <- MCBucket
    VarHash <- MCVarHash
    FnHash <- MCFnHash
    MAX_BUILTIN_SIZE = 13
    VARIABLE_TABLE_SIZE = 3
    GLOBAL_SIZE = 12
    REGISTERS = 6
    BYTECODE_SIZE = 60
    PREALLOCATE_FREELIST_SIZE = 2
INVARIANTS
    MachineTypeOK
    FramesPartitioned
    CallsNested
    LeavesInsideCalls
    ArgCountFresh
PROPERTIES
    ImplementsScopes
    Terminates
CHECK_DEADLOCK FALSE
