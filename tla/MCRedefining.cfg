SPECIFICATION Spec
CONSTANTS
    IntBits = 8
    ToDouble <- MCToDouble
    DoubleOp <- MCDoubleOp
    DoubleEq <- MCDoubleEq
    Nodes <- MCNodes
    Programs <- Redefining
    Tokens <- MCTokens
    LitValue <- MCLitValue
    Bucket <- MCBucket
    VarHash <- MCVarHash
    FnHash <- MCFnHash
    MAX_BUILTIN_SIZE = 13
    VARIABLE_TABLE_SIZE = 3
    GLOBAL_SIZE = 9
    REGISTERS = 6
    BYTECODE_SIZE = 36
    PREALLOCATE_FREELIST_SIZE = 2
INVARIANTS
    CallsCompleted
CHECK_DEADLOCK FALSE
