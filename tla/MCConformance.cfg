SPECIFICATION MCSpec
CONSTANTS
    IntBits = 8
    INT64_MAX = 127
    UINT64_MAX = 255
    ToDouble <- MCToDouble
    DoubleOp <- MCDoubleOp
    DoubleEq <- MCDoubleEq
    DoubleOf <- MCDoubleOf
    DigitValue <- MCDigitValue
    Digits <- MCDigits
    Letters <- MCLetters
    Keyword <- MCKeyword
    LitHash <- MCLitHash
    VarHash <- MCVarHash
    FnHash <- MCFnHash
    NameHash <- MCNameHash
    Helping <- MCHelping
    Numeral <- MCNumeral
    Files <- MCFiles
    Lines <- StraightLines
    MAX_BUILTIN_SIZE = 13
    VARIABLE_TABLE_SIZE = 3
    GLOBAL_SIZE = 16
    REGISTERS = 6
    BYTECODE_SIZE = 60
    PREALLOCATE_FREELIST_SIZE = 2
    MIN_MEM = 12
    STACK_SIZE = 8
    SIX_MAX_REST = 3
    PAGE_SIZE = 16
    KB = 4
    SizeBits = 10
    MMAP_LIMIT = 500
    GC_MIN_HEAP = 100
    FRAME_SIZE = 16
INVARIANTS
    ResultAgrees
    LastOneWins
PROPERTIES
    Terminates
CHECK_DEADLOCK FALSE
