SPECIFICATION MCSpec
CONSTANTS
    Letters <- MCLetters
    Digits <- MCDigits
    Keyword <- MCKeyword
    DigitValue <- MCDigitValue
    MIN_MEM = 12
    STACK_SIZE = 4
    INT64_MAX = 127
    UINT64_MAX = 255
    PAGE_SIZE = 4
INVARIANTS
    TypeOK
    LexemesMaximal
    StaysInTokens
    Unparses
    AcceptsBalanced
    TreesFit
    NumbersExact
PROPERTIES
    Terminates
CHECK_DEADLOCK FALSE
