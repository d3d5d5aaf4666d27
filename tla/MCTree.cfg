CONSTANTS
    me = me
    other = other
    Threads <- MCThreads
    KeyTexts <- MCKeys
    StringTexts <- MCStrings
    NumberTexts <- MCNumbers
    Booleans <- MCBooleans
    LongLongs <- MCLongLongs
    Doubles <- MCDoubles
    MaxNumber = 3
    MaxTold = 6
    MaxShared = 1
    MaxInner = 2
SPECIFICATION Spec
INVARIANTS
    TypeOK
    InternalErrorsImpossible
    Ownership
    NothingLeaks
    HoldsDocument
    GetFindsFirst
    LiveUnlessOverlap
    SameFunctions
    ResetOnReturn
CHECK_DEADLOCK FALSE
