CONSTANTS
    MaxDepth = 3
    UIntMax = 15
    InitSize = 3
    SizeMax = 1024
    Raws <- MCRaws
    FewRaws <- MCFewRaws
    Offsets <- MCOffsets
    MaxTold = 4
SPECIFICATION Spec
INVARIANTS
    TypeOK
    ErrorRenders
    ExitTrue
    BufferHolds
    RefusedRightly
    WrittenAll
    SameDocument
CHECK_DEADLOCK FALSE
