CONSTANTS
    Texts <- MCTexts
    MaxChunk = 3
SPECIFICATION Spec
INVARIANTS
    TypeOK
    CursorOK
    TrailOK
    TokensAreLexemes
    LexemesAreTokens
    PositionTrue
PROPERTIES
    ImplementsStream
    ReplayNeverEnds
CHECK_DEADLOCK FALSE
