CONSTANTS
    Texts <- CommentTexts
    MaxChunk = 3
SPECIFICATION Spec
INVARIANT LinesCounted
CHECK_DEADLOCK FALSE
