CONSTANTS
    MaxDepth = 3
    UIntMax = 15
    DoubleTexts <- MCDoubles
    Strings <- MCStrings
    IndentStrings <- MCIndents
    MaxText = 6
SPECIFICATION CarelessSpec
INVARIANT CompleteMeansGenerated
CHECK_DEADLOCK FALSE
