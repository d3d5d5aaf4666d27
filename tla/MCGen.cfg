CONSTANTS
    MaxDepth = 3
    UIntMax = 15
    DoubleTexts <- MCDoubles
    Strings <- MCStrings
    IndentStrings <- MCIndents
    MaxText = 6
SPECIFICATION Spec
INVARIANTS
    TypeOK
    Nesting
    AlwaysJson
PROPERTIES
    RefusedLeavesNoTrace
    RefusalsRight
CHECK_DEADLOCK FALSE
