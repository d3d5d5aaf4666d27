CONSTANTS
    Tables <- MCTables
    Settable <- MCSettable
    MaxDepth = 3
SPECIFICATION Spec
INVARIANTS
    TypeOK
    StackShape
    ControlOK
PROPERTIES
    ImplementsContract
    ErrorsStay
CHECK_DEADLOCK FALSE
