CONSTANTS
    Clients <- MCClients
    ChunkSizes = {0, 1, 2, 3}
    OutOfRange <- MCOutOfRange
    Tables <- ClientTables
    Settable <- MCSettable
    MaxDepth = 8
SPECIFICATION Spec
INVARIANTS
    TypeOK
    AcceptsJson
    RejectsOthers
    ConsumedInChunk
PROPERTIES
    ImplementsParser
    CallsReturn
CHECK_DEADLOCK FALSE
