CONSTANTS
    Clients <- FewClients
    ChunkSizes = {1, 7}
    OutOfRange <- MCOutOfRange
    Tables <- ClientTables
    Settable <- MCSettable
    MaxDepth = 8
SPECIFICATION Spec
INVARIANT ColumnCounts
CHECK_DEADLOCK FALSE
