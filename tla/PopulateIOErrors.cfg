SPECIFICATION Spec
CONSTANTS
    Conns = {"run", "r1"}
    Writers = {"run"}
    NumTables = 5
    Rows <- MCRows
    NumRows <- MCNumRows
    InitialFiles <- FilledFile
    IOErrors = TRUE
INVARIANT
    TableAtomic
PROPERTIES
    KeepsPromise
    NothingUndone
