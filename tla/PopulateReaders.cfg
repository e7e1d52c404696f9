SPECIFICATION Spec
CONSTANTS
    Conns = {"run", "r1", "r2"}
    Writers = {"run"}
    NumTables = 6
    Rows <- MCRows
    NumRows <- MCNumRows
    InitialFiles <- FilledFile
    IOErrors = FALSE
INVARIANTS
    OneTableInFlight
    ExitKeepsFirst
    IInv
PROPERTIES
    KeepsPromise
