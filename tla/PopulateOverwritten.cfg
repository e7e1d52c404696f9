SPECIFICATION Spec
CONSTANTS
    Conns = {"run", "r1"}
    Writers = {"run"}
    NumTables = 6
    Rows <- MCRows
    NumRows <- MCNumRows
    InitialFiles <- FilledFile
    IOErrors = FALSE
INVARIANT Overwritten
