SPECIFICATION FairSpec
CONSTANTS
    Conns = {"run"}
    Writers = {"run"}
    NumTables = 6
    Rows <- MCRows
    NumRows <- MCNumRows
    InitialFiles <- AnyFile
    IOErrors = FALSE
INVARIANT
    Overwritten
PROPERTY
    AloneSucceeds
