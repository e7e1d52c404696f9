SPECIFICATION Spec
CONSTANTS
    Conns = {"run1", "run2", "r1"}
    Writers = {"run1", "run2"}
    NumTables = 2
    Rows <- MCRows
    NumRows <- MCNumRows
    InitialFiles <- FilledFile
    IOErrors = TRUE
INVARIANTS
    RunAtomic
    RunsInv
