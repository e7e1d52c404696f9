SPECIFICATION CacheSpec
CONSTANTS
    Conns = {"run", "t1"}
    Writers = {"run"}
    NumTables = 6
    Rows <- MCRows
    NumRows <- MCNumRows
    InitialFiles <- FilledFile
    IOErrors = FALSE
    Tools <- AllTools
INVARIANTS
    ReadsWhole
    MonotoneReads
    QuietReads
    CacheInv

