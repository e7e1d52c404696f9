\* Three witnesses, failures anywhere, fair scheduling.
SPECIFICATION FairSpec
CONSTANTS
    NumWits = 3
    Options <- MCOptions
INVARIANTS
    IInv
    BuiltFromAll
PROPERTIES
    NoLateWrite
    OldGraphKept
    KeepsPromise
    StemmaEnds
