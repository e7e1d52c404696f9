SPECIFICATION FairSpec
CONSTANTS
    NumWits = 4
    HardwareConcurrency = 3
INVARIANTS
    BuiltOnce
    NoneLost
    AllInitialised
    IInv
PROPERTIES
    Implements
    PoolTerminates
