\* Two witnesses extant anywhere, up to 25 variation units, all proportions.
SPECIFICATION Spec
CONSTANTS
    NumWits = 2
    Sizes <- MCSizes
    Hundredths <- MCHundredths
INVARIANTS
    IInv
    FragmentaryExcluded
    OnlyBoundaryLost
