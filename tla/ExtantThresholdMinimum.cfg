\* One witness; -p 0.6 and 25 variation units are among the choices.
SPECIFICATION Spec
CONSTANTS
    NumWits = 1
    Sizes <- MCSizes
    Hundredths <- MCHundredths
INVARIANT
    MinimumIncluded
