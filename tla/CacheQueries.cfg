\* Every apparatus of the set, with and without -t, and every tool with every
\* combination of its options.
SPECIFICATION Spec
CONSTANTS
    Apparatuses <- MCApparatuses
    Thresholds = {0, 2}
    WitIds = {"a", "b", "q"}
    UnitIds = {"u", "v", "q"}
    Exclusions <- MCExclusions
    Proportions = {0, 50, 100}
    Secondaries <- MCSecondaries
    Passages <- MCPassages
    ReadingSets <- MCReadingSets
INVARIANTS
    IInv
    TablesAgree
    UnitsRoundTrip
    ListMatchesComparisons
    SecondariesCompared
    DiagnosisExact
    Enumerated
    FilteredOnce
