SPECIFICATION Spec
CONSTANTS
    N = 4
    MFSSets <- AnyValuesOrConflicting
    tables <- TablesOfFour
    MaxResets = 1
INVARIANTS
    TypeOK
    EveryFaultIsShown
    FullRecall
    StopsOnlyWhenStable
PROPERTIES
    ConductReturns
CHECK_DEADLOCK FALSE
