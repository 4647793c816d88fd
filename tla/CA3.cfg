SPECIFICATION Spec
CONSTANTS
    N = 3
    MFSSets <- AnyValuesOrConflicting
    tables <- TablesOfThree
    MaxResets = 0
INVARIANT
    EveryFaultIsShown
CHECK_DEADLOCK FALSE
