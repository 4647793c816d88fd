SPECIFICATION Spec
CONSTANTS
    N = 4
    MFSSets <- FourParamMFSSets
    TestLists <- OneTestList
INVARIANTS
    ExactIdentification
    CalleeIsPending
PROPERTIES
    EveryRoundSettles
