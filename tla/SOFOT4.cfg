SPECIFICATION Spec
CONSTANTS
    N = 4
    MFSSets <- EveryMFSSet
    TestLists <- OneOrTwoTests
INVARIANTS
    ReportsCommonPart
    NothingUnrelated
