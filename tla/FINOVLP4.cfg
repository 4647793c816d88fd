SPECIFICATION MethodSpec
CONSTANTS
    N = 4
    MFSSets <- EveryMFSSet
    TestLists <- OneOrTwoTests
INVARIANTS
    FixedIsSettled
    FICLocatedIsNeeded
    FICBSSameAsFIC
PROPERTIES
    ImplementsNonOverlapping
