SPECIFICATION Spec
CONSTANTS
    N = 3
    MFSSets <- EveryMFSSet
    TestLists <- OneOrTwoTests
INVARIANTS
    TypeOK
    TableSound
    WalksComplete
    SearchInvariant
    ThrowsOnlyWithoutSafeValues
PROPERTIES
    ImplementsIdentification
