SPECIFICATION Spec
CONSTANTS
    N = 3
    MFSSets <- EveryMFSSet
    TestLists <- OneOrSharing
INVARIANTS
    TypeOK
    KnowledgeSound
    ThrowsOnlyWithoutSafeValues
    SearchInvariant
    NothingLeftPending
PROPERTIES
    ConductReturns
    ImplementsIdentification
