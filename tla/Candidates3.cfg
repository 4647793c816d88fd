SPECIFICATION MethodSpec
CONSTANTS
    N = 3
    MFSSets <- EveryMFSSet
    TestLists <- OneOrSharing
    ComFILTests <- OneTest
    PassSets <- NoOrSomePassing
INVARIANTS
    ComFILKeepsFaults
    ComFILIsExact
    IterAIFLKeepsFaults
    IterAIFLCoversFaults
