SPECIFICATION Spec
CONSTANTS
    N = 6
    MFSSets <- WholeTestMFS
    TestLists <- OneTestList
INVARIANTS
    ExactIdentification
