SPECIFICATION ListSpec
CONSTANT N = 3
INVARIANTS
    ListIsExtremal
    ComplementKeepsAll
    getMHSIsMinimal
PROPERTIES
    AddIsSetAdd
