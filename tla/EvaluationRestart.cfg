SPECIFICATION Spec
CONSTANTS
    METHODS <- TwoMethods
    SUTS <- OneSubject
    KEY_LISTS <- TwoKeys
    REPEAT_NUM = 2
    Omitted <- BENOmits
    MaxStops = 1
INVARIANT
    EachRunProducesJson
