\* Every referring field on its own, chains, lists and selectors with two matches.
SPECIFICATION FairSpec
CONSTANTS
    a = a
    b = b
    c = c
    Resources = {a, b, c}
    Setups <- MCSetups
    Raw = Raw
    NoId = NoId
    NoObject = NoObject
    MaxGen = 2
    MaxEdits = 2
INVARIANTS
    TypeOK
    CreatedResolved
PROPERTIES
    OnlyEmptyIsFilled
    ComesUp
    AlwaysFollows
    DeletionCompletes
CHECK_DEADLOCK FALSE
