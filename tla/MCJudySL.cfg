SPECIFICATION FairSpec
CONSTANTS
    WORDSIZE = 2
    Strings <- MCStrings
    Value = {0, 1}
    Calls = {"Free", "Del", "Store"}
    MaxFail = 1
    NoLeaf = NoLeaf
INVARIANTS
    TypeOK
    AssertsHold
    WellFormed
    HeapExact
    GetAgrees
    NeighboursExactAlive
PROPERTIES
    MapSpec
    CallReturns
CHECK_DEADLOCK FALSE
