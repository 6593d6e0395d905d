SPECIFICATION Spec
CONSTANTS
    WORDSIZE = 2
    HASHES = 16777216
    Strings <- MCStrings
    Value = {0, 1}
    Calls = {"Free", "Del", "Store"}
    MaxFail = 1
    NoLeaf = NoLeaf
INVARIANTS
    WellFormed
    SplitIsApart
    HeapExact
    GetAgrees
PROPERTIES
    MapSpec
CHECK_DEADLOCK FALSE
