SPECIFICATION Spec
CONSTANTS
    JUDYL = TRUE
    RootLevel = 3
    Base = 5
    Index <- MCIndex
    LEAF_MAXPOP1 <- MCLeafMax
    IMMED_MAXPOP1 <- MCImmedMaxL
    BRANCHLMAXJPS = 2
    BRANCHL_MAX_POP = 5
    BRANCHB_MIN_POP = 4
    SUBEXP_B = 2
    GROUP8 = 2
    OCTANT = 2
    EFF_OFFSET = 0
    EFF_LIMIT = 700
    LeafWords <- MCLeafWords
    JVWords <- MCJVWords
    BJPWords <- MCBJPWords
    JBLWords = 4
    JBBWords = 3
    JBUWords = 8
    JLB1UWords = 6
    JPMWords = 4
    Value = {0}
    Calls = {}
    FailSites = {"Leaf", "JV"}
    MaxFail = 1
    NoKey = NoKey
    KEYS_PER_WORD = 2
INVARIANTS
    InsertedIsFound
CHECK_DEADLOCK FALSE
