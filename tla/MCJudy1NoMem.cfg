SPECIFICATION Spec
CONSTANTS
    JUDYL = FALSE
    RootLevel = 3
    Base = 5
    Index <- MCIndexMost
    LEAF_MAXPOP1 <- MCLeafMaxLow
    IMMED_MAXPOP1 <- MCImmedMax1
    BRANCHLMAXJPS = 2
    BRANCHL_MAX_POP = 5
    BRANCHB_MIN_POP = 4
    SUBEXP_B = 2
    GROUP8 = 2
    OCTANT = 2
    EFF_OFFSET = 0
    EFF_LIMIT = 700
    LeafWords <- MCLeafWords
    JVWords <- MCJVWords
    BJPWords <- MCBJPWords
    JBLWords = 4
    JBBWords = 3
    JBUWords = 8
    JLB1UWords = 6
    JPMWords = 4
    Value = {0}
    Calls = {"Del"}
    FailSites = {"JLL8", "JPM", "Cascade8", "Leaf", "Cascade", "JLB1U", "JBU", "JBB", "JBBJP", "JV"}
    MaxFail = 2
    NoKey = NoKey
    KEYS_PER_WORD = 2
INVARIANTS
    WellFormed
PROPERTIES
    KeysKept
CHECK_DEADLOCK FALSE
