SPECIFICATION Spec
CONSTANTS
    JUDYL = TRUE
    RootLevel = 3
    Base = 5
    Index <- MCIndexEdge
    LEAF_MAXPOP1 <- MCLeafMax
    IMMED_MAXPOP1 <- MCImmedMaxL
    BRANCHLMAXJPS = 2
    BRANCHL_MAX_POP = 5
    BRANCHB_MIN_POP = 4
    SUBEXP_B = 2
    GROUP8 = 2
    OCTANT = 2
    EFF_OFFSET = 0
    EFF_LIMIT = 700
    LeafWords <- MCLeafWords
    JVWords <- MCJVWords
    BJPWords <- MCBJPWords
    JBLWords = 4
    JBBWords = 3
    JBUWords = 8
    JLB1UWords = 6
    JPMWords = 4
    Value = {0}
    Calls = {}
    FailSites = {}
    MaxFail = 0
    NoKey = NoKey
    KEYS_PER_WORD = 2
    JPS_PER_LINE = 1
    SUBEXP_L = 2
    STORED <- MCStoredWide
    Probe <- MCProbeEdge
INVARIANTS
    EmptyAbsent
