SPECIFICATION Spec
CONSTANT
    Tables <- MCTables
INVARIANTS
    ObjectFits
    GrowsInPlace
\* A program that has written its table stops.
CHECK_DEADLOCK FALSE
