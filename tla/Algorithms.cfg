\* Seven elements and three keys: heaps of three levels, equal keys, ranges cut
\* at every place; and hash() at every length where the padding turns over.
SPECIFICATION MCSpec
CONSTANTS
    N = 7
    Keys = {1, 2, 3}
    k_ = 2
    Depth = 1
CHECK_DEADLOCK FALSE
INVARIANTS
    SortsTheInput
    StaysInside
    VisitsInOrder
    TakesTheLargest
    DigestMatches
PROPERTIES
    EverySortEnds
