\* Six heap nodes and three keys, so that keys repeat; trees of three levels
\* with every rotation, by insertion and by erasure.
SPECIFICATION UseSpec
CONSTANTS
    Keys = {1, 2, 3, 4}
    Values = {a, b}
    Nothing = 0
    N = 4
    HeapKeys = {1, 2, 3}
    HeapSize = 6
SYMMETRY ValueSymmetry
CHECK_DEADLOCK FALSE
INVARIANTS
    HeapWellFormed
    TreeWellFormed
PROPERTIES
    ImplementsPriorityQueue
    ImplementsMap
    LogarithmicTime
    MergesInLogarithmicTime
