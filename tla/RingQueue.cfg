\* Three allocated slots: every position of head_ and tail_, full and empty.
SPECIFICATION Spec
CONSTANTS
    Values = {a, b}
    Nothing = Nothing
    Raw = Raw
    N = 3
    Trivial = TRUE
CHECK_DEADLOCK FALSE
INVARIANTS
    WalksOverTheLive
PROPERTIES
    ImplementsFifo
