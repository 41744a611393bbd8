\* Fill the queue, pop one element and push another.
SPECIFICATION Spec
CONSTANTS
    Values = {a, b}
    Nothing = Nothing
    Raw = Raw
    N = 3
    Trivial = TRUE
CHECK_DEADLOCK FALSE
INVARIANTS
    ConstructsInsideBuffer
