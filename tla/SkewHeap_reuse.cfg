\* A push after a pop that freed a node in the middle of the pool.
SPECIFICATION Spec
CONSTANTS
    Keys = {1, 2, 3}
    Nothing = 0
    N = 3
PROPERTIES
    PushKeepsTheOthers
