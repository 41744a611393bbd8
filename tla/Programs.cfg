\* One HTTP client of three requests; a buffer that takes two readings to empty
\* what the client sent; up to three writes; three pings of four characters; a
\* stack that fills up; four objects of a singleton in calls nested three deep.
SPECIFICATION Spec
CONSTANTS
    Sessions = {s1}
    Requests <- MCRequests
    Timeout = 2
    MaxRequests = 3
    BufferSize = 2
    MaxOctets = 4
    MaxCount = 3
    Length = 4
    NUM_PINGS = 3
    Values = {a, b}
    None = None
    Raw = Raw
    StackSize = 3
    MaxObjects = 4
    MaxFrames = 3
CHECK_DEADLOCK FALSE
INVARIANTS
    EchoesInOrder
    PongsMatchPings
    EveryObjectIsOwned
PROPERTIES
    AnswersInOrder
    EveryOperationEnds
    ImplementsRepeatedWrite
    ImplementsLifo
