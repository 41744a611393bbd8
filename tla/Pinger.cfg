\* Three sequence numbers and six requests: replies may outlive the next
\* request, and sequence numbers repeat.
SPECIFICATION Spec
CONSTANTS
    Modulus = 3
    Timeout = 3
    Interval = 1
    Lifetime = 3
    MaxRequests = 6
    MaxReplies = 2
CHECK_DEADLOCK FALSE
INVARIANTS
    CountsTheExpectedReply
PROPERTIES
    RequestsAreSpaced
    ReportsOnlyTimeouts
    KeepsPinging
