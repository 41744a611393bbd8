\* A session whose messages were all sent in time, and its output deadline.
SPECIFICATION Safety
CONSTANTS
    Sessions = {s1}
    Messages = {m1}
    Heartbeat = Heartbeat
    Broadcaster = Broadcaster
    Timeout = 2
    MaxPosts = 1
PROPERTIES
    OutputDeadlineIsForSending
