\* One session against a silent, slow, talkative or failing client.
SPECIFICATION Spec
CONSTANTS
    Sessions = {s1}
    Messages = {m1, m2}
    Heartbeat = Heartbeat
    Broadcaster = Broadcaster
    Timeout = 2
    MaxPosts = 2
PROPERTIES
    BroadcastsInOrder
    ImplementsBroadcast
    StoppedSessionIsDestroyed
