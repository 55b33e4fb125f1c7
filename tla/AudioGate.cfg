SPECIFICATION FairSpec
CONSTANTS
    QueueLen = 2
    MaxNaks = 1
    MaxAborts = 1
    MaxPosts = 3
INVARIANTS
    Audible
    RailHeld
PROPERTIES
    Settles
CHECK_DEADLOCK FALSE
