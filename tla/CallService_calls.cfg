CONSTANTS
    Id = {1, 2}
    LastSlot = 3
    QueueLen = 1
    Kinds = {"DIAL", "ABANDON", "HANGUP", "ANSWER", "WAIT_ANSWER", "SWAP"}
    Starts = {"talking"}
    MaxCalls = 2
    MaxAsked = 2
    MaxFaults = 1
    Faults = {"refuse", "miss", "timeout", "slow", "unheard"}
SPECIFICATION LiveSpec
INVARIANTS
    NeverResurrected
PROPERTIES
    BindsOwnCall
    PollNeverDropsLive
    Settles
\* An idle phone rests.
CHECK_DEADLOCK FALSE
