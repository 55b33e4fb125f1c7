SPECIFICATION Spec
CONSTANTS
    RestartLimit = 1
    MaxAsks = 3
    MaxFaults = 2
    MaxSounds = 1
INVARIANTS
    IntentKept
PROPERTIES
    Converges
    SupplyHeld
    RestartsFromCold
CHECK_DEADLOCK FALSE
