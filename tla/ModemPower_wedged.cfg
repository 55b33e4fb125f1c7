SPECIFICATION Spec
CONSTANTS
    RestartLimit = 1
    MaxAsks = 2
    MaxFaults = 1
    MaxSounds = 0
PROPERTIES
    OffConcludes
CHECK_DEADLOCK FALSE
