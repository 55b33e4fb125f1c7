SPECIFICATION Spec
CONSTANTS
    StreakLimit = 2
    MaxUnits = 1
    MaxStalls = 1
    MaxFaults = 0
    NotedPhases = {"main"}
INVARIANT Excludes
