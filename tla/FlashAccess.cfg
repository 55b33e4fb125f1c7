SPECIFICATION FairSpec
CONSTANTS
    StreakLimit = 2
    MaxUnits = 2
    MaxStalls = 1
    MaxFaults = 1
    NotedPhases = {"main"}
INVARIANTS
    TypeOK
    HeldUnlessRaced
    AudioAsFound
    LeaseMatches
    EvidenceIsTrue
PROPERTIES
    PausesEnd
