CONSTANTS
  None = None
  Cap = 1
  Limit = 1
  Down = 1
  Up = 0
  MaxFaults = 1
  MaxResets = 1
  MaxPlugs = 1
SPECIFICATION Spec
INVARIANTS
    StaysStopped
    FullIsEarned
    OneRearmPerFull
    DetachReleases
