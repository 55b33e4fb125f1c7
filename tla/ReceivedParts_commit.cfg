CONSTANTS
    a1 = a1  a2 = a2  b2 = b2  g1 = g1  p1 = p1  p2 = p2  r2 = r2  q1 = q1
    A = A  G = G  P = P  Q = Q
    Missing = Missing  Damaged = Damaged
    Part = {a1, a2, b2, q1}
    Tones <- MCTones
    Message <- MCMessage
    MessageOf <- MCMessageOf
    SeqOf <- MCSeqOf
    StampOf <- MCStampOf
    TotalOf <- MCTotalOf
    Garbled = {G}
    Factory <- MCFactory
    Units = 3
    FailLimit = 2
    MayBeDamaged = {1}
    MayDie = {2}
    Outcome = {"ok", "lost", "late", "busy", "busyLate"}
    MaxFaults = 2
    MaxArrivals = 3
    MaxSets = 1
SPECIFICATION FairSpec
INVARIANTS
    ProofIsDurable
    Endurance
PROPERTIES
    KeepsRecords
    Persists
CHECK_DEADLOCK FALSE
