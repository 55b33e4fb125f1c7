CONSTANTS
  f = f  g = g  c = c
  Frag = {f, g, c}
  Control = {c}
  Capacity = 2
  Empty = Empty
  MaxArrivals = 2
  MaxTrouble = 2
SPECIFICATION FairSpec
INVARIANTS TypeOK ReceiptIsCurrent WireIsExpected NothingStranded
PROPERTIES DeletedIsStored Recovered
