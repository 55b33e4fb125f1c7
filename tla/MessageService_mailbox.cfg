CONSTANTS
  a1 = a1  a2 = a2  b2 = b2  c1 = c1  c2 = c2  ctl = ctl  s1 = s1  t1 = t1  copy = copy
  Two = Two  Ctl = Ctl  Ctl1 = Ctl1  OneS = OneS  OneT = OneT
  Group <- MCGroup
  GroupOf <- MCGroupOf
  SeqOf <- MCSeqOf
  PartsOf <- MCPartsOf
  ControlGroup <- MCControlGroup
  Draft = Draft
  NoBody = NoBody
  Frag = {s1, c1, c2}
  PartLimit = 2
  Copy = {}
  MaxId = 2
  QueueLimit = 2
  PendingLimit = 2
  MailboxLimit = 1
  MaxWall = 2
  TTL = 1
  Ops = {"DELETE"}
  Outcomes = {"ok", "lost", "late"}
  MaxArrivals = 3
  MaxReceipts = 0
  MaxRequests = 1
  MaxFaults = 1
  MaxCuts = 1
  MaxRot = 1
SPECIFICATION Spec
INVARIANTS
    InboxWhole
    StaysDeleted
PROPERTIES
    FilesKept
