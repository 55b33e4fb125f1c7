CONSTANTS
  a1 = a1  a2 = a2  b2 = b2  c1 = c1  c2 = c2  ctl = ctl  s1 = s1  t1 = t1  copy = copy
  Two = Two  Ctl = Ctl  Ctl1 = Ctl1  OneS = OneS  OneT = OneT
  Group <- MCGroup
  GroupOf <- MCGroupOf
  SeqOf <- MCSeqOf
  PartsOf <- MCPartsOf
  ControlGroup <- MCControlGroup
  Draft = Draft
  NoBody = NoBody
  Frag = {a2, b2, ctl}
  PartLimit = 2
  Copy = {copy}
  MaxId = 2
  QueueLimit = 2
  PendingLimit = 2
  MailboxLimit = 2
  MaxWall = 0
  TTL = 1
  Ops = {"SAVE", "DELETE"}
  Outcomes = {"ok", "lost", "late", "full"}
  MaxArrivals = 2
  MaxReceipts = 2
  MaxRequests = 1
  MaxFaults = 2
  MaxCuts = 1
  MaxRot = 0
SPECIFICATION Spec
INVARIANTS
    NoLoss
    IndexIsMedia
    SentOnce
PROPERTIES
    KeepsReceiptPromise
