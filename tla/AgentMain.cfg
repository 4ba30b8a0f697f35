SPECIFICATION FairSpec
CONSTANTS
  safety = safety
  g1 = g1
  g2 = g2
  l1 = l1
  l2 = l2
  u = u
  c1 = c1
  x1 = x1
  None = None
  Proc = {l1, l2, u}
  User = u
  Caller = {u, c1}
  Key = {safety}
  Goal = {g1}
  Subject = {x1}
  One = 10000
  Threshold = 500
  MaxStep = 500
  Grain = 10
  Rate = 10
  DefaultCur <- CurDef
  DefaultTgt <- TgtDef
  Taught = {12000}
  MaxLog = 3
  KeepLog = 2
  DiskLog = 1
  MaxEvents = 2
  Topic = {x1}
  AutoLike = {}
  Every <- EveryDef
  Period = 1
  Raising = {"question", "explore", "sync"}
  Ops <- OpsDef
INVARIANTS
  TypeOK
  LogNeverAhead
  FileHoldsMemory
  OverlapIsOwed
PROPERTIES
  EvolveApproaches
  LoopKeepsUp
CHECK_DEADLOCK FALSE
