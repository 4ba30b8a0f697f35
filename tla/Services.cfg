SPECIFICATION ServicesSpec
CONSTANTS
  Chain = {c1, c2}
  Sub = {s1, s2, s3}
  OnceSub = {s2, s3}
  Wildcard = {s3}
  Emission = {m1, m2}
  MaxHistory = 1
  Item = {i1}
  EventType = {"pattern", "other"}
  Importance = {60, 85}
  Thread = {p1, p2}
  OtherName = {}
  MaxModules = 2
  MaxNested = 2
  CTask = {t1, t2}
  NoDecision = NoDecision
  Agent = {a1, a2}
  SubTask = {t1, t2}
  NoTask = NoTask
  MaxLeaks = 2
  Caller = {p1, p2}
  MaxContexts = 2
  MaxSignals = 1
  Emitter = {e1, e2}
  Gene = {g1}
  Amp = {10, 20}
  MaxEpisodes = 2
  Scores = {0, 81, 100}
  MaxEvaluations = 1
  Request = {r1, r2}
  Fusion = {0, 10}
INVARIANTS
  ServicesTypeOK
  OnceIsOver
  OneModulePerName
  AgentAccounts
  ContextsSound
  EpisodesAligned
  ApprovedNeverRejected
  PraiseIsEarned
PROPERTIES
  KeepsCatalog
  PromotionIsSafe
  StopReturns
CHECK_DEADLOCK FALSE
