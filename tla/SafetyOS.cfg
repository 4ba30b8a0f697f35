SPECIFICATION Spec
CONSTANTS
  a1 = a1
  a2 = a2
  a3 = a3
  Action = {a1, a2, a3}
  Score <- ScoreDef
  TimelineMax = 3
  Failing = {"teacher", "audit_file", "learner"}
INVARIANTS
  TypeOK
  AuditedBeforeActing
  EveryDecisionAudited
  StoppedOnce
PROPERTIES
  EmergencyHolds
CHECK_DEADLOCK FALSE
