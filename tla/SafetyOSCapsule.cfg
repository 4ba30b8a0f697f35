SPECIFICATION Spec
CONSTANTS
  a1 = a1
  a2 = a2
  a3 = a3
  Action = {a1, a2, a3}
  Score <- ScoreDef
  TimelineMax = 3
  Failing = {"teacher"}
INVARIANTS
  OutcomeHasCapsule
CHECK_DEADLOCK FALSE
