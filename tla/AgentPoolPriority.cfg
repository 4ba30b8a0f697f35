SPECIFICATION Spec
CONSTANTS
  w1 = w1
  w2 = w2
  w3 = w3
  t1 = t1
  t2 = t2
  ta = ta
  tb = tb
  NoTask = NoTask
  Worker = {w1, w2}
  Task = {t1, t2}
  Type = {ta, tb}
  TypeOf <- TypeOfDef
  Priority <- MixedPriorityDef
  Born <- BornDef
  Handled = {ta}
  MaxWorkers = 2
  MaxAttempts = 1
  MaxStarts = 1
  Ops = {}
PROPERTIES
  MostUrgentFirst
CHECK_DEADLOCK FALSE
