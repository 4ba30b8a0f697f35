SPECIFICATION Spec
CONSTANTS
  w1 = w1
  w2 = w2
  w3 = w3
  t1 = t1
  t2 = t2
  ta = ta
  tb = tb
  NoTask = NoTask
  Worker = {w1, w2, w3}
  Task = {t1, t2}
  Type = {ta, tb}
  TypeOf <- TypeOfDef
  Priority <- PriorityDef
  Born <- BornDef
  Handled = {ta}
  MaxWorkers = 1
  MaxAttempts = 2
  MaxStarts = 1
  Ops = {"create_agent", "destroy", "terminate"}
SYMMETRY WorkerSymmetry
INVARIANTS
  OneTaskPerWorker
  IdleMeansFree
  OvershootByOne
CHECK_DEADLOCK FALSE
