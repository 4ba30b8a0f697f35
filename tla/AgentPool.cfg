SPECIFICATION Spec
CONSTANTS
  w1 = w1
  w2 = w2
  w3 = w3
  t1 = t1
  t2 = t2
  ta = ta
  tb = tb
  NoTask = NoTask
  Worker = {w1, w2, w3}
  Task = {t1, t2}
  Type = {ta, tb}
  TypeOf <- TypeOfDef
  Priority <- PriorityDef
  Born <- BornDef
  Handled = {ta}
  MaxWorkers = 1
  MaxAttempts = 1
  MaxStarts = 2
  Ops = {"destroy", "terminate", "stop", "clean"}
SYMMETRY WorkerSymmetry
INVARIANTS
  TypeOK
  RegistriesAgree
  DestroyedWaitForNothing
  PoolBounded
CHECK_DEADLOCK FALSE
