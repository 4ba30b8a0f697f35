SPECIFICATION FairSpec
CONSTANTS
  Task = {t1, t2}
  NoTask = NoTask
  MaxRetries = 1
  MaxErrors = 2
  MaxHandOver = 2
INVARIANTS
  TypeOK
  RetryBudget
  OneLateStart
  EndsAnnounced
  RetryEntriesOwned
PROPERTIES
  KeepsLedger
  TasksServed
CHECK_DEADLOCK FALSE
