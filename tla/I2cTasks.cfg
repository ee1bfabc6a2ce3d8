SPECIFICATION Spec
CONSTANTS
  t1 = t1
  t2 = t2
  NoTask = NoTask
  Task <- TwoTasks
  Transfers <- ShortTransfers
  Fifo = 1
  WorkLimit = 2
  BadStart = TRUE
INVARIANT OnlyOwnerWoken
PROPERTY TransferEnds
