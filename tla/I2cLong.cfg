SPECIFICATION Spec
CONSTANTS
  t1 = t1
  t2 = t2
  NoTask = NoTask
  Task <- OneTask
  Transfers <- LongTransfers
  Fifo = 2
  WorkLimit = 4
  BadStart = FALSE
INVARIANTS DoneWhenClean CleanUnlessGivenUp InBuffer QuietWhenIdle
