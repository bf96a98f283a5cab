SPECIFICATION InterruptedSpec
CONSTANTS
  Messages = {m1}
  NoMessage = NoMessage
  Workers = {w1, w2}
  BatchSize = 1
  Lease = 2
  MaxAttempts = 2
  MaxRetry = 1
  PurgeAge = 1
  Lifetimes = {3}
  MaxTime = 6
  MaxFaults = 1
CHECK_DEADLOCK FALSE
INVARIANTS
  LeavesOldOrNewData
  OldDataKept
PROPERTIES
  SettledStays
  EverySettles
  Finishes
