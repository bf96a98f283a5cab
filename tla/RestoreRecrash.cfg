SPECIFICATION RestoreSpec
CONSTANT MaxFaults = 2
CHECK_DEADLOCK FALSE
INVARIANT LeavesOldOrNewData
