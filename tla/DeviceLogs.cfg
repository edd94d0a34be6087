SPECIFICATION FairSpec
CONSTANTS
  Devices = {d1}
  Types = {0}
  LastBlock = 3
  MaxFiles = 2
  Quota = 2
  MaxFaults = 1
  MaxSessions = 1
INVARIANTS InOrder AckedIsKept OldestFirst
PROPERTY StopReturns
CHECK_DEADLOCK FALSE
