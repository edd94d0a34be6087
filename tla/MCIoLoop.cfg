SPECIFICATION FairSpec
CONSTANTS
  Detection = detection
  Data = data
  Command = command
  Control = control
  MaxTasks <- MCMaxTasks
INVARIANTS
  NoLostWakeup
  RunInOrder
  NoPostToStopped
PROPERTIES
  TaskQueueSpec
  StopReturns
  TaskRuns
