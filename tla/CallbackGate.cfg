SPECIFICATION FairGateSpec
CONSTANTS
  LoopThreads = {io1, io2}
  Slots = {observer, info}
  Observer = observer
  MaxSessions = 3
INVARIANTS
  GateTypeOK
  QuiescentWhenCleared
  ScopedToSession
PROPERTIES
  NoCallbackStartsWhenStopped
  ClearReturns
