SPECIFICATION FairSpec
CONSTANTS
  Devices = {d1, d2}
  Detection = detection
  Data = data
  Command = command
  Control = control
INVARIANTS
  CleanWhenDown
  StateOutlivesUsers
PROPERTIES
  CollectionStopped
  CallsReturn
