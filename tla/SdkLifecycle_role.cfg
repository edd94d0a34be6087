SPECIFICATION Spec
CONSTANTS
  Devices = {d1}
  Detection = detection
  Data = data
  Command = command
  Control = control
INVARIANTS
  ReceiverIsPassive
