SPECIFICATION AnsweringSpec
CONSTANTS
  Devices = {d1, d2}
  Loaders = {d2}
  Haps = {d2}
  Custom = {d1}
  Detection = detection
  Command = command
  Threads = {detection, command}
  RetryLimit = 1
  MaxPending = 2
INVARIANTS
  TypeOK
  SilentReceiver
  AnnouncedOnce
  AnnouncedIsReady
PROPERTIES
  EventuallyTyped
  EventuallyAnnounced
