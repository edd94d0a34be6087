SPECIFICATION Spec
CONSTANTS
  a1 = a1
  a2 = a2
  h1 = h1
  p1 = p1
  Devices = {a1, a2, h1, p1}
  TypeOf <- MCTypeOf
  Files <- MCFiles
  Hosts = {"192.168.1.5"}
  Reports <- MCReports
  PollSize = 48
  MaxFaults = 2
  MaxCalls = 14
INVARIANTS
  ToldIsHeard
  CommandsAnswered
