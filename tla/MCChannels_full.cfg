SPECIFICATION Spec
CONSTANTS
  a1 = a1
  a2 = a2
  h1 = h1
  p1 = p1
  Devices <- MCFleet
  TypeOf <- MCFleetType
  Files <- MCFleetFiles
  Hosts = {}
  Reports = {}
  PollSize = 48
  MaxFaults = 0
  MaxCalls = 0
INVARIANTS
  ToldIsHeard
