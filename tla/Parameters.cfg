SPECIFICATION Spec
CONSTANTS
  Families = {"HAP", "Mid360"}
  Octets = {0, 255, 300}
  NegativeCoordinates = FALSE
  MaxSets = 1
INVARIANTS ShownAsSet OnlyWhatArrived
