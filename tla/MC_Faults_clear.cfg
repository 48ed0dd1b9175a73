SPECIFICATION Spec
CONSTANTS
  NNodes = 2
  Brokers <- N12
  Appliers <- N2
  Verbs <- Doors
  Clients = {c1}
  MaxConditions = 2
  MaxPids = 1
INVARIANT ClearReverses
