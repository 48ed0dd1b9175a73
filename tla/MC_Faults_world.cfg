SPECIFICATION Spec
CONSTANTS
  NNodes = 2
  Brokers <- N12
  Appliers <- N2
  Verbs <- Everything
  Clients = {c1, c2}
  MaxConditions = 2
  MaxPids = 2
INVARIANTS TypeOK Owned Held BothWays
SYMMETRY Symmetry
CONSTRAINT Scenes
VIEW Plain
