SPECIFICATION Spec
CONSTANTS
  Topologies <- MCPair
  NFiles = 3
  Lgat = 2
  Clients = {c1, c2}
  StuckLimit = 1
  MaxPages = 0
INVARIANTS SeededIsWhole StartedOnWhole
PROPERTIES NoCopyUnderServer
SYMMETRY Symmetry
CONSTRAINT Unspoiled
