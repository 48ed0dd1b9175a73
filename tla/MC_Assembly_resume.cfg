SPECIFICATION Spec
CONSTANTS
  Topologies <- MCBoth
  NFiles = 3
  Lgat = 2
  Clients = {c1}
  StuckLimit = 2
  MaxPages = 1
INVARIANTS Resumable
