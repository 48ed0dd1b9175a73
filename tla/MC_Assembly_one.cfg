SPECIFICATION LiveSpec
CONSTANTS
  Topologies <- MCBoth
  NFiles = 3
  Lgat = 2
  Clients = {c1}
  StuckLimit = 2
  MaxPages = 1
INVARIANTS TypeOK
PROPERTIES ForcedOnlyClean ServingIsServing UpFinishes StagesInOrder
