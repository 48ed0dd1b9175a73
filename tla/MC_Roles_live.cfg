SPECIFICATION LiveSpec
CONSTANTS
  NNodes = 2
  Clients = {c1}
  WithBroker = TRUE
  StuckLimit = 2
  MaxPages = 1
  MaxEvents = 0
PROPERTIES MoveFinishes WaitsEnd
ACTION_CONSTRAINT Once
