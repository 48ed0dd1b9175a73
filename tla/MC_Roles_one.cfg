SPECIFICATION Spec
CONSTANTS
  NNodes = 2
  Clients = {c1}
  WithBroker = TRUE
  StuckLimit = 2
  MaxPages = 1
  MaxEvents = 1
INVARIANTS TypeOK DoorsOwned
PROPERTIES ForcedOnlySafe ReportsAreTrue
CONSTRAINT Alone
