SPECIFICATION Spec
CONSTANTS
  NNodes = 2
  Clients = {c1}
  WithBroker = TRUE
  StuckLimit = 2
  MaxPages = 0
  MaxEvents = 0
PROPERTY DoorsReopened
