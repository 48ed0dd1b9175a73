SPECIFICATION MCLiveSpec
CONSTANTS
  NNodes = 2
  Clients = {c1}
  Tables = {t}
  Rows = {a}
  MaxCommands = 2
  MaxEvents = 1
INVARIANTS TypeOK ServedWhole
PROPERTIES KeepsUntilBackup RebuiltIsTrue RebuiltForCause ResyncEnds RebuiltJoins
CHECK_DEADLOCK FALSE
CONSTRAINT OneMishap
ACTION_CONSTRAINT AfterTheCut
