SPECIFICATION Spec
CONSTANTS
  Names = {"a", "b"}
  p1 = p1
  p2 = p2
  Processes = {p1, p2}
  Nodes <- MCNodes
  Results = {"Success"}
  Backends = {"docker", "podman"}
  Options <- MCOptions
  Rebuilds <- MCRebuilds
  Attached <- MCAttached
  Selectors <- MCSelectors
  MaxNodes = 2
  MaxSaid = 2
  MaxTime = 4
  MaxCommands = 3
  MaxMishaps = 1
  MaxHalts = 1
INVARIANTS TypeOK HarvestedOnce NothingSkipped DestroyedIsGone Servable
PROPERTIES OnlyTheClaimed CarriesItsTopology TriggerIsLast
CONSTRAINT Scenes
ACTION_CONSTRAINT Brief
VIEW Plain
CHECK_DEADLOCK FALSE
