SPECIFICATION LiveSpec
CONSTANTS
  Words <- MCWords
  Names <- MCNames
  Values <- MCValues
  Files <- MCFiles
  Options <- MCOptions
  MaxEvents = 1
INVARIANTS TypeOK VerdictIsTrue SweepIsWhole NothingLeft KeptIsWhole
PROPERTIES  Ends
CONSTRAINT Moving
