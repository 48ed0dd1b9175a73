SPECIFICATION Spec
CONSTANTS
  Words <- MCWords
  Names <- MCNames
  Values <- MCValues
  Files <- MCFiles
  Options <- MCOptions
  MaxEvents = 1
INVARIANTS PassedMeansChecked
CONSTRAINT Moving
