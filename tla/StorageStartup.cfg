CONSTANTS
  None = None
  Containers = 2
  Shipped = {1}
  Scenarios <- StartScenarios
  Nil = Nil
  Small = {small}
  Large = {a, b}
  Parts = 2
  MaxGenerations = 2
SPECIFICATION StorageSpec
CHECK_DEADLOCK FALSE
INVARIANTS
  StartEndsWell
  RecordSurvives
  CallsAreTrue
PROPERTIES
  DebtIsKept
  MigrationEnds
