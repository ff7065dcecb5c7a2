\* Application updates: an offer is found, confirmed, installed or undone.
SPECIFICATION UpdaterFairSpec
CONSTANTS
  Packages = {"p1", "p2"}
  Versions = {"v1", "v2"}
  None = None
  UpdaterScenarios <- SomeScenarios
CHECK_DEADLOCK FALSE
INVARIANTS
  HandoffIsConfirmed
  AnswersAreKept
PROPERTIES
  
  CancelledStopIsUndone
