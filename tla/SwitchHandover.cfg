SPECIFICATION FairSpec
CONSTANTS
  Containers = {1, 2}
  Slots = {"latest", "stable"}
  MaxOps = 10
  MaxEpoch = 2
  MaxAuthorities = 4
  None = None
  Refreshing = Refreshing
  Scenarios <- AnyThree
CHECK_DEADLOCK FALSE
INVARIANTS
  SavedStateLoads
  SessionIsAgreed
PROPERTIES
  HandoverSpec
  
