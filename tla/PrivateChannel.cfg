SPECIFICATION FairSpec
CONSTANTS
  Scenarios <- ChannelScenarios
  None = None
CHECK_DEADLOCK FALSE
INVARIANTS
  AdmittedIsCurrent
PROPERTIES
  SignedOutIsReal
  ErasedWorkIsStopped
  EveryCallEnds
