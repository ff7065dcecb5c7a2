SPECIFICATION Spec
CONSTANTS
  Callers = {c1, c2}
  Accounts = {a1, a2}
  MaxSessions = 2
  MaxAttempts = 3
  MaxEpoch = 3
  None = None
SYMMETRY BrokerSymmetry
INVARIANTS
  EverySessionIsAccounted
  PairIsRecoverable
PROPERTIES
  OvertakenCallLeavesNothing
