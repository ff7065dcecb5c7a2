\* Split tunnelling: a policy is fetched, applied, rolled back and reported.
SPECIFICATION SplitFairSpec
CONSTANTS
  Policies <- SomePolicies
  Addrs = {a1, a2}
  Networks = {n1, n2}
  Leases = {"l1", "l2"}
  None = None
  SplitScenarios <- PolicyScenarios
CHECK_DEADLOCK FALSE
INVARIANTS
  ConfirmedOptionsRun
PROPERTIES
  QueuedResultIsDelivered
  PolicyConverges
