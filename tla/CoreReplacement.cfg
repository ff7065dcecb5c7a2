CONSTANTS
  Leases = {l1, l2}
  Ops = {o1, o2}
  Templates = {dyn, personal}
  Warmable = {dyn}
  Scenarios = {{"lost", "stalled", "owner_stop", "dies", "expiry"},
               {"lost", "owner_stop", "retired", "shutdown"},
               {"offline", "pin", "stalled", "unbind"},
               {"pin", "lost"}}
  None = None
SPECIFICATION Spec
SYMMETRY IdSymmetry
INVARIANT ReadyMeansStopped
INVARIANT ReplacementWaits
PROPERTY StaleResultIsUndone
