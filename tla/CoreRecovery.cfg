CONSTANTS
  Leases = {l1, l2}
  Ops = {o1, o2}
  Templates = {dyn, personal}
  Warmable = {dyn}
  Scenarios = {{"lost", "crash", "delay", "local", "rejection"},
               {"bootstrap", "crash", "lost", "dies"},
               {"legacy", "lost", "delay", "rejection", "shutdown"},
               {"legacy", "personal", "lost", "delay", "rejection"},
               {"offline", "pin", "local", "unbind"}}
  None = None
SPECIFICATION Spec
SYMMETRY IdSymmetry
PROPERTIES
  UnresolvedStartIsKept
  
  CancelledStartNeverConnects
