CONSTANTS
  Leases = {l1, l2}
  Ops = {o1, o2}
  Templates = {dyn, personal}
  Warmable = {dyn}
  Scenarios = {{"lost", "rejection"}, {"offline", "rejection"}}
  None = None
SPECIFICATION FairSpec
PROPERTY JournaledStopIsFinished
PROPERTY StopIsServed
