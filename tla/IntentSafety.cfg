SPECIFICATION Spec
CONSTANTS
    None = None
    Templates = {t1}
    QuickTemplate = t1
    Leases = {l1}
    RetryDelays <- MCDelays
    MaxGeneration = 3
    Starters = {u1}
    Modes = {"Recovery", "Legacy"}
    Errors = {"rate_limited", "terminal"}
    MaxNetworkChanges = 1
    PowerPauses = FALSE
INVARIANTS
  SingleAttempt
  NoAbandonedConnection
  
  
