SPECIFICATION FairSpec
CONSTANTS
    None = None
    Templates = {t1}
    QuickTemplate = t1
    Leases = {l1}
    RetryDelays <- MCDelays
    MaxGeneration = 1
    Starters = {u1}
    Modes = {"Recovery"}
    Errors = {"same_operation", "reconcile"}
    MaxNetworkChanges = 0
    PowerPauses = TRUE
PROPERTIES
    RecoveryIsAttempted
    
