SPECIFICATION EngineFairSpec
CONSTANTS
  Routes = {r1, r2}
  Endpoint = ep
  Rules = {u1}
  None = None
  Generations = {1, 2}
  Scenarios <- EngineScenarios
CHECK_DEADLOCK FALSE

  
PROPERTIES
  ForeignRouteStays
  
