CONSTANTS
  Procs = {old, new}
  Endpoints <- MCEndpoints
  None = None
  Stale = Stale
  Blocked = Blocked
  FaultKinds = {"config", "accept", "kill", "retire", "stop"}
  MaxFaults = 2
SPECIFICATION FairSpec
INVARIANTS TypeOK ServerSetInTime RunReturnsOnlyInTests StopSticks
PROPERTIES PluginServed ProductionServes TestsEnd
