CONSTANTS
  Null = Null
  Failed = Failed
  a = a
  b = b
  Versions = {"v1", "v2"}
  Plans <- MCPlans
  Primaries <- MCPrimaries
  Secondaries <- MCSecondaries
  Requests <- MCRequests
  MaxChanges = 3
SPECIFICATION Spec
INVARIANTS UrlIsServed UrlFitsPreset PinnedFactoryAgrees FactoryIsAccepted
PROPERTIES RefreshHeals
