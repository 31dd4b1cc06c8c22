SPECIFICATION FairSpec
CONSTANTS
  p1 = p1
  p2 = p2
  app1 = app1
  app2 = app2
  near = near
  far = far
  None = None
  Procs <- OneProc
  Apps <- TwoApps
  Hosts <- TwoHosts
  DefaultHost = near
  Commands <- AllCommands
  InitialFiles <- Empty
  MaxRuns = 4
  MaxGrants = 3
  Outcomes <- AllOutcomes
  Renewals <- Sometimes
  Faults <- AllFaults
INVARIANTS
  AutoRefreshed
  CarriedOutOnce
PROPERTIES
  DeviceLoginEnds
CHECK_DEADLOCK FALSE
