SPECIFICATION Spec
CONSTANTS
  p1 = p1
  p2 = p2
  app1 = app1
  app2 = app2
  near = near
  far = far
  None = None
  Procs <- TwoProcs
  Apps <- OneApp
  Hosts <- OneHost
  DefaultHost = near
  Commands <- CallsAndLogout
  InitialFiles <- Stocked
  MaxRuns = 4
  MaxGrants = 3
  Outcomes <- OkOrFailed
  Renewals <- Always
  Faults <- AllFaults
SYMMETRY ProcSymmetry
INVARIANTS
  LiveTokenKept
  RequestsAuthorized
  StoresInTurn
CHECK_DEADLOCK FALSE
