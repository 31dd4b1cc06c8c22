SPECIFICATION FairSpec
CONSTANTS
  p1 = p1
  p2 = p2
  Procs <- TwoProcs
  Mixes <- AllMixes
  NImages = 1
  Chunks = 2
  MaxPolls = 2
  Releases = 2
  Outcomes <- AllOutcomes
  Faults <- AllFaults
INVARIANTS
  BinaryRuns
  VerdictsHold
  FilesAccounted
PROPERTY
  CommandsEnd
CHECK_DEADLOCK FALSE
