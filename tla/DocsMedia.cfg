SPECIFICATION Spec
CONSTANTS
  Kinds <- BothKinds
  Indexes <- SomeIndexes
  NFiles = 3
  NTexts = 2
  MaxOthers = 2
  Outcomes <- AllOutcomes
INVARIANTS
  NoScar
  ReportedHolds
  ArgumentOrder
CHECK_DEADLOCK FALSE
