SPECIFICATION FairSpec
CONSTANTS
  Texts <- TextsPQ
  Numeral = "1."
  Styles <- StylesAB
  Docs <- AllDocs
  BatchSize = 2
  Editable <- TextLines
  Insertable <- Paras
  MaxEdits = 1
  MaxOthers = 1
  Outcomes <- AllOutcomes
INVARIANTS
  ReplaceLands
  AtMostOnce
  NewcomersSurvive
PROPERTY
  UpdateEnds
CHECK_DEADLOCK FALSE
