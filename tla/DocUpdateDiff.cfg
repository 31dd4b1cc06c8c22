SPECIFICATION Spec
CONSTANTS
  Texts <- TextsPQ
  Numeral = "1."
  Styles <- StylesAB
  Docs <- DiffedDocs
  BatchSize = 2
  Editable <- TextLines
  Insertable <- ParasQuotes
  MaxEdits = 2
  MaxOthers = 1
  Outcomes <- AllOutcomes
INVARIANTS
  DiffPlaces
  MarkedSurvive
  DiffLands
  UneditedIsNoop
CHECK_DEADLOCK FALSE
