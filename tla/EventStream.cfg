SPECIFICATION Spec
CONSTANTS
  Listeners = {"a", "b"}
  Once = {"b"}
  Texts <- SomeTexts
  Events <- SomeEvents
  MaxEvents = 1
  MaxBreaks = 2
INVARIANTS
  FramesInOrder
  NewestStays
PROPERTIES
  NeverBack
  ComesBack
  AllHeard
CHECK_DEADLOCK FALSE
