SPECIFICATION Spec
CONSTANTS
  Commands <- AllCommands
  People <- Everybody
  Exactly <- SameName
  Roughly <- SearchFinds
  Rooms <- TwoRooms
  RoomList <- FirstDisabled
  Members <- SomeMembers
  Things <- FourThings
  Drafts <- OneDraft
  PageSize = 2
  BatchSize = 2
  Runs = 3
  Outcomes <- AllOutcomes
INVARIANTS
  LettersTold
  ReplyReaches
  EventsComplete
  PeopleAsNamed
  DeletionsTold
PROPERTY
  TakenNotInvited
CHECK_DEADLOCK FALSE
