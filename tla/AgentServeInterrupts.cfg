SPECIFICATION Spec
CONSTANTS
  c1 = c1
  c2 = c2
  home = home
  work = work
  ws = ws
  Chats <- OneChat
  Dirs <- TwoDirs
  DefaultCwd = home
  Names <- NoName
  QueueDepth = 2
  MaxMsgs = 4
  Sends <- Interrupts
  NoDir = NoDir
  NoSession = NoSession
  NoMsg = NoMsg
INVARIANTS
  TypeOK
  Conserved
  InOrder
  InterruptsOnlyEarlier
PROPERTIES
  CancelledTurnIsSilent
  MailboxSpec
CHECK_DEADLOCK FALSE
