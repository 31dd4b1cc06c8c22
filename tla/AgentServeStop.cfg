SPECIFICATION Spec
CONSTANTS
  c1 = c1
  c2 = c2
  home = home
  work = work
  ws = ws
  Chats <- OneChat
  Dirs <- TwoDirs
  DefaultCwd = home
  Names <- NoName
  QueueDepth = 1
  MaxMsgs = 3
  Sends <- Interrupts
  NoDir = NoDir
  NoSession = NoSession
  NoMsg = NoMsg
INVARIANTS
  StopNeverWaits
CHECK_DEADLOCK FALSE
