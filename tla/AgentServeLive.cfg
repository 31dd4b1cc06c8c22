SPECIFICATION FairSpec
CONSTANTS
  c1 = c1
  c2 = c2
  home = home
  work = work
  ws = ws
  Chats <- OneChat
  Dirs <- OneDir
  DefaultCwd = home
  Names <- NoName
  QueueDepth = 1
  MaxMsgs = 3
  Sends <- Paths
  NoDir = NoDir
  NoSession = NoSession
  NoMsg = NoMsg
PROPERTY
  Delivery
CHECK_DEADLOCK FALSE
