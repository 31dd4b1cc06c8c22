SPECIFICATION Spec
CONSTANTS
  c1 = c1
  c2 = c2
  home = home
  work = work
  ws = ws
  Chats <- TwoChats
  Dirs <- TwoDirs
  DefaultCwd = home
  Names <- OneName
  QueueDepth = 1
  MaxMsgs = 3
  Sends <- Moves
  NoDir = NoDir
  NoSession = NoSession
  NoMsg = NoMsg
SYMMETRY ChatSymmetry
INVARIANTS
  SessionBound
CHECK_DEADLOCK FALSE
