SPECIFICATION Suite
CONSTANTS
  LastId = 3
  Albums <- OneAlbum
  Replies <- MsgNone
  QueueCap = 1
  PageSize = 1
  CatchUp = 2
  Remaining <- SomeLimit
  NewToOld = FALSE
  Pushes = TRUE
  EarlyExpiry = FALSE
  Feed <- OneAlbumAndReply
  RepliesTo <- ThirdToSecond
  Retries = 2
  ChunkSize = 1
  Locations = 1
  Faults = 1
  Logins = {"l1", "l2"}
  Handlers = {"h1", "h2"}
  Tasks = {"t1", "t2"}
  MaxRuntimes = 2
  Clients = {"c1", "c2"}
  MaxChanges = 2
  Bots = {"b1", "b2"}
  MaxEdits = 3
  Runs = {"r1", "r2"}
  Sources = {"m1"}
  MaxHandles = 3
  Limit = 2
  LastDay = 1
  MaxSent = 3
  Editors = {"e1", "e2"}
  Readers = {"r1", "r2"}
  Workers = {"w1", "w2"}
  MaxCalls = 2
  MaxCrashes = 1
INVARIANTS
  SuiteTypeOK
  HandledOnce
  MarkedIsHeld
  AlbumAnswered
  TempFilesGone
  SentOnce
  Delivered
  FilesWhole
  RepliesRight
  
  PendingGone
  OneClient
  WaitersReleased
  TodayHonest
  LogNumbersUnique
  HandlesAccounted
  MappingKept
  DailyLimitKept
  CountHonest
  CacheFollows
  ProxyReaches
  BotsKept
CHECK_DEADLOCK FALSE
