SPECIFICATION FairSpec
CONSTANTS
  LastId = 5
  Albums <- OneAlbum
  Services <- Notices
  PageLimit = 2
  Orders <- Both
  Scopes <- AllScopes
  Retries = 2
  FallbackWindow = 3
  CatchUpLimit = 10
  Starts = 3
INVARIANTS
  TypeOK
  ResentOnlyIfTorn
  DoneMeansComplete
PROPERTIES
  CloneEnds
  CloneCopies
CHECK_DEADLOCK FALSE
