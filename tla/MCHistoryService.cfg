SPECIFICATION Spec
CONSTANTS
  LastId = 5
  Albums <- OneAlbum
  Services <- Notices
  PageLimit = 2
  Orders <- Both
  Scopes <- AllScopes
  Retries = 2
  FallbackWindow = 3
  CatchUpLimit = 10
  Starts = 2
INVARIANT CaughtUp
CHECK_DEADLOCK FALSE
