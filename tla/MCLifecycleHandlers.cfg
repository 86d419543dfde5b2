SPECIFICATION Spec
CONSTANTS
  Requests = {c1}
  Ops = {"start", "restart", "pause", "stop", "update", "delete", "poll"}
  Separate = FALSE
  LocalDB = TRUE
  Quota = TRUE
  Exits = {"shutdown"}
  MaxRun = 2
  MaxCount = 0
INVARIANT NothingLeaks
PROPERTY StaleRunInert
