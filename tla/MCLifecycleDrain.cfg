SPECIFICATION FairSpec
CONSTANTS
  Requests = {c1}
  Ops = {"start", "stop"}
  Separate = TRUE
  LocalDB = TRUE
  Quota = FALSE
  Exits = {"shutdown", "crash"}
  MaxRun = 2
  MaxCount = 1
PROPERTY StoppedTaskDrains
