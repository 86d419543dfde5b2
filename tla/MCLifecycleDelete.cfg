SPECIFICATION Spec
CONSTANTS
  Requests = {c1, c2}
  Ops = {"start", "delete"}
  Separate = FALSE
  LocalDB = FALSE
  Quota = FALSE
  Exits = {"crash"}
  MaxRun = 2
  MaxCount = 0
INVARIANT DeletedTaskHasNoWorker
