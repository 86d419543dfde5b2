SPECIFICATION Spec
CONSTANTS
  Requests = {c1}
  Ops = {"start"}
  Separate = TRUE
  LocalDB = FALSE
  Quota = FALSE
  Exits = {"crash"}
  MaxRun = 2
  MaxCount = 0
INVARIANT RunKeepsItsSlots
