SPECIFICATION Spec
CONSTANTS
  Requests = {c1}
  Ops = {"start", "restart"}
  Separate = FALSE
  LocalDB = FALSE
  Quota = FALSE
  Exits = {"crash"}
  MaxRun = 4
  MaxCount = 1
PROPERTY ScratchAfterCompletion
