SPECIFICATION Spec
CONSTANTS
  Requests = {c1, c2}
  Ops = {"start", "stop"}
  Separate = TRUE
  LocalDB = FALSE
  Quota = FALSE
  Exits = {"crash"}
  MaxRun = 3
  MaxCount = 0
SYMMETRY Symmetry
INVARIANTS
  TypeOK
  LiveRunIsCurrent
PROPERTY RunsAreAdmittedOnce
