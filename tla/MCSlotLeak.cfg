SPECIFICATION Spec
CONSTANTS
  NoRun = NoRun
  DayLen = 3
  Runs = {w1}
  Refreshers = {loop}
  LastDay = 1
  MaxUsed = 2
  RuleSets <- OneSlot
INVARIANT ReservedMeansPending
