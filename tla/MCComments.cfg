SPECIFICATION Spec
CONSTANTS
  LastId = 2
  Albums <- AloneOrPair
  QueueLimit = 1
  BatchSize = 1
  Workers = 2
  JobLimit = 1
  Mix <- TwoOrEdited
  Restarts = 1
INVARIANTS
  TypeOK
  MirroredOnce
  NotStranded
  EditsReach
CHECK_DEADLOCK FALSE
