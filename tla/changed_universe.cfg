SPECIFICATION SealingSpec
CONSTANTS
  Versions <- MCVersions
  CommitMax = 2
  EditMax = 1
CHECK_DEADLOCK FALSE
INVARIANT
  UniverseIsThatOfCheckpointA
