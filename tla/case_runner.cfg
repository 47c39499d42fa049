SPECIFICATION Spec
CONSTANTS
  evaluationTimeoutMs = 2
  removeGraceMs = 2
  limitBytes <- MCLimitBytes
  recordedOutputBytes = 1
  charWidth <- MCAscii
  ChunkSizes = {1, 2}
  MaxBytes = 3
INVARIANTS
  IInv
  RecordWaitsForRemoval
  EvidenceLeavesNoContainer
PROPERTIES
  ImplementsContract
