SPECIFICATION CaseSpec
CONSTANTS
  evaluationTimeoutMs = 1
  removeGraceMs = 1
  limitBytes <- MCLimitBytes
  recordedOutputBytes = 0
  charWidth <- MCAscii
  ChunkSizes = {1}
  MaxBytes = 1
  Entrypoints <- MCEveryMode
INVARIANTS
  VerdictIsTheEvaluation
PROPERTIES
  CaseIsDecided
