SPECIFICATION Spec
CONSTANTS
  attempts = 3
  MaxLogLength = 5
  Signatures = {s1, s2}
INVARIANTS
  VerdictIsTheOracles
  ReportIsReproduction
PROPERTIES
  GoneRunIsRecorded
