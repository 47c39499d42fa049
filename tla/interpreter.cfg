SPECIFICATION SpecAny
CONSTANTS
  Plans <- MCPlans
  BenchmarkPlans <- MCBenchmarkPlans
  Delays = {0, 2}
  MaxHandles = 3
INVARIANTS
  NoTimerIsLate
  GatesOpenInOrder
  InterpretationIsComplete
PROPERTIES
  FinalRunIsLate
  InterpretationEnds
