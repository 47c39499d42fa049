SPECIFICATION SafetySpec
CONSTANTS
  attempts = 1
  MaxLogLength = 6
  Signatures = {s1}
INVARIANT
  TimedOutIsUnrunnable
