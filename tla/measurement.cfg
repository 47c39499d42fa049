SPECIFICATION Spec
CONSTANTS
  CaseSets <- MCCaseSets
  Outcomes = {"pass", "violation", "unrunnable", "malformed", "uncleaned", "exception"}
  Durations = {0, 3}
  dockerEvaluationMaximum = 9
  wallClockMaximum = 4
  candidateMaximumPerArm = 2
  candidateMaximum = 11
  separateRuns = 2
CONSTRAINT OneUnusual
INVARIANTS
  EvidenceIsOfEveryRun
  EveryItemHasItsRow
  ReplaysAreTheFirstCandidates
  BudgetsHold
