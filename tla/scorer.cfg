SPECIFICATION ScoreSpec
CONSTANTS
  CaseSets <- MCCaseSets
  Outcomes = {"pass", "violation", "other violation", "unrunnable", "exception"}
  Durations = {0}
  dockerEvaluationMaximum = 12
  wallClockMaximum = 1
  candidateMaximumPerArm = 2
  candidateMaximum = 11
  separateRuns = 2
  Evidence <- MCEvidence
  Ineligible = {3}
  moduleIds <- MCModules
  retentionMinimum = 1
  applicableMinimum = 3
  incrementalMinimum = 1
  infrastructureRate <- MCInfrastructureRate
  retentionRate <- MCRetentionRate
CONSTRAINT OneUnusual
INVARIANTS
  AdoptionLosesNothing
  OperatorYieldIsNew
  RetirementIsCounterevidence
