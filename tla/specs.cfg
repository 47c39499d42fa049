SPECIFICATION SpecsSpec
CONSTANTS
  Inputs <- MCInputs
  maxCandidateAttempts = 12
  maxEvaluations = 8
  replayRuns = 2
  Seeds <- MCSeeds
  Requests <- MCRequests
  AdvanceMax = 4
  TransformationLimit = 2
  FixtureLimit = 2
INVARIANTS
  OneMinimal
  OneMinimalIsReplayed
  AttemptsChain
  RemovalIsConsistent
  AcceptedIsAsBuilt
  PlanIsTheRequestedOne
  SelectedRequestsBuild
PROPERTIES
  EveryStepAdvances
