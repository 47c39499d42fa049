SPECIFICATION Spec
CONSTANTS
  Products <- MCProducts
  StartHops = 3
  NotifyHops = 6
  PostHops = 6
  LatePost = 12
INVARIANTS VerdictIsTheProducts SettledIsQuiet
PROPERTY ScenarioEnds
