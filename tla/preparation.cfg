SPECIFICATION PreparationSpec
CONSTANTS
  Packages <- MCPackages
  Defects <- MCDefects
  ModuleOf <- MCModuleOf
  DependsOn <- MCDependsOn
  Smokes <- MCSmokes
  OtherModules <- MCOtherModules
  WallMax = 1
  BuildMax = 6
  ProbeMax = 13
CHECK_DEADLOCK FALSE
INVARIANTS
  EachSetCarriesItsEdit
  PreparedIsComplete
  LeftBehindIsRecorded
PROPERTIES
  PreparationEnds
