SPECIFICATION Spec
CONSTANTS
  Courses <- MixedCourses
  Obstacles <- LegObstacles
  Targets <- FewTargets
  SecondSeen = {FALSE}
  GateViews <- NoGateViews
  Signals = {"good", "low"}
  Switches = {TRUE}
  DropReports = {"/rr_drop_complete"}
  SpinStops = 1
  PatternPoints = {1}
  Patterns <- SpiralOnly
  GateSpinStops = 1
  DiamondPoints = 1
  PathBound = 3
INVARIANTS RankBound
PROPERTIES FreezesEnd OffAtOnce
CHECK_DEADLOCK FALSE
