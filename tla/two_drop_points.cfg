SPECIFICATION Spec
CONSTANTS
  Courses <- LegCourses
  Obstacles <- LegObstacles
  Targets <- NoTargets
  SecondSeen = {FALSE}
  GateViews <- NoGateViews
  Signals = {"good", "low"}
  Switches = {TRUE}
  DropReports = {"/rr_drop_complete"}
  SpinStops = 1
  PatternPoints = {1}
  Patterns <- SpiralThenLawnMower
  GateSpinStops = 1
  DiamondPoints = 1
  PathBound = 4
INVARIANTS OneDropPoint
CHECK_DEADLOCK FALSE
