SPECIFICATION Spec
CONSTANTS
  Courses <- LegCourses
  Obstacles <- NoObstacles
  Targets <- NoTargets
  SecondSeen = {FALSE}
  GateViews <- NoGateViews
  Signals = {"good", "low"}
  Switches = {TRUE, FALSE}
  DropReports = {"/rr_drop_complete"}
  SpinStops = 1
  PatternPoints = {1}
  Patterns <- SpiralThenLawnMower
  GateSpinStops = 1
  DiamondPoints = 1
  PathBound = 4
INVARIANTS OneDropPoint
PROPERTIES CompletesCourses
CHECK_DEADLOCK FALSE
