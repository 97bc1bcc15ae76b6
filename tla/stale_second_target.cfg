SPECIFICATION Spec
CONSTANTS
  Courses <- GateCourses
  Obstacles <- NoObstacles
  Targets <- GateTargets
  SecondSeen = {TRUE, FALSE}
  GateViews <- NoGateViews
  Signals = {"good"}
  Switches = {TRUE}
  DropReports = {}
  SpinStops = 1
  PatternPoints = {1}
  Patterns <- SpiralThenLawnMower
  GateSpinStops = 1
  DiamondPoints = 1
  PathBound = 1
INVARIANTS PostsWereSeen
