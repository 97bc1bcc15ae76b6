SPECIFICATION Spec
CONSTANTS
  Courses <- SearchCourses
  Obstacles <- SearchObstacles
  Targets <- SearchTargets
  SecondSeen = {FALSE}
  GateViews <- NoGateViews
  Signals = {"good"}
  Switches = {TRUE}
  DropReports = {}
  SpinStops = 1
  PatternPoints = {2}
  Patterns <- SpiralThenLawnMower
  GateSpinStops = 1
  DiamondPoints = 1
  PathBound = 1
INVARIANTS TypeOK LegsMatchCourse PointsLeft
