SPECIFICATION FairSpec
CONSTANTS
  Courses <- GateCourses
  Obstacles <- NoObstacles
  Targets <- GateTargets
  SecondSeen = {FALSE}
  GateViews <- AllGateViews
  Signals = {"good"}
  Switches = {TRUE, FALSE}
  DropReports = {}
  SpinStops = 1
  PatternPoints = {1}
  Patterns <- SpiralThenLawnMower
  GateSpinStops = 1
  DiamondPoints = 1
  PathBound = 1
PROPERTIES OffIsObeyed
