SPECIFICATION FairSpec
CONSTANTS
  Courses <- SearchCourses
  Obstacles <- RockAhead
  Targets <- FewTargets
  SecondSeen = {FALSE}
  GateViews <- NoGateViews
  Signals = {"good"}
  Switches = {TRUE, FALSE}
  DropReports = {}
  SpinStops = 1
  PatternPoints = {1}
  Patterns <- SpiralOnly
  GateSpinStops = 1
  DiamondPoints = 1
  PathBound = 1
INVARIANTS OffIsStopped ProgressAddsUp
PROPERTIES OffIsObeyed NeverFrozenForGood
