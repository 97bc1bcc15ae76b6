SPECIFICATION Spec
CONSTANTS
  Commands <- AllCommands
  Speeds = {1}
  Faults = {}
PROPERTIES DisarmHolds
CHECK_DEADLOCK FALSE
