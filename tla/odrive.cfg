SPECIFICATION Spec
CONSTANTS
  Commands <- AllCommands
  Speeds = {1}
  Faults = {"unplug", "error"}
INVARIANTS TypeOK DisarmedIsIdle
PROPERTIES OnDiagram
CHECK_DEADLOCK FALSE
