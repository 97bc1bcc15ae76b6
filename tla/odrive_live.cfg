SPECIFICATION FairSpec
CONSTANTS
  Commands <- DriveCommands
  Speeds = {1}
  Faults = {"unplug"}
PROPERTIES FoundIsArmed WatchdogStops
CHECK_DEADLOCK FALSE
