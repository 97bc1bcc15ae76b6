SPECIFICATION FairSpec
CONSTANTS
  Commands <- DriveCommands
  Speeds = {1}
  Faults = {"unplug"}
PROPERTIES RespondsToVelocity
CHECK_DEADLOCK FALSE
