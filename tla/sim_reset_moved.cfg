SPECIFICATION Spec
CONSTANTS
  Reach = 2
  GimbalMax = 1
  HB_MAX_MISSED = 2
  Nowhere = Nowhere
  Sessions <- DriveSessions
PROPERTIES ResetIsAtStart
