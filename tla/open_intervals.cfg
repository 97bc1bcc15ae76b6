SPECIFICATION Spec
CONSTANTS
  Spots = {"here"}
  Headings = {0}
  Angles = {0}
  Fovs <- WideFovs
  Fields <- OnlyObstacles
  Sight <- TwoSpots
  MinIntervalSize <- MinSizes
  MinVisibleDist = 1
  Foreign = Foreign
INVARIANT OpenIsFree
