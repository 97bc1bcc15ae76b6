SPECIFICATION Spec
CONSTANTS
  Spots = {"here", "there"}
  Headings <- SomeHeadings
  Angles <- SomeAngles
  Fovs <- SomeFovs
  Fields <- SomeFields
  Sight <- TwoSpots
  MinIntervalSize <- MinSizes
  MinVisibleDist = 1
  Foreign = Foreign
INVARIANTS ObstaclesAreFresh TargetsAreFresh OpenIsExact ListedPostsShow CasesAreRight
