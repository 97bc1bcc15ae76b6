SPECIFICATION Spec
CONSTANTS
  Spots = {"here"}
  Headings = {0}
  Angles = {0}
  Fovs <- AllRoundFovs
  Fields <- OnlyTags
  Sight <- Behind
  MinIntervalSize <- MinSizes
  MinVisibleDist = 1
  Foreign = Foreign
INVARIANT AllListedPostsShow
