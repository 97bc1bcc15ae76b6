------------------------------- MODULE MCSimField -------------------------------
EXTENDS SimFieldProperties

\* In steps of 1/8 m, with the cutoffs at 1 m, 2 m and the largest size at 3 m
SizeSteps == [small |-> 2, med |-> 4, large |-> 8]
\* An item has a line or two that the format does not change.
Heights == [D |-> 2, DM |-> 2, DMS |-> 3]
SomeTyped == {-3, 1, 2, 5, 17, 40}
\* Every feature is used, with those it interacts with.
SomeSessions ==
  {{"waypoints", "files"}, {"waypoints", "page"}, {"waypoints", "keys"},
   {"arTags", "files"}, {"gates", "page"}, {"obstacles"}, {"obstacles", "keys"},
   {"referencePoints", "repeater", "page"}, {"referencePoints", "repeater", "files"}}
===============================================================================
