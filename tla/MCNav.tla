--------------------------------- MODULE MCNav --------------------------------
EXTENDS NavFreeze

Plain(i)  == [id |-> i, kind |-> "plain"]
Search(i) == [id |-> i, kind |-> "search"]
Gate(i)   == [id |-> i, kind |-> "gate"]

\* isLocationReachable answers no to a distance of -1.
NoObstacle == [range |-> "none", blocksWaypoint |-> TRUE, blocksTarget |-> TRUE]
FarRock    == [range |-> "far", blocksWaypoint |-> TRUE, blocksTarget |-> TRUE]
Rock       == [range |-> "close", blocksWaypoint |-> TRUE, blocksTarget |-> TRUE]
Aside      == [range |-> "close", blocksWaypoint |-> FALSE, blocksTarget |-> FALSE]

NoTarget    == [seen |-> FALSE, near |-> FALSE, heading |-> "away", id |-> 0]
Tag(h)      == [seen |-> TRUE, near |-> FALSE, heading |-> h, id |-> 1]
TagReached(i) == [seen |-> TRUE, near |-> TRUE, heading |-> "facing", id |-> i]

\* Legs without search or repeater.
LegCourses == {<<Plain(1), Plain(2)>>, <<Plain(3)>>}
LegObstacles == {NoObstacle, FarRock, Rock}
NoTargets == {NoTarget}
NoObstacles == {NoObstacle}
NoGateViews == {"inView"}

\* Search legs.
SearchCourses == {<<Search(1)>>}
SearchTargets == {NoTarget, Tag("away"), Tag("facing"), TagReached(1)}
FewTargets == {NoTarget, TagReached(1)}
SearchObstacles == {NoObstacle, Rock, Aside}
RockAhead == {NoObstacle, Rock}

\* Gate legs.
GateCourses == {<<Gate(1)>>}
GateTargets == {NoTarget, TagReached(1), TagReached(2)}
AllGateViews == GateLooks

\* A leg and a search, with a repeater to drop and rocks on the way.
MixedCourses == {<<Plain(1), Search(2)>>}

SpiralThenLawnMower == <<"SpiralOut", "LawnMower">>
SpiralOnly == <<"SpiralOut">>
=============================================================================
