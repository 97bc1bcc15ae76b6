----------------------------- MODULE SimPerception -----------------------------
(***************************************************************************)
(* simulators/nav, components/perception: what the simulated ZED camera    *)
(* sees.  Watchers hand every change of the rover, the gimbal, the field   *)
(* of view and the field items to two detectors, which keep copies, and    *)
(* compute the /obstacle and /target_list messages again.                  *)
(*                                                                         *)
(* Angles are counted in units of 5 degrees.  The geometry (how far an     *)
(* item is from a spot, in which direction, how wide it looks, from which  *)
(* angles the path meets it) is the constant Sight; ZedGeometry has the    *)
(* case analysis behind it.                                                *)
(***************************************************************************)
EXTENDS OpenIntervals, FiniteSets

CONSTANTS
  Spots,            \* where the rover may stand
  Headings,         \* how it may be turned
  Angles,           \* zedGimbalPos
  Fovs,             \* fields of view: [angle |-> half of it, depth |-> .]
  Fields,           \* bound: what may be put on a field, [obstacles, arTags, gates |-> .];
                    \* a gate is a pair <<right post, left post>>
  Sight,            \* [Spots -> [items -> what is seen of the item from the spot]]
  MinIntervalSize,  \* the opening the rover needs, at each depth
  MinVisibleDist,   \* PERCEPTION.minVisibleDistTag
  Foreign           \* an /obstacle message of a real perception program

ItemsOf(choice) ==
  choice.obstacles \cup choice.arTags \cup UNION {ToSet(gate) : gate \in choice.gates}

\* Distances and angles are whole numbers of units, and no view or item is turned inside
\* out.  A gate has two posts, and no post has the id that stands for no target.
ASSUME ViewConstants ==
  /\ \A view \in Fovs : view.angle \in Nat
  /\ Headings \subseteq Int /\ Angles \subseteq Int
  /\ \A choice \in Fields : /\ \A gate \in choice.gates : gate = <<gate[1], gate[2]>>
                            /\ "none" \notin ItemsOf(choice)
                            /\ \A spot \in Spots, item \in ItemsOf(choice) :
                                 LET seen == Sight[spot][item]
                                 IN  {seen.dist, seen.half} \subseteq Nat /\ seen.bearing \in Int

VARIABLES
  field,            \* one of Fields
  simulatePercep,
  currOdom,         \* [spot, heading]
  zedGimbalPos,
  fov,              \* fieldOfViewOptions; the detectors share the store's object
  obstacles, arTags, gates,
  obstacleDetector, \* its copies: zedOdom and the obstacles
  targetDetector,   \* its copies: zedOdom and the posts
  obstacleMessage, targetList,
  behind            \* history: an obstacle computation failed, and the targets have
                    \* not followed a move of the ZED since

pose == <<currOdom, zedGimbalPos>>
items == <<obstacles, arTags, gates>>
detectors == <<obstacleDetector, targetDetector>>
messages == <<obstacleMessage, targetList>>
vars == <<field, simulatePercep, pose, fov, items, detectors, messages, behind>>

-------------------------------------------------------------------------------
(* Angles.                                                                 *)

FullCircle == 72

CompassMod(angle) == angle % FullCircle

\* calcRelativeBearing
RelativeBearing(heading, bearing) ==
  LET diff == bearing - heading
  IN  IF diff > FullCircle \div 2 THEN diff - FullCircle
      ELSE IF diff < -(FullCircle \div 2) THEN diff + FullCircle ELSE diff

\* updateZedOdom: the ZED sits at the rover's front and looks where the gimbal turns it.
ZedOdom(odom, angle) ==
  [spot |-> odom.spot, bearing |-> CompassMod(odom.heading + angle)]

Seen(zed, item) == Sight[zed.spot][item]
RelBear(zed, item) == RelativeBearing(zed.bearing, Seen(zed, item).bearing)
Within(view, relBear) == -view.angle <= relBear /\ relBear <= view.angle

-------------------------------------------------------------------------------
(* ObstacleDetector.                                                       *)

\* isObsVisible: a wide obstacle is still seen beyond the edges of the view.
IsObsVisible(zed, view, obs) ==
  LET seen == Seen(zed, obs)
      margin == [angle |-> view.angle + seen.margin]
  IN  seen.dist <= view.depth /\ Within(margin, RelBear(zed, obs))

\* isObsInPath
IsObsInPath(zed, obs, angle) ==
  LET diff == RelativeBearing(angle, Seen(zed, obs).bearing)
  IN  -Seen(zed, obs).block <= diff /\ diff <= Seen(zed, obs).block

\* The angles the obstacle closes; on top of the obstacle, the whole view.
ClosedInterval(zed, view, obs) ==
  IF Seen(zed, obs).dist = 0 THEN <<-view.angle, view.angle>>
  ELSE <<RelBear(zed, obs) - Seen(zed, obs).half, RelBear(zed, obs) + Seen(zed, obs).half>>

\* The directions tried within an open interval: from its inner end outwards, each
\* at start + end / 2 of a sub-interval as wide as the rover needs.
Directions(interval, size) ==
  LET n == Width(interval) - size
      \* two units at a time: openings have even bounds, so every half is whole
      starts == IF interval[1] + interval[2] > 0
                THEN [k \in 1 .. n \div 2 + 1 |-> interval[1] + 2 * (k - 1)]
                ELSE [k \in 1 .. n \div 2 + 1 |-> interval[2] - size - 2 * (k - 1)]
  IN  [k \in DOMAIN starts |-> starts[k] + (starts[k] + size) \div 2]

\* Step 6: the edge beyond the less occupied side
Edge(heap, size) ==
  LET left == heap.minOccupied - size \div 2
      right == heap.maxOccupied + size \div 2
      inward == IF heap.minOccupied < 0 THEN -heap.minOccupied ELSE heap.minOccupied
  IN  IF heap.minOccupied > 0 THEN left
      ELSE IF heap.maxOccupied < 0 THEN right
      ELSE IF inward < heap.maxOccupied THEN left ELSE right

\* No visible obstacle is in a path of this direction.
Clear(zed, visible, angle) == \A k \in DOMAIN visible : ~IsObsInPath(zed, visible[k], angle)

NoObstacle(bearing) == [distance |-> -1, bearing |-> bearing]
Failed == [distance |-> -2, bearing |-> 0]

\* All directions tried in a heap, the widest opening first
Tried(heap, size) ==
  LET wide == SelectSeq(heap.open, LAMBDA interval : Width(interval) >= size)
  IN  FlattenSeq([k \in DOMAIN wide |-> Directions(wide[k], size)])

\* Steps 4 to 6: the first direction that is clear, or the edge
BearingOf(zed, visible, heap, tried, size) ==
  LET first == SelectInSeq(tried, LAMBDA angle :
                 Clear(zed, visible, CompassMod(zed.bearing + angle)))
  IN  IF first # 0 THEN RelativeBearing(zed.bearing, CompassMod(zed.bearing + tried[first]))
      ELSE Edge(heap, size)

\* The message when the path ahead is not clear
MsgOf(zed, visible, heap, size) ==
  LET distances == {Seen(zed, visible[k]).dist : k \in DOMAIN visible}
  IN  IF heap.fails THEN Failed
      ELSE [distance |-> CHOOSE d \in distances : \A e \in distances : d <= e,
            bearing |-> BearingOf(zed, visible, heap, Tried(heap, size), size)]

VisibleObs(zed, view, obsList) ==
  At(obsList, {k \in DOMAIN obsList : IsObsVisible(zed, view, obsList[k])})

\* What is open in the view past the visible obstacles
OpenView(zed, view, visible) ==
  OpenIntervalHeap(-view.angle, view.angle,
                   [k \in DOMAIN visible |-> ClosedInterval(zed, view, visible[k])])

ObsMsgOf(zed, view, visible) ==
  IF Clear(zed, visible, zed.bearing) THEN NoObstacle(0)
  ELSE MsgOf(zed, visible, OpenView(zed, view, visible), MinIntervalSize[view.depth])

\* computeObsMsg, Failed when it throws
ObsMsg(zed, view, obsList) == ObsMsgOf(zed, view, VisibleObs(zed, view, obsList))

-------------------------------------------------------------------------------
(* TargetDetector.                                                         *)

\* getPosts: the AR tags, then the right and the left post of every gate
Posts(tags, gateList) ==
  tags \o [k \in 1 .. 2 * Len(gateList) |-> gateList[(k + 1) \div 2][2 - (k % 2)]]

\* The left and right edge of a post, among the bearings of its centre and corners
Edges(zed, post) ==
  LET b == Seen(zed, post).bearing
      h == Seen(zed, post).half
      bears == {RelativeBearing(zed.bearing, CompassMod(c)) : c \in {b - h, b, b + h}}
  IN  <<CHOOSE l \in bears : \A c \in bears : l <= c,
        CHOOSE r \in bears : \A c \in bears : c <= r>>

\* Mutant: no post hides another.
HiddenByNone(zed, posts, i) == <<>>

\* One of the edges lies between the other two.
Overlap(mine, other) ==
  \/ other[1] <= mine[1] /\ mine[1] <= other[2]
  \/ other[1] <= mine[2] /\ mine[2] <= other[2]

\* What the other posts hide of a post: nearer ones that overlap one of its edges
Hidden(zed, posts, i) ==
  At([j \in DOMAIN posts |-> Edges(zed, posts[j])],
     {j \in DOMAIN posts : /\ j # i
                           /\ Seen(zed, posts[i]).dist > Seen(zed, posts[j]).dist
                           /\ Overlap(Edges(zed, posts[i]), Edges(zed, posts[j]))})

\* Of what is hidden at least half is left open in one piece.
HalfOpen(edges, hidden) ==
  LET open == OpenIntervalHeap(edges[1], edges[2], hidden).open
  IN  open # <<>> /\ 2 * Width(open[1]) >= Width(edges)

\* isPostVisible: at least half of it is open; in view; beyond the depth two of
\* its three corners are enough.
IsPostVisible(zed, view, posts, i) ==
  LET seen == Seen(zed, posts[i])
  IN  /\ HalfOpen(Edges(zed, posts[i]), Hidden(zed, posts, i))
      /\ seen.dist >= MinVisibleDist
      /\ Within(view, RelBear(zed, posts[i]))
      /\ seen.dist <= view.depth \/ seen.corners <= view.depth

NoTarget == [id |-> "none", bearing |-> 0]
Target(zed, post) == [id |-> post, bearing |-> RelBear(zed, post)]

\* arTagCompare: from left to right, the nearer first
LeftOf(zed, a, b) ==
  \/ RelBear(zed, a) < RelBear(zed, b)
  \/ RelBear(zed, a) = RelBear(zed, b) /\ Seen(zed, a).dist < Seen(zed, b).dist

\* The first and the last of the posts that are seen, if there are two
Outermost(zed, sorted) ==
  <<IF sorted = <<>> THEN NoTarget ELSE Target(zed, sorted[1]),
    IF Len(sorted) < 2 THEN NoTarget ELSE Target(zed, Last(sorted))>>

\* computeTargetList: the leftmost and, if there are two, the rightmost visible post
TargetList(zed, view, posts) ==
  LET visible == At(posts, {i \in DOMAIN posts : IsPostVisible(zed, view, posts, i)})
  IN  Outermost(zed, Sorted(visible, LAMBDA a, b : LeftOf(zed, a, b)))

-------------------------------------------------------------------------------
(* Perception.vue.  A watcher whose computation throws ends there.         *)

\* computeVisibleObstacles
ComputeObstacles(zed, view, obsList) ==
  LET msg == ObsMsg(zed, view, obsList)
  IN  obstacleMessage' = IF simulatePercep /\ msg # Failed THEN msg ELSE obstacleMessage

Throws(zed, view, obsList) == simulatePercep /\ ObsMsg(zed, view, obsList) = Failed

\* computeVisibleTargets
ComputeTargets(zed, view, posts) ==
  targetList' = IF simulatePercep THEN TargetList(zed, view, posts) ELSE targetList

\* onCurrOdomChange, onZedGimbalPosChange: both detectors get a new zedOdom.
OnZedMoves(zed) ==
  /\ obstacleDetector' = [obstacleDetector EXCEPT !.zed = zed]
  /\ ComputeObstacles(zed, fov, obstacleDetector.obstacles)
  /\ behind' = Throws(zed, fov, obstacleDetector.obstacles)
  /\ IF Throws(zed, fov, obstacleDetector.obstacles)
     THEN UNCHANGED <<targetDetector, targetList>>
     ELSE /\ targetDetector' = [targetDetector EXCEPT !.zed = zed]
          /\ ComputeTargets(zed, fov, targetDetector.posts)

MoveRover(odom) ==
  /\ odom # currOdom
  /\ currOdom' = odom
  /\ OnZedMoves(ZedOdom(odom, zedGimbalPos))
  /\ UNCHANGED <<field, simulatePercep, zedGimbalPos, fov, items>>

TurnGimbal(angle) ==
  /\ angle # zedGimbalPos
  /\ zedGimbalPos' = angle
  /\ OnZedMoves(ZedOdom(currOdom, angle))
  /\ UNCHANGED <<field, simulatePercep, currOdom, fov, items>>

\* Mutant: the targets are not computed again.
SetFovOfObstacles(view) ==
  /\ view # fov
  /\ fov' = view
  /\ ComputeObstacles(obstacleDetector.zed, view, obstacleDetector.obstacles)
  /\ behind' = (behind \/ Throws(obstacleDetector.zed, view, obstacleDetector.obstacles))
  /\ UNCHANGED <<field, simulatePercep, pose, items, detectors, targetList>>

\* onFovChange
SetFov(view) ==
  /\ view # fov
  /\ fov' = view
  /\ ComputeObstacles(obstacleDetector.zed, view, obstacleDetector.obstacles)
  /\ behind' = (behind \/ Throws(obstacleDetector.zed, view, obstacleDetector.obstacles))
  /\ IF Throws(obstacleDetector.zed, view, obstacleDetector.obstacles)
     THEN UNCHANGED targetList
     ELSE ComputeTargets(targetDetector.zed, view, targetDetector.posts)
  /\ UNCHANGED <<field, simulatePercep, pose, items, detectors>>

\* Mutant: the detector keeps its copy.
SetObstaclesOnField(obsList) ==
  /\ obstacles' = obsList
  /\ ComputeObstacles(obstacleDetector.zed, fov, obstacleDetector.obstacles)
  /\ UNCHANGED <<field, simulatePercep, pose, fov, arTags, gates, detectors, targetList, behind>>

\* onObstaclesChange
SetObstacles(obsList) ==
  /\ obstacles' = obsList
  /\ obstacleDetector' = [obstacleDetector EXCEPT !.obstacles = obsList]
  /\ ComputeObstacles(obstacleDetector.zed, fov, obsList)
  /\ UNCHANGED <<field, simulatePercep, pose, fov, arTags, gates, targetDetector, targetList,
                 behind>>

\* onArTagsChange, onGatesChange: getPosts puts the posts together again.
SetPosts(tags, gateList) ==
  /\ arTags' = tags /\ gates' = gateList
  /\ targetDetector' = [targetDetector EXCEPT !.posts = Posts(tags, gateList)]
  /\ ComputeTargets(targetDetector.zed, fov, Posts(tags, gateList))
  /\ UNCHANGED <<field, simulatePercep, pose, fov, obstacles, obstacleDetector, obstacleMessage,
                 behind>>

\* onSimulatePercepChange: the messages are computed only on the way in; on the
\* way out the last ones stay.
FlipSimulatePercep ==
  /\ simulatePercep' = ~simulatePercep
  /\ LET msg == ObsMsg(obstacleDetector.zed, fov, obstacleDetector.obstacles)
     IN  /\ IF simulatePercep \/ msg = Failed THEN UNCHANGED messages
            ELSE /\ obstacleMessage' = msg
                 /\ targetList' = TargetList(targetDetector.zed, fov, targetDetector.posts)
         /\ behind' = (behind \/ (~simulatePercep /\ msg = Failed))
  /\ UNCHANGED <<field, pose, fov, items, detectors>>

\* NavSimulator: messages of the real perception count when it is not simulated.
OnPerception ==
  /\ ~simulatePercep
  /\ obstacleMessage' = Foreign
  /\ targetList' = <<NoTarget, NoTarget>>
  /\ UNCHANGED <<field, simulatePercep, pose, fov, items, detectors, behind>>

\* An item is put on the field, once, or taken away.
Edited(list, choices) ==
  {Append(list, item) : item \in choices \ ToSet(list)}
    \cup {RemoveAt(list, k) : k \in DOMAIN list}

\* created: the detectors compute their first messages.
Init ==
  /\ field \in Fields
  /\ simulatePercep = TRUE
  /\ currOdom \in [spot : Spots, heading : Headings]
  /\ zedGimbalPos = 0
  /\ fov \in Fovs
  /\ obstacles = <<>> /\ arTags = <<>> /\ gates = <<>>
  /\ obstacleDetector = [zed |-> ZedOdom(currOdom, 0), obstacles |-> <<>>]
  /\ targetDetector = [zed |-> ZedOdom(currOdom, 0), posts |-> <<>>]
  /\ obstacleMessage = ObsMsg(obstacleDetector.zed, fov, <<>>)
  /\ targetList = TargetList(targetDetector.zed, fov, <<>>)
  /\ behind = FALSE

Next ==
  \/ \E odom \in [spot : Spots, heading : Headings] : MoveRover(odom)
  \/ \E angle \in Angles : TurnGimbal(angle)
  \/ \E view \in Fovs : SetFov(view)
  \/ \E obsList \in Edited(obstacles, field.obstacles) : SetObstacles(obsList)
  \/ \E tags \in Edited(arTags, field.arTags) : SetPosts(tags, gates)
  \/ \E gateList \in Edited(gates, field.gates) : SetPosts(arTags, gateList)
  \/ FlipSimulatePercep \/ OnPerception

Spec == Init /\ [][Next]_vars
===============================================================================
