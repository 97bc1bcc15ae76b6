------------------------ MODULE SimPerceptionProperties ------------------------
(***************************************************************************)
(* What the simulated perception promises to the rest of the simulator.    *)
(***************************************************************************)
EXTENDS SimPerception

Zed == INSTANCE ZedGeometry

-------------------------------------------------------------------------------
(* The messages and what they are computed from.                           *)

zedOdom == ZedOdom(currOdom, zedGimbalPos)
posts == Posts(arTags, gates)

\* While perception is simulated the obstacle message is the one the rover's present
\* pose, view and obstacles give, whatever was moved, edited or switched in between,
\* unless computing it fails (Perception.vue's watchers and the copies they feed).
ObstaclesAreFresh ==
  LET msg == ObsMsg(zedOdom, fov, obstacles)
  IN  simulatePercep /\ msg # Failed => obstacleMessage = msg

\* The target list follows the rover, the view and the posts.  A failed obstacle
\* computation ends the watcher before the target detector hears of it; the next move
\* of the rover or its gimbal that does not fail makes up for that, nothing else does.
TargetsAreFresh ==
  behind \/ /\ targetDetector = [zed |-> zedOdom, posts |-> posts]
            /\ simulatePercep => targetList = TargetList(zedOdom, fov, posts)

-------------------------------------------------------------------------------
(* The open intervals and the posts.                                       *)

\* The units of the view's range, each by where it starts
Cells(from, to) == from .. to - 1
CoveredBy(interval, cell) == interval[1] <= cell /\ cell < interval[2]
Covered(intervals, cell) == \E interval \in ToSet(intervals) : CoveredBy(interval, cell)

\* One of the intervals lies within another that starts before it, or equals another.
Nested(intervals) ==
  \E i, j \in DOMAIN intervals :
    LET a == intervals[i]
        b == intervals[j]
    IN  i # j /\ (a = b \/ (a[1] < b[1] /\ b[2] <= a[2]))

ClosedNow ==
  LET visible == VisibleObs(zedOdom, fov, obstacles)
  IN  [k \in DOMAIN visible |-> ClosedInterval(zedOdom, fov, visible[k])]
HeapNow == OpenView(zedOdom, fov, VisibleObs(zedOdom, fov, obstacles))

\* The heap offers exactly the directions no obstacle occupies, as long as no obstacle
\* hides within the angles of another and some obstacle is within the view's angles
\* (open_interval_heap.ts, combining and trimming).
OpenIsExact ==
  ~Nested(ClosedNow) /\ ~HeapNow.fails =>
    \A cell \in Cells(-fov.angle, fov.angle) :
      Covered(HeapNow.open, cell) <=> ~Covered(ClosedNow, cell)

\* "finding open intervals in a given range that has certain intervals that are
\* occupied" (open_interval_heap.ts:34): an open interval is never occupied.
OpenIsFree ==
  \A cell \in Cells(-fov.angle, fov.angle) :
    ~(Covered(HeapNow.open, cell) /\ Covered(ClosedNow, cell))

\* The angles a post takes, without the cut that calcRelativeBearing makes behind the ZED
Extent(post) ==
  <<RelBear(zedOdom, post) - Seen(zedOdom, post).half,
    RelBear(zedOdom, post) + Seen(zedOdom, post).half>>

\* It ends before the cut, on both sides.
Uncut(post) == -(FullCircle \div 2) < Extent(post)[1] /\ Extent(post)[2] < FullCircle \div 2

\* The angles that the posts at some places of the list take
ExtentsAt(places) == At([j \in DOMAIN posts |-> Extent(posts[j])], places)

NearerAt(post) == {j \in DOMAIN posts : Seen(zedOdom, posts[j]).dist < Seen(zedOdom, post).dist}
Nearer(post) == ExtentsAt(NearerAt(post))

\* At least half of what the post takes is free of the nearer posts.
Shows(post) ==
  LET cells == Cells(Extent(post)[1], Extent(post)[2])
  IN  2 * Cardinality({c \in cells : ~Covered(Nearer(post), c)}) >= Cardinality(cells)

\* isPostVisible counts what the nearer posts hide: the cut leaves all of them alone, none of
\* them hides within another, and none stands before the middle of the post with both of
\* its edges in sight.
IsCounted(post) ==
  /\ Uncut(post) /\ \A j \in NearerAt(post) : Uncut(posts[j])
  /\ ~Nested(Nearer(post))
  /\ ~\E j \in NearerAt(post) : /\ Extent(post)[1] < Extent(posts[j])[1]
                                /\ Extent(posts[j])[2] < Extent(post)[2]

\* At least half of every post in the list can be seen past the nearer posts, where these
\* are counted (target_detector.ts).
ListedPostsShow ==
  simulatePercep /\ ~behind =>
    \A k \in 1 .. 2, post \in ToSet(posts) :
      targetList[k].id = post /\ IsCounted(post) => Shows(post)

\* "If less than 50% of tag unblocked, we can't see it" (target_detector.ts:268): at least
\* half of every post in the list can be seen past the nearer posts.
AllListedPostsShow ==
  simulatePercep /\ ~behind =>
    \A k \in 1 .. 2, post \in ToSet(posts) : targetList[k].id = post => Shows(post)

-------------------------------------------------------------------------------
(* The case analysis of obstacle_detector.ts against the figures it stands *)
(* for, over a grid of obstacles.                                          *)

Probes == [x : {10 * k : k \in -7 .. 7}, y : {10 * k : k \in -5 .. 17}, r : {1, 3, 12, 30}]
Turns == {<<0, 5>>, <<3, 4>>, <<-3, 4>>, <<-4, 3>>}
Raster == {5 * k : k \in -17 .. 17} \X {5 * k : k \in 0 .. 25}
Slack == 7              \* the raster's points are 5 apart

PathRaster == {p \in Raster : Zed!Abs(p[1]) <= Zed!HalfPath
                              /\ Zed!Sq(p[1]) + Zed!Sq(p[2]) <= Zed!Sq(Zed!Depth)}
ViewRaster == {p \in Raster : 4 * Zed!Abs(p[1]) <= 3 * p[2]
                              /\ Zed!Sq(p[1]) + Zed!Sq(p[2]) <= Zed!Sq(Zed!Depth)}

\* Some point of the figure, turned, is within d of the obstacle.
Meets(figure, obs, dir, d) ==
  \E p \in figure :
    Zed!Sq(Zed!Across(obs, dir) - 5 * p[1]) + Zed!Sq(Zed!Along(obs, dir) - 5 * p[2])
      <= Zed!Sq(5 * d)

\* The obstacles that the case analysis judges wrongly.  Only obstacles that reach into
\* the path may be said to be in it, straight ahead always, and in any direction for
\* obstacles beside the path; none that does may be missed between the ZED and the depth
\* of its view (isObsInPath).  What is said to be seen must reach into the view, unless it
\* lies behind the ZED (isObsVisible measures to the edge's line, which goes on there).
JudgedRight(obs) ==
  /\ \A dir \in Turns :
       LET between == 0 <= Zed!Along(obs, dir) /\ Zed!Along(obs, dir) <= 5 * Zed!DepthY
           inPath == Zed!IsObsInPath(obs, dir)
       IN  /\ inPath /\ (dir = Zed!Ahead \/ between)
                => Meets(PathRaster, obs, dir, obs.r + Slack)
           /\ between /\ Meets(PathRaster, obs, dir, obs.r) => inPath
  /\ Zed!IsObsVisible(obs) /\ 3 * Zed!Abs(obs.x) + 4 * obs.y >= 0
       => Meets(ViewRaster, obs, Zed!Ahead, obs.r + Slack)
Misjudged == {obs \in Probes : ~JudgedRight(obs)}

\* An obstacle on the field is judged rightly, wherever it lies, however large it is and
\* in whichever direction the path is asked about.
CasesAreRight == obstacles # <<>> => Misjudged = {}
===============================================================================
