------------------------------ MODULE ZedGeometry ------------------------------
(***************************************************************************)
(* perception/obstacle_detector.ts: the case analysis that decides whether *)
(* an obstacle, a disc, lies in a path and whether the ZED sees it.        *)
(*                                                                         *)
(* Lengths are in 1/40 m and exact: the depth of the view is 3.125 m, so   *)
(* that a path of 1.75 m ends at an exact height, and the edges of the     *)
(* view have the slope 3 : 4.  An obstacle is [x, y, r] as the ZED sees    *)
(* it: x to its right, y ahead, r half its size (the canvas has y          *)
(* downwards).  A direction is <<s, c>>, five times its sine and cosine.   *)
(***************************************************************************)
EXTENDS Integers

HalfPath == 35          \* (ROVER.width + 2 * OBS_PAD) / 2
Depth == 125            \* fov.depth
DepthY == 120           \* sqrt(depth^2 - (pathWdth / 2)^2)
MinObsSize == 4         \* MIN_OBS_SIZE

Ahead == <<0, 5>>

Abs(n) == IF n < 0 THEN -n ELSE n
Sq(n) == n * n
\* The distance of an obstacle's centre from a point is at most d.
Near(obs, x, y, d) == d >= 0 /\ Sq(obs.x - x) + Sq(obs.y - y) <= Sq(d)

\* transformPoint, with the direction as the y-axis; five times the coordinates
Across(obs, dir) == dir[2] * obs.x - dir[1] * obs.y
Along(obs, dir) == dir[1] * obs.x + dir[2] * obs.y

\* Mutant: only the obstacle's centre is looked at.
ReachesPathByCentre(obs, dir) == Abs(Across(obs, dir)) <= 5 * HalfPath

\* isObsInPath, beside the path: its edge is nearer than the obstacle's
ReachesPath(obs, dir) == Abs(Across(obs, dir)) <= 5 * (HalfPath + obs.r)

\* isObsInPath.  The corners of the path are those of the path straight ahead,
\* whatever the direction asked about.
IsObsInPath(obs, dir) ==
  LET x == Across(obs, dir)
      y == Along(obs, dir)
      beside == Abs(x) > 5 * HalfPath
      corner == IF x < 0 THEN -HalfPath ELSE HalfPath
  IN  \/ ~beside /\ y >= 0 /\ Near(obs, 0, 0, Depth + obs.r)          \* cases 1, 2
      \/ ~beside /\ y < 0 /\ y > 5 * obs.r                           \* case 3
      \/ beside /\ y < 0 /\ Near(obs, corner, 0, obs.r)              \* cases 4, 7
      \/ beside /\ y > 5 * DepthY /\ Near(obs, corner, DepthY, obs.r) \* cases 5, 8
      \/ /\ beside /\ 0 <= y /\ y <= 5 * DepthY                      \* cases 6, 9
         /\ ReachesPath(obs, dir)

\* isObsVisible, beside the view: enough of the obstacle reaches over its edge.
ReachesView(obs, inside) == -inside <= 5 * (obs.r - MinObsSize)

\* isObsVisible, with inside five times the distance to the nearer edge of the view
IsObsVisible(obs) ==
  LET inside == 3 * obs.y - 4 * Abs(obs.x)
      inDepth == Near(obs, 0, 0, Depth)
  IN  \/ /\ inside >= 0 /\ inDepth                                   \* case 1
         /\ \/ obs.r >= MinObsSize
            \/ inside >= 5 * obs.r /\ 2 * obs.r >= MinObsSize
            \/ inside < 5 * obs.r /\ 5 * obs.r + inside >= 5 * MinObsSize
      \/ /\ inside >= 0 /\ ~inDepth                                  \* case 2
         /\ Near(obs, 0, 0, Depth + obs.r - MinObsSize)
      \/ /\ inside < 0 /\ inDepth                                    \* cases 3, 5
         /\ ReachesView(obs, inside)
      \/ /\ inside < 0 /\ ~inDepth                                   \* cases 4, 6
         /\ Near([obs EXCEPT !.x = Abs(obs.x)], 75, 100, obs.r - MinObsSize)
===============================================================================
