-------------------------- MODULE SimPerceptionProofs --------------------------
(***************************************************************************)
(* The simulated perception, for any geometry, fields and views: the       *)
(* detectors' copies follow the rover, and the messages follow the copies, *)
(* but for the one way in which a failed computation leaves them behind.   *)
(* The openings of the view are what its obstacles leave free, and the     *)
(* posts that the target list names are seen.                              *)
(***************************************************************************)
EXTENDS OpenIntervalsProofs

\* The detectors keep what the watchers handed them last.
CopiesFollow ==
  /\ obstacleDetector = [zed |-> zedOdom, obstacles |-> obstacles]
  /\ targetDetector = [zed |-> targetDetector.zed, posts |-> posts]
  /\ ~behind => targetDetector.zed = zedOdom

\* The target list was computed from the target detector's copies.
ListFollowsCopies ==
  ~behind /\ simulatePercep => targetList = TargetList(targetDetector.zed, fov, posts)

\* The inductive invariant.
PInv ==
  /\ simulatePercep \in BOOLEAN /\ behind \in BOOLEAN
  /\ CopiesFollow /\ ObstaclesAreFresh /\ ListFollowsCopies

-------------------------------------------------------------------------------
\* No post stands on an empty field.
LEMMA NoPosts == Posts(<<>>, <<>>) = <<>>
BY DEF Posts, FlattenSeq

\* At first the detectors compute their first messages.
LEMMA InitOk == ASSUME Init PROVE PInv
<1>1. zedOdom = ZedOdom(currOdom, 0) /\ posts = <<>>
  BY NoPosts DEF Init, zedOdom, posts
<1>. QED BY <1>1 DEF Init, PInv, CopiesFollow, ObstaclesAreFresh, ListFollowsCopies

\* A message that was computed is fresh, and one that was not is not asked about.
LEMMA ComputedIsFresh ==
  ASSUME NEW zed, NEW view, NEW obsList, ComputeObstacles(zed, view, obsList)
  PROVE  simulatePercep /\ ObsMsg(zed, view, obsList) # Failed
           => obstacleMessage' = ObsMsg(zed, view, obsList)
BY DEF ComputeObstacles

\* A move of the ZED reaches both detectors, unless computing the obstacles fails.
LEMMA ZedMovesKeeps ==
  ASSUME PInv, NEW zed, zed = zedOdom', OnZedMoves(zed),
         UNCHANGED <<field, simulatePercep, fov, items>>
  PROVE  PInv'
<1>1. /\ obstacleDetector' = [zed |-> zed, obstacles |-> obstacles]
      /\ obstacleDetector.obstacles = obstacles /\ targetDetector.posts = posts
  BY DEF OnZedMoves, PInv, CopiesFollow
<1>2. UNCHANGED <<obstacles, posts, fov, simulatePercep>>
  BY DEF items, posts
<1>3. ObstaclesAreFresh'
  BY <1>1, <1>2, ComputedIsFresh DEF OnZedMoves, ObstaclesAreFresh
<1>4. CASE Throws(zed, fov, obstacles)
  <2>1. behind' = TRUE /\ UNCHANGED targetDetector
    BY <1>1, <1>4 DEF OnZedMoves
  <2>. QED BY <1>1, <1>2, <1>3, <2>1 DEF PInv, CopiesFollow, ListFollowsCopies
<1>5. CASE ~Throws(zed, fov, obstacles)
  <2>1. behind' = FALSE
    BY <1>1, <1>5 DEF OnZedMoves, Throws
  <2>2. targetDetector' = [zed |-> zed, posts |-> posts]
    BY <1>1, <1>5 DEF OnZedMoves, PInv, CopiesFollow
  <2>3. simulatePercep => targetList' = TargetList(zed, fov, posts)
    BY <1>1, <1>5 DEF OnZedMoves, ComputeTargets
  <2>4. CopiesFollow'
    BY <1>1, <1>2, <2>2 DEF CopiesFollow
  <2>5. ListFollowsCopies'
    BY <1>2, <2>2, <2>3 DEF ListFollowsCopies
  <2>. QED BY <1>2, <1>3, <2>1, <2>4, <2>5 DEF PInv
<1>. QED BY <1>4, <1>5

\* Every step keeps the invariant.
LEMMA NextKeeps == ASSUME PInv, [Next]_vars PROVE PInv'
<1>1. ASSUME NEW odom, MoveRover(odom) PROVE PInv'
  <2>1. ZedOdom(odom, zedGimbalPos) = zedOdom'
    BY <1>1 DEF MoveRover, zedOdom
  <2>. QED BY <1>1, <2>1, ZedMovesKeeps DEF MoveRover
<1>2. ASSUME NEW angle, TurnGimbal(angle) PROVE PInv'
  <2>1. ZedOdom(currOdom, angle) = zedOdom'
    BY <1>2 DEF TurnGimbal, zedOdom
  <2>. QED BY <1>2, <2>1, ZedMovesKeeps DEF TurnGimbal
<1>3. ASSUME NEW view, SetFov(view) PROVE PInv'
  <2>1. /\ obstacleDetector.zed = zedOdom /\ obstacleDetector.obstacles = obstacles
        /\ targetDetector.posts = posts /\ fov' = view
        /\ UNCHANGED <<zedOdom, obstacles, posts, simulatePercep, detectors>>
    BY <1>3 DEF SetFov, PInv, CopiesFollow, pose, items, zedOdom, posts
  <2>2. ObstaclesAreFresh'
    BY <1>3, <2>1, ComputedIsFresh DEF SetFov, ObstaclesAreFresh
  <2>3. behind' = (behind \/ Throws(zedOdom, view, obstacles))
    BY <1>3, <2>1 DEF SetFov
  <2>4. CopiesFollow'
    BY <2>1, <2>3 DEF PInv, CopiesFollow, detectors
  <2>5. ListFollowsCopies'
    <3>1. CASE Throws(zedOdom, view, obstacles)
      BY <2>3, <3>1 DEF ListFollowsCopies
    <3>2. CASE ~Throws(zedOdom, view, obstacles)
      <4>1. ComputeTargets(targetDetector.zed, view, posts)
        BY <1>3, <2>1, <3>2 DEF SetFov
      <4>. QED BY <2>1, <4>1 DEF ComputeTargets, ListFollowsCopies, detectors
    <3>. QED BY <3>1, <3>2
  <2>6. behind' \in BOOLEAN
    BY <2>3 DEF PInv, Throws
  <2>. QED BY <2>1, <2>2, <2>4, <2>5, <2>6 DEF PInv
<1>4. ASSUME NEW obsList, SetObstacles(obsList) PROVE PInv'
  <2>1. /\ obstacleDetector.zed = zedOdom /\ obstacles' = obsList
        /\ obstacleDetector' = [zed |-> zedOdom, obstacles |-> obsList]
        /\ UNCHANGED <<zedOdom, posts, fov, simulatePercep, targetDetector, targetList, behind>>
    BY <1>4 DEF SetObstacles, PInv, CopiesFollow, pose, zedOdom, posts
  <2>2. ObstaclesAreFresh'
    BY <1>4, <2>1, ComputedIsFresh DEF SetObstacles, ObstaclesAreFresh
  <2>. QED BY <2>1, <2>2 DEF PInv, CopiesFollow, ListFollowsCopies
<1>5. ASSUME NEW tags, NEW gateList, SetPosts(tags, gateList) PROVE PInv'
  <2>1. /\ posts' = Posts(tags, gateList)
        /\ UNCHANGED <<zedOdom, obstacles, fov, simulatePercep, obstacleDetector,
                       obstacleMessage, behind>>
    BY <1>5 DEF SetPosts, pose, zedOdom, posts
  <2>2. targetDetector' = [zed |-> targetDetector.zed, posts |-> posts']
    BY <1>5, <2>1 DEF SetPosts, PInv, CopiesFollow
  <2>3. ListFollowsCopies'
    BY <1>5, <2>1, <2>2 DEF SetPosts, ComputeTargets, ListFollowsCopies
  <2>4. ObstaclesAreFresh'
    BY <2>1 DEF PInv, ObstaclesAreFresh
  <2>. QED BY <2>1, <2>2, <2>3, <2>4 DEF PInv, CopiesFollow
<1>6. CASE FlipSimulatePercep
  <2>. DEFINE msg == ObsMsg(zedOdom, fov, obstacles)
  <2>1. /\ obstacleDetector.zed = zedOdom /\ obstacleDetector.obstacles = obstacles
        /\ targetDetector.posts = posts
        /\ UNCHANGED <<zedOdom, posts, obstacles, fov, detectors>>
    BY <1>6 DEF FlipSimulatePercep, PInv, CopiesFollow, pose, items, zedOdom, posts
  <2>2. /\ simulatePercep' = ~simulatePercep
        /\ behind' = (behind \/ (~simulatePercep /\ msg = Failed))
        /\ ~simulatePercep /\ msg # Failed =>
             obstacleMessage' = msg /\ targetList' = TargetList(targetDetector.zed, fov, posts)
    BY <1>6, <2>1 DEF FlipSimulatePercep
  <2>3. ObstaclesAreFresh'
    BY <2>1, <2>2 DEF ObstaclesAreFresh
  <2>4. ListFollowsCopies'
    BY <2>1, <2>2 DEF ListFollowsCopies, detectors
  <2>5. CopiesFollow'
    BY <2>1, <2>2 DEF PInv, CopiesFollow, detectors
  <2>6. simulatePercep' \in BOOLEAN /\ behind' \in BOOLEAN
    BY <2>2 DEF PInv
  <2>. QED BY <2>3, <2>4, <2>5, <2>6 DEF PInv
<1>7. CASE OnPerception
  BY <1>7 DEF OnPerception, PInv, CopiesFollow, ObstaclesAreFresh, ListFollowsCopies,
     pose, items, detectors, zedOdom, posts
<1>8. CASE UNCHANGED vars
  BY <1>8 DEF vars, PInv, CopiesFollow, ObstaclesAreFresh, ListFollowsCopies,
     pose, items, detectors, messages, zedOdom, posts
<1>. QED BY <1>1, <1>2, <1>3, <1>4, <1>5, <1>6, <1>7, <1>8 DEF Next

-------------------------------------------------------------------------------
\* The inductive invariant holds of every session.
THEOREM Invariant == Spec => []PInv
BY InitOk, NextKeeps, PTL DEF Spec

\* The obstacle message is that of the rover's present pose, view and obstacles.
THEOREM ObstaclesStayFresh == Spec => []ObstaclesAreFresh
BY Invariant, PTL DEF PInv

\* The target list is that of the present pose, view and posts, or is known to be behind.
THEOREM TargetsStayFresh == Spec => []TargetsAreFresh
<1>1. PInv => TargetsAreFresh
  BY DEF PInv, CopiesFollow, ListFollowsCopies, TargetsAreFresh
<1>. QED BY <1>1, Invariant, PTL

-------------------------------------------------------------------------------
(* The openings of the view.                                               *)

\* What the properties of the openings need to know of the state
ViewInv ==
  /\ field \in Fields /\ fov \in Fovs
  /\ currOdom.spot \in Spots /\ currOdom.heading \in Int /\ zedGimbalPos \in Int
  /\ obstacles \in Seq(field.obstacles)
  /\ arTags \in Seq(field.arTags) /\ gates \in Seq(field.gates)

\* A list that an item is added to, or taken from, is still a list of such items.
LEMMA EditedIsList ==
  ASSUME NEW S, NEW list \in Seq(S), NEW new \in Edited(list, S)
  PROVE  new \in Seq(S)
<1>1. CASE \E item \in S : new = Append(list, item)
  BY <1>1
<1>2. CASE \E k \in DOMAIN list : new = RemoveAt(list, k)
  <2>1. PICK k \in 1 .. Len(list) : new = RemoveAt(list, k)
    BY <1>2
  <2>2. SubSeq(list, 1, k - 1) \in Seq(S) /\ SubSeq(list, k + 1, Len(list)) \in Seq(S)
    OBVIOUS
  <2>. QED BY <2>1, <2>2 DEF RemoveAt
<1>. QED BY <1>1, <1>2 DEF Edited

LEMMA ViewInvInit == ASSUME Init PROVE ViewInv
<1>1. currOdom.spot \in Spots /\ currOdom.heading \in Int
  BY ViewConstants DEF Init
<1>. QED BY <1>1 DEF Init, ViewInv

LEMMA ViewInvNext == ASSUME ViewInv, [Next]_vars PROVE ViewInv'
<1>. USE DEF ViewInv
<1>1. ASSUME NEW odom \in [spot : Spots, heading : Headings], MoveRover(odom) PROVE ViewInv'
  BY <1>1, ViewConstants DEF MoveRover, items
<1>2. ASSUME NEW angle \in Angles, TurnGimbal(angle) PROVE ViewInv'
  BY <1>2, ViewConstants DEF TurnGimbal, items
<1>3. ASSUME NEW view \in Fovs, SetFov(view) PROVE ViewInv'
  BY <1>3 DEF SetFov, items, pose
<1>4. ASSUME NEW obsList \in Edited(obstacles, field.obstacles), SetObstacles(obsList) PROVE ViewInv'
  BY <1>4, EditedIsList DEF SetObstacles, pose
<1>5. ASSUME NEW tags \in Seq(field.arTags), NEW gateList \in Seq(field.gates),
             SetPosts(tags, gateList)
      PROVE  ViewInv'
  BY <1>5 DEF SetPosts, pose
<1>6. CASE FlipSimulatePercep \/ OnPerception
  BY <1>6 DEF FlipSimulatePercep, OnPerception, items, pose
<1>7. CASE UNCHANGED vars
  BY <1>7 DEF vars, items, pose
<1>8. ASSUME NEW tags \in Edited(arTags, field.arTags), SetPosts(tags, gates) PROVE ViewInv'
  BY <1>5, <1>8, EditedIsList
<1>9. ASSUME NEW gateList \in Edited(gates, field.gates), SetPosts(arTags, gateList) PROVE ViewInv'
  BY <1>5, <1>9, EditedIsList
<1>. QED BY <1>1, <1>2, <1>3, <1>4, <1>6, <1>7, <1>8, <1>9 DEF Next

\* It holds in every session.
THEOREM ViewInvariant == Spec => []ViewInv
BY ViewInvInit, ViewInvNext, PTL DEF Spec

\* What is seen of the items on the field
LEMMA SeenOk ==
  ASSUME ViewInv, NEW item \in ItemsOf(field)
  PROVE  /\ zedOdom.bearing \in Int /\ Seen(zedOdom, item).bearing \in Int
         /\ Seen(zedOdom, item).dist \in Nat /\ Seen(zedOdom, item).half \in Nat
         /\ RelBear(zedOdom, item) \in Int /\ item # "none"
<1>1. zedOdom.spot \in Spots /\ zedOdom.bearing \in Int
  BY DEF ViewInv, zedOdom, ZedOdom, CompassMod, FullCircle
<1>2. \A spot \in Spots : LET seen == Sight[spot][item]
                        IN  {seen.dist, seen.half} \subseteq Nat /\ seen.bearing \in Int
  BY ViewConstants DEF ViewInv
<1>3. /\ Seen(zedOdom, item).bearing \in Int
      /\ Seen(zedOdom, item).dist \in Nat /\ Seen(zedOdom, item).half \in Nat
  BY <1>1, <1>2 DEF Seen
<1>4. RelBear(zedOdom, item) \in Int
  <2>. HIDE DEF Seen
  <2>. QED BY <1>1, <1>3 DEF RelBear, RelativeBearing, FullCircle
<1>5. item # "none"
  BY ViewConstants DEF ViewInv
<1>. QED BY <1>1, <1>3, <1>4, <1>5

\* Every visible obstacle closes an interval.
LEMMA ClosedAreIntervals == ASSUME ViewInv PROVE ClosedNow \in Seq(Intervals)
<1>. DEFINE visible == VisibleObs(zedOdom, fov, obstacles)
<1>1. visible \in Seq(field.obstacles)
  BY AtKeeps DEF VisibleObs, ViewInv
<1>2. fov.angle \in Nat
  BY ViewConstants DEF ViewInv
<1>3. ASSUME NEW obs \in field.obstacles PROVE ClosedInterval(zedOdom, fov, obs) \in Intervals
  <2>1. obs \in ItemsOf(field)
    BY DEF ItemsOf
  <2>2. Seen(zedOdom, obs).half \in Nat /\ RelBear(zedOdom, obs) \in Int
    BY <2>1, SeenOk
  <2>. HIDE DEF Seen, RelBear
  <2>. QED BY <1>2, <2>2 DEF ClosedInterval, Intervals, Pairs
<1>4. ClosedNow = [k \in DOMAIN visible |-> ClosedInterval(zedOdom, fov, visible[k])]
  BY DEF ClosedNow
<1>. HIDE DEF visible
<1>5. \A k \in DOMAIN visible : ClosedInterval(zedOdom, fov, visible[k]) \in Intervals
  BY <1>1, <1>3
<1>6. DOMAIN visible = 1 .. Len(visible) /\ Len(visible) \in Nat
  BY <1>1
<1>7. ClosedNow \in [1 .. Len(visible) -> Intervals]
  BY <1>4, <1>5, <1>6
<1>. QED BY <1>6, <1>7

\* The openings of the view that the obstacle message is computed from are exactly what no
\* visible obstacle occupies, with the exceptions that the property names.
THEOREM OpeningsAreExact == Spec => []OpenIsExact
<1>1. ViewInv => OpenIsExact
  <2>. SUFFICES ASSUME ViewInv, ~Nested(ClosedNow), ~HeapNow.fails,
                       NEW cell \in Cells(-fov.angle, fov.angle)
                PROVE  Covered(HeapNow.open, cell) <=> ~Covered(ClosedNow, cell)
    BY DEF OpenIsExact
  <2>1. HeapNow = OpenIntervalHeap(-fov.angle, fov.angle, ClosedNow)
    BY DEF HeapNow, OpenView, ClosedNow
  <2>2. -fov.angle \in Int /\ fov.angle \in Int /\ -fov.angle <= fov.angle
    BY ViewConstants DEF ViewInv
  <2>3. ClosedNow \in Seq(Intervals)
    BY ClosedAreIntervals
  <2>4. ~Covered(ClosedNow, cell) => Covered(HeapNow.open, cell)
    BY <2>1, <2>2, <2>3, FreeIsOffered
  <2>5. Covered(HeapNow.open, cell) => ~Covered(ClosedNow, cell)
    BY <2>1, <2>2, <2>3, OfferedIsFree
  <2>. QED BY <2>4, <2>5
<1>. QED BY <1>1, ViewInvariant, PTL

-------------------------------------------------------------------------------
(* The posts in the target list.                                           *)

\* The posts are items of the field.
LEMMA PostsAreItems == ASSUME ViewInv PROVE posts \in Seq(ItemsOf(field))
<1>. DEFINE n == Len(gates)
            gatePosts == [k \in 1 .. 2 * n |-> gates[(k + 1) \div 2][2 - (k % 2)]]
<1>1. arTags \in Seq(ItemsOf(field)) /\ n \in Nat
  BY DEF ViewInv, ItemsOf
<1>2. ASSUME NEW k \in 1 .. 2 * n PROVE gates[(k + 1) \div 2][2 - (k % 2)] \in ItemsOf(field)
  <2>1. (k + 1) \div 2 \in 1 .. n /\ 2 - (k % 2) \in {1, 2}
    BY <1>1
  <2>2. gates[(k + 1) \div 2] \in field.gates
    BY <2>1 DEF ViewInv
  <2>3. ASSUME NEW gate \in field.gates PROVE gate[1] \in ItemsOf(field) /\ gate[2] \in ItemsOf(field)
    <3>1. gate = <<gate[1], gate[2]>>
      BY ViewConstants DEF ViewInv
    <3>2. gate[1] \in ToSet(gate) /\ gate[2] \in ToSet(gate)
      BY <3>1 DEF ToSet
    <3>. QED BY <3>2 DEF ItemsOf
  <2>. QED BY <2>1, <2>2, <2>3
<1>3. gatePosts \in Seq(ItemsOf(field))
  <2>1. gatePosts \in [1 .. 2 * n -> ItemsOf(field)]
    BY <1>2
  <2>2. 2 * n \in Nat
    BY <1>1
  <2>. HIDE DEF gatePosts
  <2>. QED BY <2>1, <2>2
<1>4. posts = arTags \o gatePosts
  BY DEF posts, Posts
<1>. QED BY <1>1, <1>3, <1>4

\* A post takes up an interval of the view.
LEMMA EdgesAreInterval ==
  ASSUME ViewInv, NEW post \in ItemsOf(field)
  PROVE  Edges(zedOdom, post) \in Intervals
<1>. DEFINE b == Seen(zedOdom, post).bearing
            h == Seen(zedOdom, post).half
            Bear(c) == RelativeBearing(zedOdom.bearing, CompassMod(c))
            bears == {Bear(c) : c \in {b - h, b, b + h}}
            l == CHOOSE x \in bears : \A c \in bears : x <= c
            r == CHOOSE x \in bears : \A c \in bears : c <= x
<1>1. \A c \in Int : Bear(c) \in Int
  BY SeenOk DEF RelativeBearing, CompassMod, FullCircle
<1>2. Bear(b - h) \in Int /\ Bear(b) \in Int /\ Bear(b + h) \in Int
  <2>1. b - h \in Int /\ b \in Int /\ b + h \in Int
    BY SeenOk
  <2>. HIDE DEF Bear
  <2>. QED BY <1>1, <2>1
<1>3. bears = {Bear(b - h), Bear(b), Bear(b + h)}
  OBVIOUS
<1>4. Edges(zedOdom, post) = <<l, r>>
  BY DEF Edges
<1>5. \A x, y, z \in Int : /\ \E v \in {x, y, z} : \A c \in {x, y, z} : v <= c
                           /\ \E v \in {x, y, z} : \A c \in {x, y, z} : c <= v
  OBVIOUS
<1>6. /\ \E v \in bears : \A c \in bears : v <= c
      /\ \E v \in bears : \A c \in bears : c <= v
  <2>. HIDE DEF Bear, b, h, bears
  <2>. QED BY <1>2, <1>3, <1>5
<1>7. bears \subseteq Int
  <2>. HIDE DEF Bear, b, h, bears
  <2>. QED BY <1>2, <1>3
<1>. HIDE DEF bears
<1>8. l \in bears /\ r \in bears /\ l <= r
  BY <1>6
<1>. HIDE DEF l, r
<1>. QED BY <1>4, <1>7, <1>8 DEF Intervals, Pairs

\* And so do the posts that hide it.
LEMMA HiddenAreIntervals ==
  ASSUME ViewInv, NEW i \in DOMAIN posts
  PROVE  Hidden(zedOdom, posts, i) \in Seq(Intervals)
<1>. DEFINE all == [j \in DOMAIN posts |-> Edges(zedOdom, posts[j])]
<1>1. DOMAIN posts = 1 .. Len(posts) /\ Len(posts) \in Nat
      /\ \A j \in DOMAIN posts : posts[j] \in ItemsOf(field)
  BY PostsAreItems
<1>2. all \in [1 .. Len(posts) -> Intervals]
  BY <1>1, EdgesAreInterval
<1>3. all \in Seq(Intervals)
  <2>. HIDE DEF all
  <2>. QED BY <1>1, <1>2
<1>. HIDE DEF all
<1>. QED BY <1>3, AtKeeps DEF Hidden, all

\* Sorting by the bearing keeps the posts and puts the leftmost first.
LEMMA SortedByBearing ==
  ASSUME ViewInv, NEW list \in Seq(ItemsOf(field))
  PROVE  LET sorted == Sorted(list, LAMBDA a, b : LeftOf(zedOdom, a, b))
         IN  /\ DOMAIN sorted = DOMAIN list
             /\ \A i \in DOMAIN list : \E j \in DOMAIN list : sorted[i] = list[j]
             /\ \A i, j \in DOMAIN list :
                  i < j => RelBear(zedOdom, sorted[i]) <= RelBear(zedOdom, sorted[j])
<1>. DEFINE S == ItemsOf(field)
            Left(a, b) == LeftOf(zedOdom, a, b)
            R == {q \in S \X S : Left(q[1], q[2])}
            Order(p) == \A i, j \in DOMAIN list : i < j => ~Left(list[p[j]], list[p[i]])
            sorted == Sorted(list, LAMBDA a, b : LeftOf(zedOdom, a, b))
<1>1. \A x, y \in S : <<x, y>> \in R <=> Left(x, y)
  OBVIOUS
<1>2. \A x \in S : RelBear(zedOdom, x) \in Int /\ Seen(zedOdom, x).dist \in Nat
  BY SeenOk
<1>3. /\ \A x \in S : ~Left(x, x)
      /\ \A x, y, z \in S : Left(x, y) /\ Left(y, z) => Left(x, z)
  BY <1>2 DEF LeftOf
<1>4. \E p \in Bijection(DOMAIN list, DOMAIN list) :
        \A i, j \in DOMAIN list : i < j => <<list[p[j]], list[p[i]]>> \notin R
  <2>1. \A x \in S : <<x, x>> \notin R
    BY <1>1, <1>3
  <2>2. \A x, y, z \in S : <<x, y>> \in R /\ <<y, z>> \in R => <<x, z>> \in R
    BY <1>1, <1>3
  <2>. HIDE DEF R, S
  <2>. QED BY <2>1, <2>2, BijectionSorts DEF S
<1>5. \E p \in Bijection(DOMAIN list, DOMAIN list) : Order(p)
  <2>1. ASSUME NEW p \in Bijection(DOMAIN list, DOMAIN list),
               NEW i \in DOMAIN list, NEW j \in DOMAIN list, <<list[p[j]], list[p[i]]>> \notin R
        PROVE  ~Left(list[p[j]], list[p[i]])
    <3>1. list[p[j]] \in S /\ list[p[i]] \in S
      BY DEF Bijection, Injection
    <3>. HIDE DEF R, S, Left
    <3>. QED BY <1>1, <2>1, <3>1
  <2>. HIDE DEF R
  <2>. QED BY <1>4, <2>1
<1>. DEFINE order == CHOOSE q \in Bijection(DOMAIN list, DOMAIN list) : Order(q)
<1>6. order \in Bijection(DOMAIN list, DOMAIN list) /\ Order(order)
  <2>. HIDE DEF Order
  <2>. QED BY <1>5
<1>7. sorted = [i \in DOMAIN list |-> list[order[i]]]
  BY DEF Sorted
<1>. HIDE DEF order, sorted
<1>8. \A i \in DOMAIN list : order[i] \in DOMAIN list /\ sorted[i] = list[order[i]] /\ sorted[i] \in S
  BY <1>6, <1>7 DEF Bijection, Injection
<1>9. ASSUME NEW i \in DOMAIN list, NEW j \in DOMAIN list, i < j
      PROVE  RelBear(zedOdom, sorted[i]) <= RelBear(zedOdom, sorted[j])
  <2>1. ~Left(sorted[j], sorted[i])
    BY <1>6, <1>8, <1>9
  <2>2. RelBear(zedOdom, sorted[i]) \in Int /\ RelBear(zedOdom, sorted[j]) \in Int
    BY <1>2, <1>8
  <2>3. ~(RelBear(zedOdom, sorted[j]) < RelBear(zedOdom, sorted[i]))
    BY <2>1 DEF LeftOf
  <2>. QED BY <2>2, <2>3
<1>. QED BY <1>7, <1>8, <1>9 DEF sorted

\* A post that the list names, where it is seen and by how much: at least half of what it
\* takes up is free of the posts that hide it.
ListedIsSeen(target) ==
  target.id # "none" =>
    \E i \in DOMAIN posts :
      LET edges == Edges(zedOdom, posts[i])
          hidden == Hidden(zedOdom, posts, i)
          cells == Cells(edges[1], edges[2])
      IN  /\ target = Target(zedOdom, posts[i])
          /\ Within(fov, target.bearing)
          /\ ~Nested(hidden) =>
               2 * Cardinality({c \in cells : ~Covered(hidden, c)}) >= Cardinality(cells)

\* The targets are seen, and the first is not right of the second.
ListIsRight ==
  simulatePercep /\ ~behind =>
    /\ ListedIsSeen(targetList[1]) /\ ListedIsSeen(targetList[2])
    /\ targetList[2].id # "none" =>
         targetList[1].id # "none" /\ targetList[1].bearing <= targetList[2].bearing

\* The posts that are seen are targets that are.
LEMMA VisibleIsSeen ==
  ASSUME ViewInv, NEW i \in DOMAIN posts, IsPostVisible(zedOdom, fov, posts, i)
  PROVE  ListedIsSeen(Target(zedOdom, posts[i]))
<1>1. posts[i] \in ItemsOf(field)
  BY PostsAreItems
<1>2. /\ Edges(zedOdom, posts[i]) \in Intervals
      /\ Hidden(zedOdom, posts, i) \in Seq(Intervals)
  BY <1>1, EdgesAreInterval, HiddenAreIntervals
<1>3. /\ HalfOpen(Edges(zedOdom, posts[i]), Hidden(zedOdom, posts, i))
      /\ Within(fov, RelBear(zedOdom, posts[i]))
  BY DEF IsPostVisible
<1>4. Target(zedOdom, posts[i]).bearing = RelBear(zedOdom, posts[i])
  BY DEF Target
<1>. QED BY <1>2, <1>3, <1>4, HalfOpenShows DEF ListedIsSeen

\* As long as the list is up to date, what it names is in the view, from left to right, and
\* at least half free of the intervals that Hidden holds against it, unless one of these lies
\* within another.  (That a post is seen past all nearer posts is ListedPostsShown.)
THEOREM ListedPostsPassTest == Spec => []ListIsRight
<1>1. ViewInv /\ TargetsAreFresh => ListIsRight
  <2>. SUFFICES ASSUME ViewInv, TargetsAreFresh, simulatePercep, ~behind PROVE ListIsRight
    BY DEF ListIsRight
  <2>. DEFINE places == {i \in DOMAIN posts : IsPostVisible(zedOdom, fov, posts, i)}
              visible == At(posts, places)
              sorted == Sorted(visible, LAMBDA a, b : LeftOf(zedOdom, a, b))
              n == Len(visible)
  <2>1. targetList = Outermost(zedOdom, sorted)
    BY DEF TargetsAreFresh, TargetList
  <2>2. posts \in Seq(ItemsOf(field)) /\ DOMAIN posts = 1 .. Len(posts)
    BY PostsAreItems
  <2>3. visible \in Seq(ItemsOf(field))
    <3>. HIDE DEF places
    <3>. QED BY <2>2, AtKeeps
  <2>4. \A k \in 1 .. n : \E i \in places : visible[k] = posts[i]
    <3>1. PICK g : Names(g, n, Len(posts), places) /\ \A k \in 1 .. n : visible[k] = posts[g[k]]
      <4>. HIDE DEF places
      <4>. QED BY <2>2, AtKeeps
    <3>. HIDE DEF places, visible, n
    <3>. QED BY <3>1 DEF Names
  <2>5. n \in Nat /\ DOMAIN visible = 1 .. n
    BY <2>3
  <2>6. /\ DOMAIN sorted = 1 .. n
        /\ \A i \in 1 .. n : \E j \in 1 .. n : sorted[i] = visible[j]
        /\ \A i, j \in 1 .. n : i < j => RelBear(zedOdom, sorted[i]) <= RelBear(zedOdom, sorted[j])
    <3>. HIDE DEF visible, n
    <3>1. /\ DOMAIN sorted = DOMAIN visible
          /\ \A i \in DOMAIN visible : \E j \in DOMAIN visible : sorted[i] = visible[j]
          /\ \A i, j \in DOMAIN visible :
               i < j => RelBear(zedOdom, sorted[i]) <= RelBear(zedOdom, sorted[j])
      BY <2>3, SortedByBearing
    <3>. HIDE DEF sorted
    <3>. QED BY <2>5, <3>1
  <2>. HIDE DEF sorted, visible, n
  <2>7. ASSUME NEW k \in 1 .. n
        PROVE  /\ ListedIsSeen(Target(zedOdom, sorted[k]))
               /\ RelBear(zedOdom, sorted[k]) \in Int /\ sorted[k] # "none"
    <3>1. PICK i \in places : sorted[k] = posts[i]
      BY <2>4, <2>6
    <3>. QED BY <2>2, <3>1, VisibleIsSeen, SeenOk
  <2>8. sorted = <<>> <=> n = 0
    BY <2>5, <2>6
  <2>9. Len(sorted) = n /\ Last(sorted) = sorted[n]
    BY <2>5, <2>6 DEF Last
  <2>10. ListedIsSeen(NoTarget) /\ NoTarget.id = "none"
    BY DEF ListedIsSeen, NoTarget
  <2>11. \A post : Target(zedOdom, post).id = post
                   /\ Target(zedOdom, post).bearing = RelBear(zedOdom, post)
    BY DEF Target
  <2>12. /\ targetList[1] = IF n = 0 THEN NoTarget ELSE Target(zedOdom, sorted[1])
         /\ targetList[2] = IF n < 2 THEN NoTarget ELSE Target(zedOdom, sorted[n])
    BY <2>1, <2>8, <2>9 DEF Outermost
  <2>13. ListedIsSeen(targetList[1]) /\ ListedIsSeen(targetList[2])
    BY <2>5, <2>7, <2>10, <2>12
  <2>14. CASE n < 2
    BY <2>10, <2>12, <2>13, <2>14 DEF ListIsRight
  <2>15. CASE n >= 2
    <3>1. 1 \in 1 .. n /\ n \in 1 .. n /\ 1 < n
      BY <2>5, <2>15
    <3>2. RelBear(zedOdom, sorted[1]) <= RelBear(zedOdom, sorted[n]) /\ sorted[1] # "none"
      BY <2>6, <2>7, <3>1
    <3>3. targetList[1] = Target(zedOdom, sorted[1]) /\ targetList[2] = Target(zedOdom, sorted[n])
      BY <2>5, <2>12, <2>15
    <3>. QED BY <2>11, <2>13, <3>2, <3>3 DEF ListIsRight
  <2>. QED BY <2>5, <2>14, <2>15
<1>. QED BY <1>1, ViewInvariant, TargetsStayFresh, PTL

-------------------------------------------------------------------------------
(* The posts in the target list, by the angles they take.                  *)

\* What is kept of a list covers what one of the places kept covers, and one of the kept
\* intervals is nested if and only if this holds of two of the places.
NestedIn(a, b) == a = b \/ (a[1] < b[1] /\ b[2] <= a[2])

LEMMA AtCovers ==
  ASSUME NEW S, NEW s \in Seq(S), NEW places \in SUBSET DOMAIN s
  PROVE  /\ \A cell : Covered(At(s, places), cell) <=> \E i \in places : CoveredBy(s[i], cell)
         /\ Nested(At(s, places)) <=> \E i, j \in places : i # j /\ NestedIn(s[i], s[j])
<1>. DEFINE kept == At(s, places)
            m == Len(kept)
<1>1. PICK g : Names(g, m, Len(s), places) /\ \A k \in 1 .. m : kept[k] = s[g[k]]
  <2>1. \E g : Names(g, Len(At(s, places)), Len(s), places)
               /\ \A k \in 1 .. Len(At(s, places)) : At(s, places)[k] = s[g[k]]
    BY AtKeeps
  <2>. QED BY <2>1
<1>2. DOMAIN kept = 1 .. m /\ m \in Nat
  BY AtKeeps
<1>3. (1 .. Len(s)) \cap places = places
  OBVIOUS
<1>. HIDE DEF kept, m
<1>4. /\ \A k \in 1 .. m : g[k] \in places /\ kept[k] = s[g[k]]
      /\ \A j, k \in 1 .. m : j # k => g[j] # g[k]
      /\ \A i \in places : \E k \in 1 .. m : g[k] = i
  <2>1. \A j, k \in 1 .. m : j < k => g[j] < g[k]
    BY <1>1 DEF Names
  <2>2. \A k \in 1 .. m : g[k] \in Int
    BY <1>1, <1>3 DEF Names
  <2>3. \A j, k \in 1 .. m : j # k => g[j] # g[k]
    BY <1>2, <2>1, <2>2
  <2>. QED BY <1>1, <1>3, <2>3 DEF Names
<1>5. ASSUME NEW cell PROVE Covered(kept, cell) <=> \E i \in places : CoveredBy(s[i], cell)
  <2>1. Covered(kept, cell) <=> \E k \in 1 .. m : CoveredBy(kept[k], cell)
    BY <1>2 DEF Covered, ToSet
  <2>2. \A k \in 1 .. m : CoveredBy(kept[k], cell) <=> CoveredBy(s[g[k]], cell)
    BY <1>4
  <2>. QED BY <1>4, <2>1, <2>2
<1>6. Nested(kept) <=> \E i, j \in places : i # j /\ NestedIn(s[i], s[j])
  <2>1. Nested(kept) <=> \E j, k \in 1 .. m : j # k /\ NestedIn(kept[j], kept[k])
    BY <1>2 DEF Nested, NestedIn
  <2>2. \A j, k \in 1 .. m : NestedIn(kept[j], kept[k]) <=> NestedIn(s[g[j]], s[g[k]])
    BY <1>4
  <2>. QED BY <1>4, <2>1, <2>2
<1>. QED BY <1>5, <1>6 DEF kept

\* Where calcRelativeBearing does not cut, the detector's edges are those of the post.
LEMMA UncutEdges ==
  ASSUME ViewInv, NEW post \in ItemsOf(field), Uncut(post)
  PROVE  Edges(zedOdom, post) = Extent(post)
<1>. DEFINE z == zedOdom.bearing
            b == Seen(zedOdom, post).bearing
            h == Seen(zedOdom, post).half
            r == RelBear(zedOdom, post)
            Bear(c) == RelativeBearing(z, CompassMod(c))
            bears == {Bear(c) : c \in {b - h, b, b + h}}
<1>1. b \in Int /\ h \in Nat /\ r \in Int
  BY SeenOk
<1>2. z \in 0 .. 71
  <2>1. z = (currOdom.heading + zedGimbalPos) % 72
    BY DEF zedOdom, ZedOdom, CompassMod, FullCircle
  <2>2. currOdom.heading + zedGimbalPos \in Int
    BY DEF ViewInv
  <2>. HIDE DEF z
  <2>. QED BY <2>1, <2>2
<1>3. -36 < r - h /\ r + h < 36 /\ Extent(post) = <<r - h, r + h>>
  BY DEF Uncut, Extent, FullCircle
<1>4. r = RelativeBearing(z, b)
  BY DEF RelBear
<1>. HIDE DEF z, b, h, r
<1>5. ASSUME NEW d \in Int, -36 < r + d, r + d < 36 PROVE Bear(b + d) = r + d
  <2>1. \E q \in Int : r = b - z + 72 * q
    <3>1. b - z = b - z + 72 * 0 /\ b - z - 72 = b - z + 72 * (-1) /\ b - z + 72 = b - z + 72 * 1
      BY <1>1, <1>2
    <3>. QED BY <1>4, <3>1 DEF RelativeBearing, FullCircle
  <2>2. \E q \in Int : (b + d) % 72 = b + d + 72 * q
    <3>1. (b + d) % 72 = b + d + 72 * (-((b + d) \div 72))
      BY <1>1
    <3>. QED BY <1>1, <3>1
  <2>. DEFINE m == (b + d) % 72
  <2>3. m \in 0 .. 71
    BY <1>1
  <2>4. Bear(b + d) = RelativeBearing(z, m)
    BY DEF CompassMod, FullCircle
  <2>. HIDE DEF m, Bear
  <2>5. -36 <= Bear(b + d) /\ Bear(b + d) <= 36 /\ \E q \in Int : Bear(b + d) = m - z + 72 * q
    <3>1. m - z = m - z + 72 * 0 /\ m - z - 72 = m - z + 72 * (-1) /\ m - z + 72 = m - z + 72 * 1
      BY <1>2, <2>3
    <3>. QED BY <1>2, <2>3, <2>4, <3>1 DEF RelativeBearing, FullCircle
  <2>6. \E q \in Int : Bear(b + d) = r + d + 72 * q
    <3>1. PICK p1 \in Int : r = b - z + 72 * p1
      BY <2>1
    <3>2. PICK p2 \in Int : m = b + d + 72 * p2
      BY <2>2 DEF m
    <3>3. PICK p3 \in Int : Bear(b + d) = m - z + 72 * p3
      BY <2>5
    <3>4. Bear(b + d) = r + d + 72 * (p2 + p3 - p1) /\ p2 + p3 - p1 \in Int
      BY <1>1, <1>2, <3>1, <3>2, <3>3
    <3>. QED BY <3>4
  <2>. QED BY <1>1, <1>5, <2>5, <2>6
<1>6. Bear(b - h) = r - h /\ Bear(b) = r /\ Bear(b + h) = r + h
  <2>1. Bear(b + (-h)) = r + (-h) /\ Bear(b + 0) = r + 0 /\ Bear(b + h) = r + h
    <3>. HIDE DEF Bear
    <3>. QED BY <1>1, <1>3, <1>5
  <2>2. b + (-h) = b - h /\ b + 0 = b /\ r + (-h) = r - h /\ r + 0 = r
    BY <1>1
  <2>. QED BY <2>1, <2>2
<1>7. bears = {r - h, r, r + h}
  <2>1. bears = {Bear(b - h), Bear(b), Bear(b + h)}
    OBVIOUS
  <2>. HIDE DEF Bear
  <2>. QED BY <1>6, <2>1
<1>8. Edges(zedOdom, post) = <<CHOOSE x \in bears : \A c \in bears : x <= c,
                              CHOOSE x \in bears : \A c \in bears : c <= x>>
  BY DEF Edges, z, b, h
<1>. HIDE DEF bears
<1>9. /\ (CHOOSE x \in bears : \A c \in bears : x <= c) = r - h
      /\ (CHOOSE x \in bears : \A c \in bears : c <= x) = r + h
  BY <1>1, <1>7
<1>. QED BY <1>3, <1>8, <1>9

\* A post of which half is free of what the detector holds against it shows past all nearer
\* posts, where these are counted: such a post covers nothing of it without covering an edge.
LEMMA SeenShows ==
  ASSUME ViewInv, NEW i \in DOMAIN posts, IsCounted(posts[i]),
         LET edges == Edges(zedOdom, posts[i])
             hidden == Hidden(zedOdom, posts, i)
             cells == Cells(edges[1], edges[2])
         IN  ~Nested(hidden) =>
               2 * Cardinality({c \in cells : ~Covered(hidden, c)}) >= Cardinality(cells)
  PROVE  Shows(posts[i])
<1>. DEFINE post == posts[i]
            near == NearerAt(post)
            hiding == {j \in DOMAIN posts : /\ j # i
                                            /\ Seen(zedOdom, posts[i]).dist > Seen(zedOdom, posts[j]).dist
                                            /\ Overlap(Edges(zedOdom, posts[i]), Edges(zedOdom, posts[j]))}
            extents == [j \in DOMAIN posts |-> Extent(posts[j])]
            edges == [j \in DOMAIN posts |-> Edges(zedOdom, posts[j])]
            hidden == Hidden(zedOdom, posts, i)
            cells == Cells(Extent(post)[1], Extent(post)[2])
<1>1. /\ DOMAIN posts = 1 .. Len(posts) /\ Len(posts) \in Nat
      /\ \A j \in DOMAIN posts : /\ posts[j] \in ItemsOf(field)
                                 /\ Seen(zedOdom, posts[j]).dist \in Nat
                                 /\ Extent(posts[j]) \in Intervals
                                 /\ Edges(zedOdom, posts[j]) \in Intervals
  <2>1. ASSUME NEW item \in ItemsOf(field)
        PROVE  Extent(item) \in Intervals
    <3>1. RelBear(zedOdom, item) \in Int /\ Seen(zedOdom, item).half \in Nat
      BY SeenOk
    <3>. HIDE DEF Seen, RelBear
    <3>. QED BY <3>1 DEF Extent, Intervals, Pairs
  <2>. QED BY <2>1, PostsAreItems, SeenOk, EdgesAreInterval
<1>2. /\ near \in SUBSET DOMAIN posts /\ hiding \in SUBSET near
      /\ \A j \in near : j # i /\ Seen(zedOdom, posts[i]).dist > Seen(zedOdom, posts[j]).dist
  BY <1>1 DEF NearerAt
<1>3. /\ Edges(zedOdom, post) = Extent(post)
      /\ \A j \in near : Edges(zedOdom, posts[j]) = Extent(posts[j])
  BY <1>1, <1>2, UncutEdges DEF IsCounted
<1>4. extents \in Seq(Intervals) /\ DOMAIN extents = DOMAIN posts
      /\ edges \in Seq(Intervals) /\ DOMAIN edges = DOMAIN posts
  <2>1. extents \in [1 .. Len(posts) -> Intervals] /\ edges \in [1 .. Len(posts) -> Intervals]
    BY <1>1
  <2>. HIDE DEF extents, edges
  <2>. QED BY <1>1, <2>1
<1>5. hidden = At(edges, hiding) /\ Nearer(post) = At(extents, near)
  BY DEF Hidden, Nearer, ExtentsAt
<1>6. \A j \in near : edges[j] = Extent(posts[j]) /\ extents[j] = Extent(posts[j])
  BY <1>2, <1>3
<1>7. \A j \in near : ~(Extent(post)[1] < Extent(posts[j])[1] /\ Extent(posts[j])[2] < Extent(post)[2])
  BY DEF IsCounted
<1>8. ASSUME NEW j \in near PROVE j \in hiding <=> Overlap(Extent(post), Extent(posts[j]))
  BY <1>2, <1>3
<1>. HIDE DEF near, hiding, extents, edges, hidden
<1>9. /\ \A c : Covered(hidden, c) <=> \E j \in hiding : CoveredBy(Extent(posts[j]), c)
      /\ Nested(hidden) <=> \E j, k \in hiding : j # k /\ NestedIn(Extent(posts[j]), Extent(posts[k]))
  <2>1. hiding \in SUBSET DOMAIN edges
    BY <1>2, <1>4
  <2>2. /\ \A c : Covered(At(edges, hiding), c) <=> \E j \in hiding : CoveredBy(edges[j], c)
        /\ Nested(At(edges, hiding)) <=> \E j, k \in hiding : j # k /\ NestedIn(edges[j], edges[k])
    BY <1>4, <2>1, AtCovers
  <2>3. \A j \in hiding : edges[j] = Extent(posts[j])
    BY <1>2, <1>6
  <2>. QED BY <1>5, <2>2, <2>3
<1>10. /\ \A c : Covered(Nearer(post), c) <=> \E j \in near : CoveredBy(Extent(posts[j]), c)
       /\ Nested(Nearer(post)) <=> \E j, k \in near : j # k /\ NestedIn(Extent(posts[j]), Extent(posts[k]))
  <2>1. near \in SUBSET DOMAIN extents
    BY <1>2, <1>4
  <2>2. /\ \A c : Covered(At(extents, near), c) <=> \E j \in near : CoveredBy(extents[j], c)
        /\ Nested(At(extents, near)) <=> \E j, k \in near : j # k /\ NestedIn(extents[j], extents[k])
    BY <1>4, <2>1, AtCovers
  <2>. QED BY <1>5, <1>6, <2>2
<1>11. ~Nested(hidden)
  BY <1>2, <1>9, <1>10 DEF IsCounted
<1>12. ASSUME NEW c \in cells PROVE Covered(hidden, c) <=> Covered(Nearer(post), c)
  <2>1. ASSUME NEW j \in near, CoveredBy(Extent(posts[j]), c) PROVE j \in hiding
    <3>. DEFINE p == Extent(post)
                o == Extent(posts[j])
    <3>1. /\ p[1] \in Int /\ p[2] \in Int /\ o[1] \in Int /\ o[2] \in Int
          /\ p[1] <= p[2] /\ o[1] <= o[2]
      BY <1>1, <1>2 DEF Intervals, Pairs
    <3>2. p[1] <= c /\ c < p[2] /\ o[1] <= c /\ c < o[2] /\ c \in Int
      BY <2>1, <3>1 DEF Cells, CoveredBy
    <3>3. ~(p[1] < o[1] /\ o[2] < p[2])
      BY <1>7
    <3>. HIDE DEF p, o
    <3>4. Overlap(p, o)
      BY <3>1, <3>2, <3>3 DEF Overlap
    <3>. QED BY <1>8, <3>4 DEF p, o
  <2>. QED BY <1>2, <1>9, <1>10, <2>1
<1>13. /\ cells = Cells(Edges(zedOdom, post)[1], Edges(zedOdom, post)[2])
       /\ {c \in cells : ~Covered(hidden, c)} = {c \in cells : ~Covered(Nearer(post), c)}
  BY <1>3, <1>12
<1>14. 2 * Cardinality({c \in cells : ~Covered(hidden, c)}) >= Cardinality(cells)
  BY <1>11, <1>13 DEF hidden
<1>. QED BY <1>13, <1>14 DEF Shows

\* At least half of every post in the target list can be seen past the nearer posts, with the
\* exceptions that the property names.
THEOREM ListedPostsShown == Spec => []ListedPostsShow
<1>1. ViewInv /\ ListIsRight => ListedPostsShow
  <2>. SUFFICES ASSUME ViewInv, ListIsRight, simulatePercep, ~behind, NEW k \in 1 .. 2,
                       NEW post \in ToSet(posts), targetList[k].id = post, IsCounted(post)
                PROVE  Shows(post)
    BY DEF ListedPostsShow
  <2>1. post # "none"
    <3>1. post \in ItemsOf(field)
      BY PostsAreItems DEF ToSet
    <3>. QED BY <3>1, SeenOk
  <2>2. ListedIsSeen(targetList[k])
    BY DEF ListIsRight
  <2>3. PICK i \in DOMAIN posts :
          LET edges == Edges(zedOdom, posts[i])
              hidden == Hidden(zedOdom, posts, i)
              cells == Cells(edges[1], edges[2])
          IN  /\ targetList[k] = Target(zedOdom, posts[i])
              /\ ~Nested(hidden) =>
                   2 * Cardinality({c \in cells : ~Covered(hidden, c)}) >= Cardinality(cells)
    BY <2>1, <2>2 DEF ListedIsSeen
  <2>4. posts[i] = post
    BY <2>3 DEF Target
  <2>. QED BY <2>3, <2>4, SeenShows
<1>. QED BY <1>1, ViewInvariant, ListedPostsPassTest, PTL
===============================================================================
