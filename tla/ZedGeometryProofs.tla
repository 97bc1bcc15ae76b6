-------------------------- MODULE ZedGeometryProofs --------------------------
(***************************************************************************)
(* The case analysis of the obstacle detector, for every obstacle and      *)
(* direction of the path: what is said to be in the path, or to be seen,   *)
(* is there.  The proofs give the point of the path, or of the view, that  *)
(* each case stands for.                                                   *)
(***************************************************************************)
EXTENDS SimPerceptionProperties, TLAPS

Disc == [x : Int, y : Int, r : Nat]
Turned == {dir \in Int \X Int : Zed!Sq(dir[1]) + Zed!Sq(dir[2]) = 25}

\* The path as the ZED sees it, in five times the coordinates
Path ==
  {p \in Int \X Int : /\ p[2] >= 0 /\ Zed!Abs(p[1]) <= 5 * Zed!HalfPath
                      /\ Zed!Sq(p[1]) + Zed!Sq(p[2]) <= Zed!Sq(5 * Zed!Depth)}

\* A square grows with the number's distance from 0.
LEMMA SquaresGrow ==
  ASSUME NEW a \in Int, NEW b \in Nat
  PROVE  /\ -b <= a /\ a <= b => a * a <= b * b
         /\ a * a <= b * b => -b <= a /\ a <= b
         /\ a * a \in Nat
<1>1. ASSUME NEW m \in Nat, NEW n \in Nat, m <= n PROVE m * m <= n * n
  <2>1. m * m <= m * n /\ m * n <= n * n
    BY <1>1
  <2>. QED BY <2>1
<1>2. ASSUME NEW m \in Nat, NEW n \in Nat, m * m <= n * n PROVE m <= n
  <2>1. ASSUME n + 1 <= m PROVE FALSE
    <3>1. (n + 1) * (n + 1) <= m * m
      BY <1>1, <2>1
    <3>. QED BY <1>2, <3>1
  <2>. QED BY <2>1
<1>3. CASE a >= 0
  BY <1>1, <1>2, <1>3
<1>4. CASE a < 0
  <2>1. -a \in Nat /\ a * a = (-a) * (-a)
    BY <1>4
  <2>. QED BY <1>1, <1>2, <1>4, <2>1
<1>. QED BY <1>3, <1>4

\* A turn keeps the distance from the ZED.
LEMMA TurnKeepsDistance ==
  ASSUME NEW obs \in Disc, NEW dir \in Turned
  PROVE  /\ Zed!Across(obs, dir) \in Int /\ Zed!Along(obs, dir) \in Int
         /\ Zed!Sq(Zed!Across(obs, dir)) + Zed!Sq(Zed!Along(obs, dir))
              = 25 * (Zed!Sq(obs.x) + Zed!Sq(obs.y))
<1>. DEFINE x == obs.x
            y == obs.y
            s == dir[1]
            c == dir[2]
<1>1. x \in Int /\ y \in Int /\ s \in Int /\ c \in Int /\ s * s + c * c = 25
  BY DEF Disc, Turned, Zed!Sq
<1>2. Zed!Across(obs, dir) = c * x - s * y /\ Zed!Along(obs, dir) = s * x + c * y
  BY DEF Zed!Across, Zed!Along
<1>. HIDE DEF x, y, s, c
<1>3. (c * x - s * y) * (c * x - s * y) + (s * x + c * y) * (s * x + c * y)
        = (s * s + c * c) * (x * x + y * y)
  BY <1>1
<1>4. (c * x - s * y) \in Int /\ (s * x + c * y) \in Int
  BY <1>1
<1>. QED BY <1>1, <1>2, <1>3, <1>4 DEF Zed!Sq, x, y

\* Between the ZED and the depth of its view, an obstacle is said to be in the path
\* exactly when some point of the path is no farther from its centre than its edge,
\* whatever the direction of the path (isObsInPath, cases 1, 2, 6, 9).
THEOREM PathIsExact ==
  ASSUME NEW obs \in Disc, NEW dir \in Turned,
         0 <= Zed!Along(obs, dir), Zed!Along(obs, dir) <= 5 * Zed!DepthY
  PROVE  Zed!IsObsInPath(obs, dir)
           <=> \E p \in Path : Zed!Sq(Zed!Across(obs, dir) - p[1])
                                 + Zed!Sq(Zed!Along(obs, dir) - p[2]) <= Zed!Sq(5 * obs.r)
<1>. DEFINE x == Zed!Across(obs, dir)
            y == Zed!Along(obs, dir)
            r == obs.r
<1>1. x \in Int /\ y \in 0 .. 600 /\ r \in Nat
  BY TurnKeepsDistance DEF Disc, Zed!DepthY
<1>2. x * x + y * y = 25 * (obs.x * obs.x + obs.y * obs.y)
  BY TurnKeepsDistance DEF Zed!Sq
<1>3. obs.x \in Int /\ obs.y \in Int
  BY DEF Disc
<1>4. CASE -175 <= x /\ x <= 175
  <2>1. x * x <= 175 * 175 /\ y * y <= 600 * 600
    BY <1>1, <1>4, SquaresGrow
  <2>2. obs.x * obs.x + obs.y * obs.y <= 125 * 125
    <3>. HIDE DEF x, y
    <3>. QED BY <1>1, <1>2, <1>3, <2>1
  <2>3. 125 * 125 <= (125 + r) * (125 + r)
    BY <1>1, SquaresGrow
  <2>4. Zed!Near(obs, 0, 0, Zed!Depth + obs.r)
    BY <1>1, <1>3, <2>2, <2>3 DEF Zed!Near, Zed!Depth, Zed!Sq
  <2>5. Zed!IsObsInPath(obs, dir)
    BY <1>1, <1>4, <2>4 DEF Zed!IsObsInPath, Zed!Abs, Zed!HalfPath
  <2>6. <<x, y>> \in Path
    BY <1>1, <1>4, <2>1 DEF Path, Zed!Abs, Zed!HalfPath, Zed!Sq, Zed!Depth
  <2>7. Zed!Sq(x - x) + Zed!Sq(y - y) <= Zed!Sq(5 * r)
    BY <1>1, SquaresGrow DEF Zed!Sq
  <2>. QED BY <2>5, <2>6, <2>7
<1>5. CASE x < -175 \/ x > 175
  <2>1. Zed!IsObsInPath(obs, dir) <=> -(175 + 5 * r) <= x /\ x <= 175 + 5 * r
    BY <1>1, <1>5 DEF Zed!IsObsInPath, Zed!ReachesPath, Zed!Abs, Zed!HalfPath, Zed!DepthY
  <2>2. ASSUME -(175 + 5 * r) <= x, x <= 175 + 5 * r
        PROVE  \E p \in Path : Zed!Sq(x - p[1]) + Zed!Sq(y - p[2]) <= Zed!Sq(5 * r)
    <3>. DEFINE edge == IF x < 0 THEN -175 ELSE 175
    <3>1. edge * edge = 175 * 175 /\ y * y <= 600 * 600
      BY <1>1, SquaresGrow
    <3>2. <<edge, y>> \in Path
      BY <1>1, <3>1 DEF Path, Zed!Abs, Zed!HalfPath, Zed!Sq, Zed!Depth
    <3>3. (x - edge) * (x - edge) <= (5 * r) * (5 * r)
      BY <1>1, <1>5, <2>2, SquaresGrow
    <3>4. Zed!Sq(x - edge) + Zed!Sq(y - y) <= Zed!Sq(5 * r)
      BY <1>1, <3>3 DEF Zed!Sq
    <3>. QED BY <3>2, <3>4
  <2>3. ASSUME NEW p \in Path, Zed!Sq(x - p[1]) + Zed!Sq(y - p[2]) <= Zed!Sq(5 * r)
        PROVE  -(175 + 5 * r) <= x /\ x <= 175 + 5 * r
    <3>1. p[1] \in -175 .. 175 /\ p[2] \in Int
      BY DEF Path, Zed!Abs, Zed!HalfPath
    <3>2. x - p[1] \in Int /\ y - p[2] \in Int /\ 5 * r \in Nat
      <4>. HIDE DEF x, y, r
      <4>. QED BY <1>1, <3>1
    <3>3. (x - p[1]) * (x - p[1]) <= (5 * r) * (5 * r)
      BY <2>3, <3>2, SquaresGrow DEF Zed!Sq
    <3>4. -(5 * r) <= x - p[1] /\ x - p[1] <= 5 * r
      <4>. DEFINE d == x - p[1]
                  b == 5 * r
      <4>1. d \in Int /\ b \in Nat /\ d * d <= b * b
        BY <3>2, <3>3
      <4>. HIDE DEF d, b
      <4>2. -b <= d /\ d <= b
        BY <4>1, SquaresGrow
      <4>. QED BY <4>2 DEF d, b
    <3>. HIDE DEF x, y, r
    <3>. QED BY <1>1, <3>1, <3>4
  <2>. QED BY <2>1, <2>2, <2>3
<1>. QED BY <1>1, <1>4, <1>5

-------------------------------------------------------------------------------
(* The raster.                                                             *)

\* The raster's lines are 25 apart, in five times the coordinates: one lies within 24 of
\* every number, between it and 0.
LEMMA LineBelow ==
  ASSUME NEW n \in Int
  PROVE  \E k \in Int : /\ n - 25 * k \in -24 .. 24
                        /\ n >= 0 => 0 <= k /\ 25 * k <= n
                        /\ n < 0 => k <= 0 /\ n <= 25 * k
<1>. DEFINE k == IF n >= 0 THEN n \div 25 ELSE -((-n) \div 25)
<1>. WITNESS k \in Int
<1>. QED OBVIOUS

\* The corners of the path straight ahead, and what lies before them, are in the path.
LEMMA OnPath ==
  ASSUME NEW k \in -7 .. 7, NEW l \in 0 .. 24 PROVE <<5 * k, 5 * l>> \in PathRaster
<1>1. <<5 * k, 5 * l>> \in Raster
  BY DEF Raster
<1>2. (5 * k) * (5 * k) <= 35 * 35 /\ (5 * l) * (5 * l) <= 120 * 120
  BY SquaresGrow
<1>. QED BY <1>1, <1>2 DEF PathRaster, Zed!Abs, Zed!HalfPath, Zed!Sq, Zed!Depth

\* An obstacle within reach of such a point meets the path.
LEMMA MeetsPath ==
  ASSUME NEW obs \in Disc, NEW dir \in Turned, NEW d \in Nat,
         NEW k \in -7 .. 7, NEW l \in 0 .. 24,
         LET x == Zed!Across(obs, dir) - 25 * k
             y == Zed!Along(obs, dir) - 25 * l
         IN  x * x + y * y <= (5 * d) * (5 * d)
  PROVE  Meets(PathRaster, obs, dir, d)
<1>. DEFINE p == <<5 * k, 5 * l>>
<1>1. p \in PathRaster
  BY OnPath
<1>2. /\ Zed!Across(obs, dir) - 5 * p[1] = Zed!Across(obs, dir) - 25 * k
      /\ Zed!Along(obs, dir) - 5 * p[2] = Zed!Along(obs, dir) - 25 * l
  BY TurnKeepsDistance
<1>. QED BY <1>1, <1>2 DEF Meets, Zed!Sq

\* What is said to be in the path, between the ZED and the depth of its view, meets it.
LEMMA BetweenMeets ==
  ASSUME NEW obs \in Disc, NEW dir \in Turned,
         0 <= Zed!Along(obs, dir), Zed!Along(obs, dir) <= 5 * Zed!DepthY,
         Zed!IsObsInPath(obs, dir)
  PROVE  Meets(PathRaster, obs, dir, obs.r + Slack)
<1>. DEFINE x == Zed!Across(obs, dir)
            y == Zed!Along(obs, dir)
            r == obs.r
<1>1. x \in Int /\ y \in 0 .. 600 /\ r \in Nat /\ Slack = 7
  BY TurnKeepsDistance DEF Disc, Zed!DepthY, Slack
<1>2. x < -175 \/ x > 175 => -(175 + 5 * r) <= x /\ x <= 175 + 5 * r
  BY <1>1 DEF Zed!IsObsInPath, Zed!ReachesPath, Zed!Abs, Zed!HalfPath, Zed!DepthY
<1>0. ASSUME NEW k \in -7 .. 7, NEW l \in 0 .. 24,
             (x - 25 * k) * (x - 25 * k) + (y - 25 * l) * (y - 25 * l)
               <= (5 * (r + 7)) * (5 * (r + 7))
      PROVE  Meets(PathRaster, obs, dir, obs.r + Slack)
  <2>. DEFINE d == obs.r + Slack
  <2>1. d \in Nat /\ d = r + 7
    BY <1>1
  <2>. HIDE DEF d
  <2>2. (x - 25 * k) * (x - 25 * k) + (y - 25 * l) * (y - 25 * l) <= (5 * d) * (5 * d)
    BY <1>0, <2>1
  <2>3. Meets(PathRaster, obs, dir, d)
    BY <2>1, <2>2, MeetsPath
  <2>. QED BY <2>3 DEF d
<1>. HIDE DEF x, y, r
<1>3. PICK l \in 0 .. 24 : y - 25 * l \in -24 .. 24
  BY <1>1, LineBelow
<1>4. (y - 25 * l) * (y - 25 * l) <= 24 * 24
  BY <1>1, <1>3, SquaresGrow
<1>5. (5 * (r + 7)) * (5 * (r + 7)) = (5 * r) * (5 * r) + 350 * r + 1225
  BY <1>1
<1>6. (5 * r) * (5 * r) \in Nat
  BY <1>1
<1>7. CASE -175 <= x /\ x <= 175
  <2>1. PICK k \in -7 .. 7 : x - 25 * k \in -24 .. 24
    BY <1>1, <1>7, LineBelow
  <2>2. (x - 25 * k) * (x - 25 * k) <= 24 * 24
    BY <1>1, <2>1, SquaresGrow
  <2>3. (x - 25 * k) * (x - 25 * k) \in Int /\ (y - 25 * l) * (y - 25 * l) \in Int
    BY <1>1
  <2>4. (x - 25 * k) * (x - 25 * k) + (y - 25 * l) * (y - 25 * l)
          <= (5 * (r + 7)) * (5 * (r + 7))
    BY <1>1, <1>4, <1>5, <1>6, <2>2, <2>3
  <2>. QED BY <1>0, <2>4
<1>8. CASE x > 175
  <2>1. (x - 25 * 7) * (x - 25 * 7) <= (5 * r) * (5 * r)
    BY <1>1, <1>2, <1>8, SquaresGrow
  <2>2. (x - 25 * 7) * (x - 25 * 7) + (y - 25 * l) * (y - 25 * l)
          <= (5 * (r + 7)) * (5 * (r + 7))
    BY <1>1, <1>4, <1>5, <2>1
  <2>. QED BY <1>0, <2>2
<1>9. CASE x < -175
  <2>1. (x - 25 * (-7)) * (x - 25 * (-7)) <= (5 * r) * (5 * r)
    BY <1>1, <1>2, <1>9, SquaresGrow
  <2>2. (x - 25 * (-7)) * (x - 25 * (-7)) + (y - 25 * l) * (y - 25 * l)
          <= (5 * (r + 7)) * (5 * (r + 7))
    BY <1>1, <1>4, <1>5, <2>1
  <2>. QED BY <1>0, <2>2
<1>. QED BY <1>1, <1>7, <1>8, <1>9

LEMMA AheadIsTurned ==
  /\ Zed!Ahead \in Turned
  /\ \A obs \in Disc : Zed!Across(obs, Zed!Ahead) = 5 * obs.x
                         /\ Zed!Along(obs, Zed!Ahead) = 5 * obs.y
<1>1. Zed!Ahead \in Turned
  BY DEF Zed!Ahead, Turned, Zed!Sq
<1>2. ASSUME NEW obs \in Disc
      PROVE  Zed!Across(obs, Zed!Ahead) = 5 * obs.x /\ Zed!Along(obs, Zed!Ahead) = 5 * obs.y
  <2>1. obs.x \in Int /\ obs.y \in Int
    BY DEF Disc
  <2>. QED BY <2>1 DEF Zed!Across, Zed!Along, Zed!Ahead
<1>. QED BY <1>1, <1>2

LEMMA MeetsPathAhead ==
  ASSUME NEW obs \in Disc, NEW d \in Nat, NEW k \in -7 .. 7, NEW l \in 0 .. 24,
         (obs.x - 5 * k) * (obs.x - 5 * k) + (obs.y - 5 * l) * (obs.y - 5 * l) <= d * d
  PROVE  Meets(PathRaster, obs, Zed!Ahead, d)
<1>. DEFINE x == obs.x
            y == obs.y
<1>1. x \in Int /\ y \in Int
  BY DEF Disc
<1>. DEFINE a == x - 5 * k
            b == y - 5 * l
<1>2. a \in Int /\ b \in Int /\ a * a + b * b <= d * d
  BY <1>1
<1>3. 5 * x - 25 * k = 5 * a /\ 5 * y - 25 * l = 5 * b
  BY <1>1
<1>4. (5 * a) * (5 * a) + (5 * b) * (5 * b) <= (5 * d) * (5 * d)
  <2>. HIDE DEF a, b
  <2>. QED BY <1>2
<1>5. (5 * x - 25 * k) * (5 * x - 25 * k) + (5 * y - 25 * l) * (5 * y - 25 * l)
        <= (5 * d) * (5 * d)
  <2>. HIDE DEF a, b
  <2>. QED BY <1>3, <1>4
<1>. QED BY <1>5, AheadIsTurned, MeetsPath

\* What is said to be in the path straight ahead, elsewhere, meets it too.
LEMMA ElsewhereMeets ==
  ASSUME NEW obs \in Disc, Zed!IsObsInPath(obs, Zed!Ahead),
         obs.y < 0 \/ obs.y > Zed!DepthY
  PROVE  Meets(PathRaster, obs, Zed!Ahead, obs.r + Slack)
<1>. DEFINE x == obs.x
            y == obs.y
            r == obs.r
            d == obs.r + Slack
<1>1. x \in Int /\ y \in Int /\ r \in Nat /\ d \in Nat /\ d = r + 7
  BY DEF Disc, Slack
<1>2. Zed!Across(obs, Zed!Ahead) = 5 * x /\ Zed!Along(obs, Zed!Ahead) = 5 * y
  BY AheadIsTurned
<1>. DEFINE corner == IF x < 0 THEN -7 ELSE 7
<1>3. \/ -35 <= x /\ x <= 35 /\ y > 120 /\ x * x + y * y <= (125 + r) * (125 + r)
      \/ \E l \in {0, 24} : (x - 5 * corner) * (x - 5 * corner) + (y - 5 * l) * (y - 5 * l)
                              <= r * r
  BY <1>1, <1>2 DEF Zed!IsObsInPath, Zed!Abs, Zed!HalfPath, Zed!DepthY, Zed!Depth, Zed!Near,
     Zed!Sq
<1>. HIDE DEF x, y, r, d
<1>4. CASE -35 <= x /\ x <= 35 /\ y > 120 /\ x * x + y * y <= (125 + r) * (125 + r)
  <2>1. x * x \in Nat /\ y * y \in Nat
    BY <1>1, SquaresGrow
  <2>2. y <= 125 + r
    <3>1. y * y <= (125 + r) * (125 + r)
      BY <1>1, <1>4, <2>1
    <3>. QED BY <1>1, <3>1, SquaresGrow
  <2>3. PICK k \in -7 .. 7 : x - 5 * k \in -4 .. 4
    <3>. DEFINE k == IF x >= 0 THEN x \div 5 ELSE -((-x) \div 5)
    <3>1. k \in -7 .. 7 /\ x - 5 * k \in -4 .. 4
      BY <1>1, <1>4
    <3>. QED BY <3>1
  <2>4. (x - 5 * k) * (x - 5 * k) <= 4 * 4 /\ (y - 5 * 24) * (y - 5 * 24) <= (r + 5) * (r + 5)
    BY <1>1, <1>4, <2>2, <2>3, SquaresGrow
  <2>5. (r + 5) * (r + 5) + 16 <= d * d
    BY <1>1
  <2>6. (x - 5 * k) * (x - 5 * k) + (y - 5 * 24) * (y - 5 * 24) <= d * d
    BY <1>1, <2>4, <2>5
  <2>. QED BY <1>1, <2>6, MeetsPathAhead DEF x, y, d
<1>5. CASE \E l \in {0, 24} :
             (x - 5 * corner) * (x - 5 * corner) + (y - 5 * l) * (y - 5 * l) <= r * r
  <2>1. PICK l \in {0, 24} :
          (x - 5 * corner) * (x - 5 * corner) + (y - 5 * l) * (y - 5 * l) <= r * r
    BY <1>5
  <2>2. r * r <= d * d
    BY <1>1
  <2>3. corner \in -7 .. 7 /\ l \in 0 .. 24
    BY <2>1
  <2>. HIDE DEF corner
  <2>4. (x - 5 * corner) * (x - 5 * corner) + (y - 5 * l) * (y - 5 * l) <= d * d
    BY <1>1, <2>1, <2>2, <2>3
  <2>. QED BY <1>1, <2>3, <2>4, MeetsPathAhead DEF x, y, d
<1>. QED BY <1>3, <1>4, <1>5

\* In the path, for every obstacle and direction: what is said to be in it meets it, always
\* straight ahead and in any direction between the ZED and the depth of its view, and there
\* nothing that meets it is missed (isObsInPath).
THEOREM PathIsJudgedRight ==
  ASSUME NEW obs \in Disc, NEW dir \in Turned
  PROVE  LET between == 0 <= Zed!Along(obs, dir) /\ Zed!Along(obs, dir) <= 5 * Zed!DepthY
             inPath == Zed!IsObsInPath(obs, dir)
         IN  /\ inPath /\ (dir = Zed!Ahead \/ between)
                  => Meets(PathRaster, obs, dir, obs.r + Slack)
             /\ between /\ Meets(PathRaster, obs, dir, obs.r) => inPath
<1>. DEFINE between == 0 <= Zed!Along(obs, dir) /\ Zed!Along(obs, dir) <= 5 * Zed!DepthY
<1>1. ASSUME between, Zed!IsObsInPath(obs, dir)
      PROVE  Meets(PathRaster, obs, dir, obs.r + Slack)
  BY <1>1, BetweenMeets
<1>2. ASSUME dir = Zed!Ahead, ~between, Zed!IsObsInPath(obs, dir)
      PROVE  Meets(PathRaster, obs, dir, obs.r + Slack)
  <2>1. obs.y \in Int /\ Zed!Along(obs, dir) = 5 * obs.y
    BY <1>2, AheadIsTurned DEF Disc
  <2>2. obs.y < 0 \/ obs.y > Zed!DepthY
    BY <1>2, <2>1 DEF Zed!DepthY
  <2>. QED BY <1>2, <2>2, ElsewhereMeets
<1>3. ASSUME between, Meets(PathRaster, obs, dir, obs.r) PROVE Zed!IsObsInPath(obs, dir)
  <2>1. PICK p \in PathRaster :
          Zed!Sq(Zed!Across(obs, dir) - 5 * p[1]) + Zed!Sq(Zed!Along(obs, dir) - 5 * p[2])
            <= Zed!Sq(5 * obs.r)
    BY <1>3 DEF Meets
  <2>. DEFINE q == <<5 * p[1], 5 * p[2]>>
  <2>2. p[1] \in -35 .. 35 /\ p[2] \in Nat /\ p[1] * p[1] + p[2] * p[2] <= 125 * 125
    <3>1. PICK k \in -17 .. 17, l \in 0 .. 25 : p = <<5 * k, 5 * l>>
      BY <2>1 DEF PathRaster, Raster
    <3>. QED BY <2>1, <3>1 DEF PathRaster, Zed!Abs, Zed!HalfPath, Zed!Depth, Zed!Sq
  <2>3. (5 * p[1]) * (5 * p[1]) + (5 * p[2]) * (5 * p[2]) <= (5 * 125) * (5 * 125)
    BY <2>2
  <2>4. q \in Path
    BY <2>2, <2>3 DEF Path, Zed!Abs, Zed!HalfPath, Zed!Depth, Zed!Sq
  <2>. QED BY <1>3, <2>1, <2>4, PathIsExact
<1>. QED BY <1>1, <1>2, <1>3

-------------------------------------------------------------------------------
(* The view.                                                               *)

LEMMA OnView ==
  ASSUME NEW k \in -17 .. 17, NEW l \in 0 .. 25,
         4 * Zed!Abs(k) <= 3 * l, k * k + l * l <= 625
  PROVE  <<5 * k, 5 * l>> \in ViewRaster
<1>1. <<5 * k, 5 * l>> \in Raster
  BY DEF Raster
<1>2. (5 * k) * (5 * k) + (5 * l) * (5 * l) <= 125 * 125
  OBVIOUS
<1>. QED BY <1>1, <1>2 DEF ViewRaster, Zed!Abs, Zed!Sq, Zed!Depth

\* An obstacle within reach of such a point, on its side, meets the view.
LEMMA MeetsView ==
  ASSUME NEW obs \in Disc, NEW d \in Nat, NEW k \in 0 .. 17, NEW l \in 0 .. 25,
         4 * k <= 3 * l, k * k + l * l <= 625,
         LET a == Zed!Abs(obs.x) - 5 * k
             b == obs.y - 5 * l
         IN  a * a + b * b <= d * d
  PROVE  Meets(ViewRaster, obs, Zed!Ahead, d)
<1>. DEFINE side == IF obs.x < 0 THEN -k ELSE k
            a == obs.x - 5 * side
            b == obs.y - 5 * l
            p == <<5 * side, 5 * l>>
<1>1. obs.x \in Int /\ obs.y \in Int
  BY DEF Disc
<1>2. a \in Int /\ b \in Int /\ a * a + b * b <= d * d
  BY <1>1 DEF Zed!Abs
<1>3. /\ Zed!Across(obs, Zed!Ahead) - 5 * p[1] = 5 * a
      /\ Zed!Along(obs, Zed!Ahead) - 5 * p[2] = 5 * b
  BY <1>1, AheadIsTurned
<1>4. p \in ViewRaster
  <2>1. side \in -17 .. 17 /\ 4 * Zed!Abs(side) <= 3 * l /\ side * side + l * l <= 625
    BY DEF Zed!Abs
  <2>. QED BY <2>1, OnView
<1>. HIDE DEF a, b, p
<1>5. (5 * a) * (5 * a) + (5 * b) * (5 * b) <= (5 * d) * (5 * d)
  BY <1>2
<1>. QED BY <1>3, <1>4, <1>5 DEF Meets, Zed!Sq

\* What is said to be seen, of the obstacles of the grid, and is not behind the ZED, meets
\* the view (isObsVisible).
LEMMA SeenMeets ==
  ASSUME NEW obs \in Probes, Zed!IsObsVisible(obs), 3 * Zed!Abs(obs.x) + 4 * obs.y >= 0
  PROVE  Meets(ViewRaster, obs, Zed!Ahead, obs.r + Slack)
<1>. DEFINE a == Zed!Abs(obs.x)
            y == obs.y
            r == obs.r
            d == obs.r + Slack
            inside == 3 * y - 4 * a
            along == 3 * a + 4 * y
<1>1. /\ obs \in Disc /\ r \in {1, 3, 12, 30} /\ d = r + 7 /\ d \in Nat
      /\ \E i \in 0 .. 7 : a = 10 * i
      /\ \E j \in -5 .. 17 : y = 10 * j
  BY DEF Probes, Disc, Slack, Zed!Abs
<1>2. obs.x * obs.x = a * a
  BY <1>1 DEF Zed!Abs, Disc
<1>3. \/ inside >= 0 /\ a * a + y * y <= 125 * 125
      \/ /\ inside >= 0 /\ a * a + y * y > 125 * 125 /\ 125 + r - 4 >= 0
         /\ a * a + y * y <= (125 + r - 4) * (125 + r - 4)
      \/ /\ inside < 0 /\ a * a + y * y <= 125 * 125 /\ -inside <= 5 * (r - 4)
      \/ /\ r - 4 >= 0
         /\ (a - 75) * (a - 75) + (y - 100) * (y - 100) <= (r - 4) * (r - 4)
  <2>1. obs.x \in Int /\ y \in Int /\ r \in Int /\ a \in Int
    BY <1>1 DEF Disc
  <2>2. (obs.x - 0) * (obs.x - 0) + (obs.y - 0) * (obs.y - 0) = a * a + y * y
    BY <1>2, <2>1
  <2>3. [obs EXCEPT !.x = Zed!Abs(obs.x)].x = a /\ [obs EXCEPT !.x = Zed!Abs(obs.x)].y = y
    BY <1>1 DEF Disc
  <2>. QED BY <2>1, <2>2, <2>3 DEF Zed!IsObsVisible, Zed!ReachesView, Zed!Near, Zed!Sq,
       Zed!Depth, Zed!MinObsSize
<1>4. ASSUME NEW k \in 0 .. 17, NEW l \in 0 .. 25, 4 * k <= 3 * l, k * k + l * l <= 625,
             (a - 5 * k) * (a - 5 * k) + (y - 5 * l) * (y - 5 * l) <= d * d
      PROVE  Meets(ViewRaster, obs, Zed!Ahead, obs.r + Slack)
  BY <1>1, <1>4, MeetsView
<1>5. along >= 0
  OBVIOUS
<1>6. PICK i \in 0 .. 7 : a = 10 * i
  BY <1>1
<1>7. PICK j \in -5 .. 17 : y = 10 * j
  BY <1>1
<1>. HIDE DEF a, y, r, d
<1>8. CASE inside >= 0 /\ a * a + y * y <= 125 * 125
  <2>. DEFINE k == 2 * i
              l == 2 * j
  <2>1. j >= 0 /\ k * k + l * l <= 625
    <3>1. 100 * (i * i) + 100 * (j * j) <= 15625 /\ j >= 0
      BY <1>6, <1>7, <1>8
    <3>. QED BY <3>1
  <2>2. l <= 25
    BY <2>1
  <2>3. (a - 5 * k) * (a - 5 * k) + (y - 5 * l) * (y - 5 * l) <= d * d
    BY <1>1, <1>6, <1>7
  <2>. QED BY <1>4, <1>6, <1>7, <1>8, <2>1, <2>2, <2>3
<1>9. CASE /\ inside >= 0 /\ a * a + y * y > 125 * 125 /\ 125 + r - 4 >= 0
           /\ a * a + y * y <= (125 + r - 4) * (125 + r - 4)
  <2>. DEFINE k == 2 * i
              l == CASE i <= 3 -> 24 [] i = 4 -> 23 [] i = 5 -> 22 [] i = 6 -> 21 [] i = 7 -> 20
  <2>1. r \in {12, 30} /\ j >= 0
    BY <1>1, <1>6, <1>7, <1>9
  <2>2. 100 * (i * i) + 100 * (j * j) > 15625
          /\ 100 * (i * i) + 100 * (j * j) <= (121 + r) * (121 + r)
    BY <1>1, <1>6, <1>7, <1>9
  <2>3. k \in 0 .. 17 /\ l \in 0 .. 25 /\ 4 * k <= 3 * l /\ k * k + l * l <= 625
    BY <1>6
  <2>4. 10 * j - 5 * l \in -d .. d
    BY <1>1, <2>1, <2>2
  <2>5. (y - 5 * l) * (y - 5 * l) <= d * d /\ a - 5 * k = 0
    BY <1>1, <1>6, <1>7, <2>4, SquaresGrow
  <2>. HIDE DEF k, l
  <2>6. (a - 5 * k) * (a - 5 * k) + (y - 5 * l) * (y - 5 * l) <= d * d
    BY <1>7, <2>3, <2>5
  <2>. QED BY <1>4, <2>3, <2>6
<1>10. CASE inside < 0 /\ a * a + y * y <= 125 * 125 /\ -inside <= 5 * (r - 4)
  \* The edge of the view has the points <<15 * n, 20 * n>>.
  <2>1. /\ a \in Int /\ y \in Int /\ inside \in Int /\ along \in Int
        /\ r \in {12, 30}
    BY <1>1, <1>6, <1>7, <1>10
  <2>2. inside * inside + along * along = 25 * (a * a + y * y)
    BY <2>1
  <2>3. along <= 625
    <3>1. inside * inside >= 0 /\ along * along <= 625 * 625
      <4>. HIDE DEF inside, along
      <4>1. inside * inside \in Nat
        BY <2>1, SquaresGrow
      <4>. QED BY <1>10, <2>1, <2>2, <4>1
    <3>. QED BY <2>1, <3>1, SquaresGrow
  <2>4. PICK n \in 0 .. 5 : along - 125 * n \in -63 .. 63
    <3>. DEFINE n == (along + 62) \div 125
    <3>1. n \in 0 .. 5 /\ along - 125 * n \in -63 .. 63
      BY <1>5, <2>1, <2>3
    <3>. QED BY <3>1
  <2>. DEFINE e == along - 125 * n
              b == a - 5 * (3 * n)
              c == y - 5 * (4 * n)
  <2>5. 25 * (b * b + c * c) = inside * inside + e * e
    BY <2>1, <2>4
  <2>6. inside * inside <= (5 * (r - 4)) * (5 * (r - 4)) /\ e * e <= 63 * 63
    BY <1>10, <2>1, <2>4, SquaresGrow
  <2>7. b * b + c * c <= d * d
    <3>1. (5 * (r - 4)) * (5 * (r - 4)) + 63 * 63 <= 25 * (d * d)
      BY <1>1, <2>1
    <3>2. b \in Int /\ c \in Int /\ e \in Int
      BY <2>1, <2>4
    <3>. HIDE DEF b, c, e, inside
    <3>. QED BY <1>1, <2>1, <2>5, <2>6, <3>1, <3>2
  <2>8. 3 * n \in 0 .. 17 /\ 4 * n \in 0 .. 25 /\ 4 * (3 * n) <= 3 * (4 * n)
          /\ (3 * n) * (3 * n) + (4 * n) * (4 * n) <= 625
    BY <2>4
  <2>. QED BY <1>4, <2>7, <2>8
<1>11. CASE /\ r - 4 >= 0
            /\ (a - 75) * (a - 75) + (y - 100) * (y - 100) <= (r - 4) * (r - 4)
  <2>1. (a - 5 * 15) * (a - 5 * 15) + (y - 5 * 20) * (y - 5 * 20) <= d * d
    BY <1>1, <1>6, <1>7, <1>11
  <2>. QED BY <1>4, <2>1
<1>. QED BY <1>3, <1>8, <1>9, <1>10, <1>11

\* Every obstacle of the grid is judged rightly, whatever is on the field.
THEOREM CasesAlwaysRight == Spec => []CasesAreRight
<1>1. Turns \subseteq Turned
  BY DEF Turns, Turned, Zed!Sq
<1>2. Probes \subseteq Disc
  BY DEF Probes, Disc
<1>3. ASSUME NEW obs \in Probes PROVE JudgedRight(obs)
  BY <1>1, <1>2, PathIsJudgedRight, SeenMeets DEF JudgedRight
<1>4. CasesAreRight
  BY <1>3 DEF CasesAreRight, Misjudged
<1>. QED BY <1>4, PTL
===============================================================================
