-------------------------------- MODULE NavGate -------------------------------
(***************************************************************************)
(* jetson/nav/gate_search: with the first post found, find the second,     *)
(* stand in front of the gate and drive through it in the right direction. *)
(* The direction in which GateShimmy drives is left out.                   *)
(***************************************************************************)
EXTENDS NavRover

CONSTANTS
  GateSpinStops,  \* as SpinStops, for executeGateSpin
  DiamondPoints   \* the points that initializeSearch lays: the four corners

ASSUME GateConstants == GateSpinStops \in Nat \ {0} /\ DiamondPoints \in Nat \ {0}

VARIABLES
  gatePoints,   \* how many points of mGateSearchPoints are left
  gateSpin,     \* nextStop of executeGateSpin, as searchSpin
  gateWaiting,  \* started of executeGateSpinWait
  post1,        \* lastKnownPost1.id; 0 before the first
  post2,        \* where lastKnownPost2 comes from: a target seen now or not
  correctDir    \* CP1ToCP2CorrectDir

gateSearchVars == <<gatePoints, gateSpin, gateWaiting>>
gateVars == <<gateSearchVars, post1, post2, correctDir>>

GateInit ==
  /\ gatePoints = 0
  /\ gateSpin = 0
  /\ gateWaiting = FALSE
  /\ post1 = 0
  /\ post2 = "unset"
  /\ correctDir = FALSE

-----------------------------------------------------------------------------
\* A target that is not the first post: the test of all four search states.
SecondPostSeen == target2' \/ (TargetSeen /\ target'.id # post1)

\* updatePost2Info takes target2 or target; is the one it takes seen now?
PostReading ==
  LET takesSecond == target2' /\ target'.id = post1
      seenNow     == IF takesSecond THEN inbox'.target2 ELSE TargetSeen
  IN  IF seenNow THEN "seen" ELSE "unseen"

\* Mutant: the second post is not stored.
SkipPost2Info == UNCHANGED post2

UpdatePost2Info == post2' = PostReading

\* updatePost2Info and calcCenterPoint. Which side of the gate the rover stands
\* on, and with it the direction, depends on the posts' positions.
FoundSecondPost(v) ==
  /\ SecondPostSeen
  /\ UpdatePost2Info
  /\ correctDir' \in BOOLEAN
  /\ Goto("GateTurnToCentPoint") /\ NewPoint(v)
  /\ UNCHANGED <<progress, command, gateSpin, gateWaiting, post1>>

GateSpinDone(v) == gateSpin = 0 \/ Turned(v.heading)

\* Mutant: one stop more.
GateSpinGoesOn == gateSpin > GateSpinStops

GateSpinOver == gateSpin >= GateSpinStops

ExecuteGateSpin(v) ==
  \/ FoundSecondPost(v) /\ UNCHANGED gatePoints
  \/ /\ ~SecondPostSeen
     /\ UNCHANGED <<progress, gatePoints, gateWaiting, post1, post2, correctDir>>
     /\ \/ /\ GateSpinDone(v) /\ GateSpinOver
           /\ gateSpin' = 0
           /\ UNCHANGED command
           /\ Goto("GateTurn") /\ NewPoint(v)
        \/ /\ GateSpinDone(v) /\ ~GateSpinOver
           /\ gateSpin' = gateSpin + 1
           /\ UNCHANGED command
           /\ Goto("GateSpinWait") /\ NextStop(v)
        \/ /\ ~GateSpinDone(v)
           /\ UNCHANGED gateSpin
           /\ TurnCommand(v.heading)
           /\ Goto("GateSpin") /\ SameBearing(v)

ExecuteGateSpinWait(v) ==
  \/ FoundSecondPost(v) /\ UNCHANGED gatePoints
  \/ /\ ~SecondPostSeen
     /\ IF gateWaiting THEN UNCHANGED command ELSE Stop
     /\ UNCHANGED <<progress, gatePoints, gateSpin, post1, post2, correctDir>>
     /\ \/ gateWaiting /\ gateWaiting' = FALSE /\ Goto("GateSpin") /\ SameBearing(v)
        \/ gateWaiting' = TRUE /\ Goto(state) /\ SameBearing(v)

\* Mutant: the points are laid once and for all.
PointsLaidOnce == gatePoints

\* With no point left, DiamondGateSearch::initializeSearch lays new ones first.
PointsToGo == IF gatePoints = 0 THEN DiamondPoints ELSE gatePoints

ExecuteGateTurn(v) ==
  /\ gatePoints' = PointsToGo
  /\ \/ FoundSecondPost(v)
     \/ /\ ~SecondPostSeen
        /\ UNCHANGED <<progress, gateSpin, gateWaiting, post1, post2, correctDir>>
        /\ \E w \in IF gatePoints = 0 THEN {u \in Views : u.gate = v.gate} ELSE {v} :
             /\ TurnCommand(w.heading)
             /\ Goto(IF Turned(w.heading) THEN "GateDrive" ELSE "GateTurn")
             /\ SamePoint(w)

ExecuteGateDrive(v) ==
  LET driven == DriveStatus(v.near, v.heading)
  IN  \/ FoundSecondPost(v) /\ UNCHANGED gatePoints
      \/ /\ ~SecondPostSeen
         /\ DriveCommand(driven)
         /\ gatePoints' = IF driven = "Arrived" THEN gatePoints - 1 ELSE gatePoints
         /\ UNCHANGED <<progress, gateSpin, gateWaiting, post1, post2, correctDir>>
         /\ \/ driven = "Arrived"   /\ Goto("GateSpin")  /\ NewBearing(v)
            \/ driven = "OnCourse"  /\ Goto("GateDrive") /\ SamePoint(v)
            \/ driven = "OffCourse" /\ Goto("GateTurn")  /\ SamePoint(v)

-----------------------------------------------------------------------------
ExecuteGateTurnToCentPoint(v) ==
  /\ TurnCommand(v.heading)
  /\ Goto(IF Turned(v.heading) THEN "GateDriveToCentPoint" ELSE "GateTurnToCentPoint")
  /\ SamePoint(v)
  /\ UNCHANGED <<progress, gateVars>>

ExecuteGateDriveToCentPoint(v) ==
  LET driven == DriveStatus(v.near, v.heading)
  IN  /\ DriveCommand(driven)
      /\ UNCHANGED <<progress, gateVars>>
      /\ \/ driven = "Arrived"   /\ Goto("GateFace") /\ NewPoint(v)
         \/ driven = "OnCourse"  /\ Goto("GateDriveToCentPoint") /\ SamePoint(v)
         \/ driven = "OffCourse" /\ Goto("GateTurnToCentPoint")  /\ SamePoint(v)

ExecuteGateFace(v) ==
  /\ TurnCommand(v.heading)
  /\ Goto(IF Turned(v.heading) THEN "GateShimmy" ELSE "GateFace")
  /\ SamePoint(v)
  /\ UNCHANGED <<progress, gateVars>>

ExecuteGateShimmy(v) ==
  /\ SamePoint(v)
  /\ UNCHANGED <<progress, gateVars>>
  /\ \/ v.gate = "centred"   /\ UNCHANGED command /\ Goto("GateDriveThrough")
     \/ v.gate = "outOfView" /\ Stop              /\ Goto("GateFace")
     \/ v.gate = "inView"    /\ command' = "drive" /\ Goto("GateShimmy")

\* Mutant: the waypoint is done either way.
WrongWayPops == PopWaypoint /\ correctDir' = TRUE

\* Arrived on the wrong way through, the next way is the right one.
WrongWay == UNCHANGED progress /\ correctDir' = TRUE

\* Arrived on the wrong way through, the rover turns round and goes back;
\* off course it stays, without a joystick message.
ExecuteGateDriveThrough(v) ==
  LET driven == DriveStatus(v.near, v.heading)
  IN  /\ DriveCommand(driven)
      /\ UNCHANGED <<gateSearchVars, post1, post2>>
      /\ \/ /\ driven = "Arrived" /\ ~correctDir
            /\ WrongWay
            /\ Goto("GateFace") /\ NewPoint(v)
         \/ /\ driven = "Arrived" /\ correctDir
            /\ PopWaypoint
            /\ UNCHANGED correctDir
            /\ Goto("Turn") /\ NewPoint(v)
         \/ /\ driven # "Arrived"
            /\ UNCHANGED <<progress, correctDir>>
            /\ Goto("GateDriveThrough") /\ SamePoint(v)

\* GateStateMachine::run
GateRun(v) ==
  \/ state = "GateSpin"             /\ ExecuteGateSpin(v)
  \/ state = "GateSpinWait"         /\ ExecuteGateSpinWait(v)
  \/ state = "GateTurn"             /\ ExecuteGateTurn(v)
  \/ state = "GateDrive"            /\ ExecuteGateDrive(v)
  \/ state = "GateTurnToCentPoint"  /\ ExecuteGateTurnToCentPoint(v)
  \/ state = "GateDriveToCentPoint" /\ ExecuteGateDriveToCentPoint(v)
  \/ state = "GateFace"             /\ ExecuteGateFace(v)
  \/ state = "GateShimmy"           /\ ExecuteGateShimmy(v)
  \/ state = "GateDriveThrough"     /\ ExecuteGateDriveThrough(v)
=============================================================================
