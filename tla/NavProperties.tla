----------------------------- MODULE NavProperties ----------------------------
(***************************************************************************)
(* What is checked and proved of the navigation.                           *)
(***************************************************************************)
EXTENDS NavStateMachine

StatusType ==
  /\ auton \in BOOLEAN
  /\ course \in Courses \cup {<<>>}
  /\ obstacle \in Obstacles /\ target \in Targets /\ target2 \in SecondSeen
  /\ inbox \in Inboxes
  /\ timeToDrop \in BOOLEAN /\ lowTimer \in BOOLEAN

MachineType ==
  /\ state \in NavStates
  /\ stateChanged \in BOOLEAN
  /\ path \in Seq(Waypoints)
  /\ view \in Views
  /\ completed \in Nat
  /\ command \in {"none", "stop", "turn", "drive"}

GateType ==
  /\ gatePoints \in Nat /\ gateSpin \in 0..GateSpinStops /\ gateWaiting \in BOOLEAN
  /\ post1 \in Nat /\ post2 \in {"unset", "seen", "unseen"} /\ correctDir \in BOOLEAN

AvoidanceType ==
  /\ originalObstacle \in {"unset", "set", "old"}
  /\ avoidancePoint \in BOOLEAN

SearchType ==
  /\ searcher \in {"SpiralOut", "LawnMower", "SpiralIn"}
  /\ searchPoints \in Nat
  /\ searchSpin \in 0..SpinStops /\ searchWaiting \in BOOLEAN
  /\ anglesSet \in BOOLEAN
  /\ searchFails \in 0..(Len(Patterns) - 1)

\* Every variable has its type.
TypeOK ==
  /\ StatusType /\ MachineType
  /\ GateType /\ AvoidanceType /\ SearchType
  /\ total \in Nat /\ dropComplete \in BOOLEAN

-----------------------------------------------------------------------------
(* Groups of states *)

GateStates ==
  {"GateSpin", "GateSpinWait", "GateTurn", "GateDrive", "GateTurnToCentPoint",
   "GateDriveToCentPoint", "GateFace", "GateShimmy", "GateDriveThrough"}

SearchStates ==
  {"SearchSpin", "SearchSpinWait", "SearchTurn", "SearchDrive", "ChangeSearchAlg",
   "TurnToTarget", "TurnedToTargetWait", "DriveToTarget",
   "SearchTurnAroundObs", "SearchDriveAroundObs"}

LegStates ==
  {"Drive", "RadioRepeaterTurn", "RadioRepeaterDrive", "TurnAroundObs", "DriveAroundObs"}

-----------------------------------------------------------------------------
(* Invariants *)

\* Legs match the course: a search goes on only at a search or gate waypoint,
\* the gate states are entered only at a gate waypoint, and a leg is driven only
\* while there is a waypoint to drive to. The handlers take path().front()
\* without a test (executeDrive, executeDriveToTarget, calcCenterPoint).
LegsMatchCourse ==
  /\ state \in LegStates \cup SearchStates \cup GateStates => path # <<>>
  /\ state \in SearchStates => Head(path).kind \in {"search", "gate"}
  /\ state \in GateStates => Head(path).kind = "gate"

\* executeSearchDrive and executeGateDrive take the front of their points
\* without a test: there is one, however the drive was interrupted before.
PointsLeft ==
  /\ state = "SearchDrive" => searchPoints > 0
  /\ state = "GateDrive" => gatePoints > 0

\* A handler never acts on a bearing, obstacle or post that nobody has stored:
\* executeTurnToTarget on the last known angles, the avoidance on its obstacle
\* and point, the gate states on their two posts. The angles may be unset only
\* while the status is frozen with the target in sight.
NothingUnsetIsRead ==
  /\ state = "TurnToTarget" /\ ~anglesSet => stateChanged /\ target.seen
  /\ state \in {"TurnAroundObs", "SearchTurnAroundObs", "DriveAroundObs", "SearchDriveAroundObs"}
       => originalObstacle # "unset"
  /\ state \in {"DriveAroundObs", "SearchDriveAroundObs"} => avoidancePoint
  /\ state \in {"GateTurnToCentPoint", "GateDriveToCentPoint", "GateFace",
                "GateShimmy", "GateDriveThrough"} => post2 # "unset"

\* While autonomy is on, the waypoints completed and those still in the path
\* make up the course that was started (course progress in NavStatus).
ProgressAddsUp ==
  auton /\ state # "Exit" => completed + Len(path) = total

\* The rover's autonomy is off exactly in Off, and then it has been stopped.
OffIsStopped ==
  /\ auton <=> state # "Off"
  /\ state = "Off" /\ ~stateChanged => command = "stop"

\* At most one point for the repeater is in the path ("If we have not already
\* begun to drop radio repeater", isAddRepeaterDropPoint).
OneDropPoint ==
  \A i, j \in 1..Len(path) : path[i].kind = "drop" /\ path[j].kind = "drop" => i = j

\* The second post of the gate is one that perception saw when it was stored:
\* "If any data has changed, update all data" (updateRover).
PostsWereSeen == post2 # "unseen"

-----------------------------------------------------------------------------
(* Action properties *)

AtItsEnd ==
  /\ Head(path).kind = "gate" => state = "GateDriveThrough" /\ correctDir
  /\ Head(path).kind = "search" => state = "DriveToTarget" /\ target'.seen
  /\ Head(path).kind = "plain" => state = "Drive"

\* A gate leg is completed only by driving through the gate in the right
\* direction, a search leg at its target, any other waypoint by driving there.
CompletedAtItsEnd == [][completed' = completed + 1 => AtItsEnd]_vars

-----------------------------------------------------------------------------
(* Liveness *)

\* Switching autonomy off is obeyed ("turn off immediately", run), unless the
\* process dies or autonomy is on again first.
OffIsObeyed == ~inbox.auton ~> (state \in {"Off", "Exit"} \/ inbox.auton)

\* Fresh data reaches the handlers again and again while autonomy stays on.
NeverFrozenForGood == []<>(~stateChanged)

-----------------------------------------------------------------------------
(* Course progress *)

\* A course is running from the switch on to Done, Off or the process's end.
CourseMode ==
  IF state \in {"Off", "Exit"} THEN "idle"
  ELSE IF state = "Done" THEN "finished" ELSE "running"

Progress == INSTANCE NavCourse WITH
  Lengths <- {Len(c) : c \in Courses \cup {<<>>}},
  mode <- CourseMode,
  done <- completed,
  all <- total

\* The navigation completes courses as NavCourse says.
CompletesCourses == Progress!CourseSpec
=============================================================================
