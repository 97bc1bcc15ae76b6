------------------------------- MODULE NavRover -------------------------------
(***************************************************************************)
(* jetson/nav/rover.cpp: the rover's status, the copy of it that the LCM   *)
(* handlers fill, the rule that decides when the second is copied into the *)
(* first, and the driving primitives that the navigation handlers use.     *)
(*                                                                         *)
(* Geometry is abstracted to what the handlers compare: `view' says how    *)
(* the point the rover is heading for looks from its odometry.  It changes *)
(* only when a new odometry is copied or the rover heads for another       *)
(* point, so a handler that runs twice on the same data sees the same      *)
(* view.                                                                   *)
(***************************************************************************)
EXTENDS Naturals, Sequences

CONSTANTS
  Courses,      \* the courses the base station may send: sequences of Waypoints
  Obstacles,    \* the obstacle readings perception may publish
  Targets,      \* the readings of the first target
  SecondSeen,   \* whether the second target may be seen: a subset of BOOLEAN
  GateViews,    \* the ways the gate may look to GateShimmy
  Signals,      \* radio readings: a subset of {"good", "low"}
  Switches,     \* the values of /auton messages: a subset of BOOLEAN
  DropReports   \* {"/rr_drop_complete"} if a repeater may be reported, {} if not

-----------------------------------------------------------------------------
WaypointKinds == {"plain", "search", "gate"}

\* A waypoint of a course. "drop" is the waypoint that addRepeaterDropPoint
\* copies from the course with its search and gate flags cleared.
Waypoints == [id : Nat, kind : WaypointKinds \cup {"drop"}]

\* range: none, far (beyond obstacleDistanceThreshold) or close; blocksWaypoint
\* and blocksTarget: the negation of isLocationReachable for that location.
ObstacleReadings ==
  [range : {"none", "far", "close"}, blocksWaypoint : BOOLEAN, blocksTarget : BOOLEAN]

\* facing: within turningBearing; skewed: within drivingBearing; away: neither.
Headings == {"facing", "skewed", "away"}

TargetReadings == [seen : BOOLEAN, near : BOOLEAN, heading : Headings, id : Nat]

GateLooks == {"centred", "outOfView", "inView"}

Views == [near : BOOLEAN, heading : Headings, gate : GateViews]

ASSUME NavConstants ==
  /\ Courses \subseteq Seq([id : Nat, kind : WaypointKinds])
  /\ Obstacles \subseteq ObstacleReadings
  /\ Targets \subseteq TargetReadings
  /\ SecondSeen \subseteq BOOLEAN
  /\ GateViews \subseteq GateLooks
  /\ Signals \subseteq {"good", "low"}
  /\ Switches \subseteq BOOLEAN
  /\ DropReports \subseteq {"/rr_drop_complete"}

NavStates ==
  {"Off", "Done", "Turn", "Drive",
   "SearchSpin", "SearchSpinWait", "SearchTurn", "SearchDrive", "ChangeSearchAlg",
   "TurnToTarget", "TurnedToTargetWait", "DriveToTarget",
   "TurnAroundObs", "DriveAroundObs", "SearchTurnAroundObs", "SearchDriveAroundObs",
   "GateSpin", "GateSpinWait", "GateTurn", "GateDrive", "GateTurnToCentPoint",
   "GateDriveToCentPoint", "GateFace", "GateShimmy", "GateDriveThrough",
   "RadioRepeaterTurn", "RadioRepeaterDrive", "RepeaterDropWait",
   "Exit"}      \* Exit: the process has died; not a NavState of the code

-----------------------------------------------------------------------------
VARIABLES
  state,        \* mCurrentState
  auton,        \* mAutonState.is_auton
  course, path, \* mCourse and mPath, front first
  obstacle, target, target2,   \* mObstacle, mTarget1, mTarget2.distance >= 0
  view,         \* mOdometry, as seen from the point the rover heads for
  inbox,        \* mNewRoverStatus
  stateChanged, \* mStateChanged
  completed,    \* mCompletedWaypoints
  command,      \* the kind of the last joystick message published
  timeToDrop,   \* mTimeToDropRepeater
  lowTimer      \* started, the static local of updateRepeater

status == <<auton, course, obstacle, target, target2>>
progress == <<path, completed>>
repeaterTimer == <<timeToDrop, lowTimer>>

\* mNewRoverStatus. `moved': its odometry, or the number behind one of its
\* readings, differs from the rover's.
Inboxes ==
  [auton : BOOLEAN, course : Courses \cup {<<>>}, obstacle : Obstacles,
   target : Targets, target2 : SecondSeen, signal : Signals, moved : BOOLEAN]

-----------------------------------------------------------------------------
(* The driving primitives *)

\* Rover::stop
Stop == command' = "stop"

\* Rover::turn: whether the rover is done turning; if it is not, it publishes.
Turned(heading) == heading = "facing"
TurnCommand(heading) == command' = IF Turned(heading) THEN command ELSE "turn"

\* Rover::drive: publishes only when the rover is on course.
DriveStatus(near, heading) ==
  IF near THEN "Arrived" ELSE IF heading # "away" THEN "OnCourse" ELSE "OffCourse"
DriveCommand(driven) == command' = IF driven = "OnCourse" THEN "drive" ELSE command

-----------------------------------------------------------------------------
(* How a handler leaves the state and the view *)

\* Mutant: mStateChanged is never reset.
GotoNeverReset(s) == state' = s /\ stateChanged' = TRUE

\* The assignment of the next state at the end of StateMachine::run.
Goto(s) == state' = s /\ stateChanged' = (s # state)

\* The rover still heads for the point it was heading for.
SamePoint(v) == view' = v

\* It heads for another one: any view of it, of the same gate.
NewPoint(v) == view' \in {w \in Views : w.gate = v.gate}

\* It heads for no point that its handlers look at: one view stands for all.
NoPoint(v) == view' = [near |-> FALSE, heading |-> "away", gate |-> v.gate]

\* A spin heads for a bearing: how far its point is says nothing.
SameBearing(v) == view' = [v EXCEPT !.near = FALSE]
NewBearing(v) == view' \in {w \in Views : ~w.near /\ w.gate = v.gate}

\* The next stop of a spin is searchWaitStepSize on, beyond drivingBearing.
NextStop(v) == NoPoint(v)

\* Mutant: the waypoint is not counted.
PopUncounted ==
  /\ path' = Tail(path)
  /\ UNCHANGED completed

\* The front waypoint is done: path().pop_front() and updateCompletedPoints().
PopWaypoint ==
  /\ path' = Tail(path)
  /\ completed' = completed + 1

\* The readings the handlers look at, after updateRover.
TargetSeen == target'.seen
ObstacleDetected == obstacle'.range # "none"
ObstacleInThreshold == obstacle'.range \in {"none", "close"}

-----------------------------------------------------------------------------
(* Rover::updateRover; `new' is mNewRoverStatus, the last message included *)

\* The readings that make updateRover copy the data; target2 is compared too,
\* the id of a target is not.
HasNews(new) ==
  \/ new.moved
  \/ obstacle # new.obstacle
  \/ [target EXCEPT !.id = 0] # [new.target EXCEPT !.id = 0]
  \/ target2 # new.target2

\* Rover::updateRepeater: the timer starts on a low signal and may expire in a
\* later call; nothing stops it in between.
UpdateRepeater(signal) ==
  \/ /\ lowTimer
     /\ lowTimer' = FALSE
     /\ timeToDrop' = TRUE
  \/ /\ lowTimer' = (lowTimer \/ (~timeToDrop /\ signal = "low"))
     /\ UNCHANGED timeToDrop

\* On and still on, with news: everything but target2 is copied.
CopyReadings(new) ==
  /\ HasNews(new)
  /\ obstacle' = new.obstacle
  /\ target' = new.target
  /\ UpdateRepeater(new.signal)
  /\ inbox' = [new EXCEPT !.moved = FALSE]
  /\ UNCHANGED <<auton, course, target2>>

\* What the rover may see after the copy: without new numbers, what it saw,
\* except that another reading of the target may change how the gate looks.
CopiedViews(new) ==
  {v \in Views : \/ new.moved
                 \/ /\ v.near = view.near /\ v.heading = view.heading
                    /\ v.gate = view.gate \/ target # new.target}

\* RoverStatus::operator=, when the rover is switched on.
CopyStatus(new) ==
  /\ auton' = new.auton
  /\ course' = new.course
  /\ path' = new.course
  /\ obstacle' = new.obstacle
  /\ target' = new.target
  /\ target2' = new.target2
  /\ inbox' = [new EXCEPT !.moved = FALSE]
  /\ UNCHANGED repeaterTimer

\* updateRover is not called, or finds nothing new.
KeepStatus(new) ==
  /\ inbox' = new
  /\ UNCHANGED <<status, repeaterTimer>>
=============================================================================
