------------------------------- MODULE NavProofs ------------------------------
(***************************************************************************)
(* Theorems about the navigation, for every value of the constants.        *)
(***************************************************************************)
EXTENDS NavFreeze, TLAPS

\* The inductive invariant. The parts need one another: a point is taken from
\* a list only because PointsLeft says that there is one, and NothingUnsetIsRead
\* rests on the status being frozen after a change of state.
Inv ==
  /\ TypeOK
  /\ OffIsStopped
  /\ LegsMatchCourse
  /\ PointsLeft
  /\ NothingUnsetIsRead

\* What updateRover guarantees to the handler that runs after it.
Updated ==
  /\ StatusType'
  /\ stateChanged => target' = target

-----------------------------------------------------------------------------
\* The invariant holds before the first message, whatever mNewRoverStatus holds.
LEMMA InitInv == Init => Inv
<1>. SUFFICES ASSUME Init PROVE Inv
  OBVIOUS
<1>. USE DEF Init
<1>1. StatusType
  <2>1. inbox \in Inboxes
    BY DEF Inboxes
  <2>. QED BY <2>1 DEF StatusType
<1>2. MachineType
  BY DEF MachineType, NavStates
<1>3. GateType /\ AvoidanceType
  <2>1. gateSpin \in 0..GateSpinStops
    BY GateConstants DEF GateInit
  <2>2. gatePoints \in Nat /\ post1 \in Nat
    BY DEF GateInit
  <2>3. gateWaiting \in BOOLEAN /\ correctDir \in BOOLEAN /\ avoidancePoint \in BOOLEAN
    BY DEF GateInit, AvoidanceInit
  <2>4. post2 \in {"unset", "seen", "unseen"} /\ originalObstacle \in {"unset", "set", "old"}
    BY DEF GateInit, AvoidanceInit
  <2>. QED BY <2>1, <2>2, <2>3, <2>4 DEF GateType, AvoidanceType
<1>4. SearchType
  <2>1. searchSpin \in 0..SpinStops /\ searchFails \in 0..(Len(Patterns) - 1)
    BY SearchConstants DEF SearchInit
  <2>2. searchPoints \in Nat
    BY DEF SearchInit
  <2>3. searchWaiting \in BOOLEAN /\ anglesSet \in BOOLEAN
    BY DEF SearchInit
  <2>4. searcher \in {"SpiralOut", "LawnMower", "SpiralIn"}
    BY DEF SearchInit
  <2>. QED BY <2>1, <2>2, <2>3, <2>4 DEF SearchType
<1>5. OffIsStopped
  BY DEF OffIsStopped
<1>6. LegsMatchCourse
  BY DEF LegsMatchCourse, LegStates, SearchStates, GateStates
<1>7. PointsLeft /\ NothingUnsetIsRead
  BY DEF PointsLeft, NothingUnsetIsRead
<1>. QED BY <1>1, <1>2, <1>3, <1>4, <1>5, <1>6, <1>7 DEF Inv, TypeOK

\* Whatever arrives, the inbox keeps its type.
LEMMA ReceivedType == ASSUME inbox \in Inboxes PROVE Received \subseteq Inboxes
<1>. SUFFICES ASSUME NEW new \in Received PROVE new \in Inboxes
  OBVIOUS
<1>. USE DEF Inboxes
<1>1. ASSUME NEW on \in Switches, new = AutonState(on) PROVE new \in Inboxes
  BY <1>1, NavConstants DEF AutonState
<1>2. ASSUME NEW c \in Courses, new = Course(c) PROVE new \in Inboxes
  BY <1>2 DEF Course
<1>3. ASSUME NEW o \in Obstacles, new = Obstacle(o) PROVE new \in Inboxes
  BY <1>3 DEF Obstacle
<1>4. CASE new = Odometry
  BY <1>4 DEF Odometry
<1>5. ASSUME NEW t \in Targets, NEW seen \in SecondSeen, NEW news \in BOOLEAN,
             new = TargetList(t, seen, news)
      PROVE  new \in Inboxes
  BY <1>5 DEF TargetList
<1>6. ASSUME NEW s \in Signals, new = RadioSignalStrength(s) PROVE new \in Inboxes
  BY <1>6 DEF RadioSignalStrength
<1>. QED
  <2>. HIDE DEF Inboxes
  <2>. QED BY <1>1, <1>2, <1>3, <1>4, <1>5, <1>6 DEF Received

\* updateRover keeps the types of the status, and leaves a frozen one alone.
LEMMA RunUpdates ==
  ASSUME Inv, NEW new \in Inboxes, Run(new)
  PROVE  Updated
<1>. USE NavConstants DEF Updated, StatusType, Inv, TypeOK
<1>1. CASE RunOnSameData(new)
  BY <1>1 DEF RunOnSameData, KeepStatus, status, repeaterTimer
<1>2. CASE RunOnNews(new)
  BY <1>2 DEF RunOnNews, CopyReadings, UpdateRepeater, Inboxes
<1>3. CASE SwitchOff(new)
  BY <1>3 DEF SwitchOff, repeaterTimer
<1>4. CASE SwitchOn(new)
  BY <1>4 DEF SwitchOn, CourseStarts, CopyStatus, repeaterTimer, Inboxes
<1>5. CASE RunOnNothing(new)
  BY <1>5 DEF RunOnNothing, KeepStatus, status, repeaterTimer
<1>. QED BY <1>1, <1>2, <1>3, <1>4, <1>5 DEF Run
-----------------------------------------------------------------------------
(* What the handlers keep, the status being up to date *)

Core ==
  /\ MachineType /\ GateType /\ AvoidanceType /\ SearchType
  /\ LegsMatchCourse /\ PointsLeft /\ NothingUnsetIsRead

\* Wherever a handler makes the rover head, what it sees is a view.
LEMMA ViewType ==
  ASSUME NEW v \in Views,
         SamePoint(v) \/ NewPoint(v) \/ NoPoint(v) \/ SameBearing(v) \/ NewBearing(v)
           \/ AheadView(v)
  PROVE  view' \in Views
<1>1. CASE SamePoint(v) \/ NewPoint(v) \/ NewBearing(v) \/ AheadView(v)
  BY <1>1 DEF SamePoint, NewPoint, NewBearing, AheadView
<1>2. CASE NoPoint(v)
  BY <1>2 DEF NoPoint, Views, Headings
<1>3. CASE SameBearing(v)
  BY <1>3 DEF SameBearing, Views
<1>. QED BY <1>1, <1>2, <1>3

\* The commands that the driving primitives leave.
LEMMA CommandType ==
  ASSUME MachineType,
         \/ UNCHANGED command \/ Stop
         \/ \E heading : TurnCommand(heading)
         \/ \E driven : DriveCommand(driven)
  PROVE  command' \in {"none", "stop", "turn", "drive"}
BY DEF MachineType, Stop, TurnCommand, DriveCommand

\* A waypoint that is done leaves a path.
LEMMA PopType ==
  ASSUME path \in Seq(Waypoints), path # <<>>, completed \in Nat, PopWaypoint
  PROVE  path' \in Seq(Waypoints) /\ completed' \in Nat
BY DEF PopWaypoint

\* GateStateMachine::run keeps the invariant: the posts and points that its states
\* take for granted are there, and only a gate waypoint is popped.
LEMMA GateKeeps ==
  ASSUME Inv, Updated, NEW v \in Views, GateRun(v), UNCHANGED <<avoidanceVars, searchVars>>
  PROVE  Core' /\ state' \notin {"Off", "Exit"}
<1>. USE DEF Inv, TypeOK, Core
<1>1. AvoidanceType' /\ SearchType'
  BY DEF AvoidanceType, SearchType, avoidanceVars, searchVars
<1>2. ASSUME FoundSecondPost(v), gatePoints' \in Nat, state \in GateStates PROVE Core' /\ state' \notin {"Off", "Exit"}
  <2>1. MachineType'
    BY <1>2, ViewType DEF FoundSecondPost, UpdatePost2Info, MachineType, Goto,
         NavStates, progress
  <2>2. GateType'
    BY <1>2 DEF FoundSecondPost, UpdatePost2Info, GateType, PostReading
  <2>3. LegsMatchCourse' /\ PointsLeft' /\ NothingUnsetIsRead'
    BY <1>2 DEF FoundSecondPost, UpdatePost2Info, LegsMatchCourse, PointsLeft,
         NothingUnsetIsRead, Goto, progress, LegStates, SearchStates, GateStates,
         PostReading
  <2>. QED BY <1>1, <2>1, <2>2, <2>3, <1>2 DEF FoundSecondPost, UpdatePost2Info, Goto
<1>3. CASE state = "GateSpin" /\ ExecuteGateSpin(v)
  <2>. SUFFICES ASSUME ~SecondPostSeen PROVE Core' /\ state' \notin {"Off", "Exit"}
    BY <1>2, <1>3, GateConstants DEF ExecuteGateSpin, GateSpinOver, GateStates, GateType
  <2>1. MachineType'
    BY <1>3, ViewType, CommandType DEF ExecuteGateSpin, GateSpinOver, GateSpinDone,
         MachineType, Goto, NavStates, progress, NextStop, FoundSecondPost
  <2>2. GateType'
    BY <1>3, GateConstants DEF ExecuteGateSpin, GateSpinOver, GateSpinDone, GateType,
         gateVars, gateSearchVars, PointsLeft, FoundSecondPost
  <2>3. LegsMatchCourse' /\ PointsLeft' /\ NothingUnsetIsRead'
    BY <1>3, GateConstants DEF ExecuteGateSpin, GateSpinOver, GateSpinDone,
         LegsMatchCourse, PointsLeft, NothingUnsetIsRead, Goto,
      progress, gateVars, gateSearchVars, LegStates, SearchStates, GateStates, GateType, FoundSecondPost
  <2>. QED BY <1>1, <2>1, <2>2, <2>3, <1>3 DEF ExecuteGateSpin, GateSpinOver, Goto,
       FoundSecondPost
<1>4. CASE state = "GateSpinWait" /\ ExecuteGateSpinWait(v)
  <2>. SUFFICES ASSUME ~SecondPostSeen PROVE Core' /\ state' \notin {"Off", "Exit"}
    BY <1>2, <1>4, GateConstants DEF ExecuteGateSpinWait, GateStates, GateType
  <2>1. MachineType'
    BY <1>4, ViewType, CommandType DEF ExecuteGateSpinWait, MachineType, Goto,
         NavStates, progress, NextStop, FoundSecondPost
  <2>2. GateType'
    BY <1>4, GateConstants DEF ExecuteGateSpinWait, GateType, gateVars, gateSearchVars,
         PointsLeft, FoundSecondPost
  <2>3. LegsMatchCourse' /\ PointsLeft' /\ NothingUnsetIsRead'
    BY <1>4, GateConstants DEF ExecuteGateSpinWait, LegsMatchCourse, PointsLeft,
         NothingUnsetIsRead, Goto,
      progress, gateVars, gateSearchVars, LegStates, SearchStates, GateStates, GateType, FoundSecondPost
  <2>. QED BY <1>1, <2>1, <2>2, <2>3, <1>4 DEF ExecuteGateSpinWait, Goto, FoundSecondPost
<1>5. CASE state = "GateTurn" /\ ExecuteGateTurn(v)
  <2>. SUFFICES ASSUME ~SecondPostSeen PROVE Core' /\ state' \notin {"Off", "Exit"}
    BY <1>2, <1>5, GateConstants DEF ExecuteGateTurn, PointsToGo, GateStates, GateType
  <2>1. MachineType'
    BY <1>5, ViewType, CommandType DEF ExecuteGateTurn, PointsToGo, MachineType, Goto,
         NavStates, progress, NextStop, FoundSecondPost
  <2>2. GateType'
    BY <1>5, GateConstants DEF ExecuteGateTurn, PointsToGo, GateType, gateVars,
         gateSearchVars, PointsLeft, FoundSecondPost
  <2>3. LegsMatchCourse' /\ PointsLeft' /\ NothingUnsetIsRead'
    BY <1>5, GateConstants DEF ExecuteGateTurn, PointsToGo, LegsMatchCourse, PointsLeft,
         NothingUnsetIsRead, Goto,
      progress, gateVars, gateSearchVars, LegStates, SearchStates, GateStates, GateType, FoundSecondPost
  <2>. QED BY <1>1, <2>1, <2>2, <2>3, <1>5 DEF ExecuteGateTurn, PointsToGo, Goto,
       FoundSecondPost
<1>6. CASE state = "GateDrive" /\ ExecuteGateDrive(v)
  <2>. SUFFICES ASSUME ~SecondPostSeen PROVE Core' /\ state' \notin {"Off", "Exit"}
    BY <1>2, <1>6, GateConstants DEF ExecuteGateDrive, GateStates, GateType
  <2>1. MachineType'
    BY <1>6, ViewType, CommandType DEF ExecuteGateDrive, MachineType, Goto, NavStates,
         progress, NextStop, FoundSecondPost
  <2>2. GateType'
    BY <1>6, GateConstants DEF ExecuteGateDrive, GateType, gateVars, gateSearchVars,
         PointsLeft, FoundSecondPost
  <2>3. LegsMatchCourse' /\ PointsLeft' /\ NothingUnsetIsRead'
    BY <1>6, GateConstants DEF ExecuteGateDrive, LegsMatchCourse, PointsLeft,
         NothingUnsetIsRead, Goto,
      progress, gateVars, gateSearchVars, LegStates, SearchStates, GateStates, GateType, FoundSecondPost
  <2>. QED BY <1>1, <2>1, <2>2, <2>3, <1>6 DEF ExecuteGateDrive, Goto, FoundSecondPost
<1>7. CASE state = "GateTurnToCentPoint" /\ ExecuteGateTurnToCentPoint(v)
  <2>1. MachineType'
    BY <1>7, ViewType, CommandType DEF ExecuteGateTurnToCentPoint, MachineType, Goto,
         NavStates, progress, NextStop
  <2>2. GateType'
    BY <1>7, GateConstants DEF ExecuteGateTurnToCentPoint, GateType, gateVars,
         gateSearchVars, PointsLeft
  <2>3. LegsMatchCourse' /\ PointsLeft' /\ NothingUnsetIsRead'
    BY <1>7, GateConstants DEF ExecuteGateTurnToCentPoint, LegsMatchCourse, PointsLeft,
         NothingUnsetIsRead, Goto,
      progress, gateVars, gateSearchVars, LegStates, SearchStates, GateStates, GateType
  <2>. QED BY <1>1, <2>1, <2>2, <2>3, <1>7 DEF ExecuteGateTurnToCentPoint, Goto
<1>8. CASE state = "GateDriveToCentPoint" /\ ExecuteGateDriveToCentPoint(v)
  <2>1. MachineType'
    BY <1>8, ViewType, CommandType DEF ExecuteGateDriveToCentPoint, MachineType, Goto,
         NavStates, progress, NextStop
  <2>2. GateType'
    BY <1>8, GateConstants DEF ExecuteGateDriveToCentPoint, GateType, gateVars,
         gateSearchVars, PointsLeft
  <2>3. LegsMatchCourse' /\ PointsLeft' /\ NothingUnsetIsRead'
    BY <1>8, GateConstants DEF ExecuteGateDriveToCentPoint, LegsMatchCourse, PointsLeft,
         NothingUnsetIsRead, Goto,
      progress, gateVars, gateSearchVars, LegStates, SearchStates, GateStates, GateType
  <2>. QED BY <1>1, <2>1, <2>2, <2>3, <1>8 DEF ExecuteGateDriveToCentPoint, Goto
<1>9. CASE state = "GateFace" /\ ExecuteGateFace(v)
  <2>1. MachineType'
    BY <1>9, ViewType, CommandType DEF ExecuteGateFace, MachineType, Goto, NavStates,
         progress, NextStop
  <2>2. GateType'
    BY <1>9, GateConstants DEF ExecuteGateFace, GateType, gateVars, gateSearchVars,
         PointsLeft
  <2>3. LegsMatchCourse' /\ PointsLeft' /\ NothingUnsetIsRead'
    BY <1>9, GateConstants DEF ExecuteGateFace, LegsMatchCourse, PointsLeft,
         NothingUnsetIsRead, Goto,
      progress, gateVars, gateSearchVars, LegStates, SearchStates, GateStates, GateType
  <2>. QED BY <1>1, <2>1, <2>2, <2>3, <1>9 DEF ExecuteGateFace, Goto
<1>10. CASE state = "GateShimmy" /\ ExecuteGateShimmy(v)
  <2>1. MachineType'
    BY <1>10, ViewType, CommandType DEF ExecuteGateShimmy, MachineType, Goto, NavStates,
         progress, NextStop
  <2>2. GateType'
    BY <1>10, GateConstants DEF ExecuteGateShimmy, GateType, gateVars, gateSearchVars,
         PointsLeft
  <2>3. LegsMatchCourse' /\ PointsLeft' /\ NothingUnsetIsRead'
    BY <1>10, GateConstants DEF ExecuteGateShimmy, LegsMatchCourse, PointsLeft,
         NothingUnsetIsRead, Goto,
      progress, gateVars, gateSearchVars, LegStates, SearchStates, GateStates, GateType
  <2>. QED BY <1>1, <2>1, <2>2, <2>3, <1>10 DEF ExecuteGateShimmy, Goto
<1>11. CASE state = "GateDriveThrough" /\ ExecuteGateDriveThrough(v)
  <2>1. path' \in Seq(Waypoints) /\ completed' \in Nat
    BY <1>11, PopType DEF ExecuteGateDriveThrough, WrongWay, MachineType, progress,
         LegsMatchCourse, GateStates
  <2>2. MachineType'
    BY <1>11, <2>1, ViewType, CommandType DEF ExecuteGateDriveThrough, WrongWay,
         MachineType, Goto, NavStates
  <2>3. GateType'
    BY <1>11, GateConstants DEF ExecuteGateDriveThrough, WrongWay, PopWaypoint,
         GateType, gateVars, gateSearchVars, PointsLeft
  <2>4. LegsMatchCourse' /\ PointsLeft' /\ NothingUnsetIsRead'
    BY <1>11, GateConstants DEF ExecuteGateDriveThrough, WrongWay, PopWaypoint,
         LegsMatchCourse, PointsLeft, NothingUnsetIsRead, Goto,
      progress, gateVars, gateSearchVars, LegStates, SearchStates, GateStates, GateType
  <2>. QED BY <1>1, <2>2, <2>3, <2>4, <1>11 DEF ExecuteGateDriveThrough, WrongWay, Goto
<1>. QED BY <1>3, <1>4, <1>5, <1>6, <1>7, <1>8, <1>9, <1>10, <1>11 DEF GateRun

\* SearchStateMachine::run keeps it, and enters the gate states at gates only.
LEMMA SearchKeeps ==
  ASSUME Inv, Updated, NEW v \in Views, SearchRun(v)
  PROVE  Core' /\ state' \notin {"Off", "Exit"}
<1>. USE DEF Inv, TypeOK, Core
<1>1. ASSUME FoundTarget(v), UNCHANGED <<progress, gateVars, avoidanceVars>>, state \in SearchStates
      PROVE  Core' /\ state' \notin {"Off", "Exit"}
  <2>1. MachineType'
    BY <1>1, ViewType DEF FoundTarget, MachineType, Goto, NavStates, progress
  <2>2. GateType' /\ AvoidanceType' /\ SearchType'
    BY <1>1 DEF FoundTarget, GateType, AvoidanceType, SearchType, gateVars,
         gateSearchVars, avoidanceVars
  <2>3. LegsMatchCourse' /\ PointsLeft' /\ NothingUnsetIsRead'
    BY <1>1 DEF FoundTarget, LegsMatchCourse, PointsLeft, NothingUnsetIsRead, Goto,
         progress, LegStates, SearchStates, GateStates
  <2>. QED BY <2>1, <2>2, <2>3, <1>1 DEF FoundTarget, Goto
<1>2. CASE state = "SearchSpin" /\ ExecuteSearchSpin(v) /\ UNCHANGED <<progress, gateVars, avoidanceVars>>
  <2>. SUFFICES ASSUME ~FoundTarget(v) PROVE Core' /\ state' \notin {"Off", "Exit"}
    BY <1>1, <1>2 DEF SearchStates
  <2>1. MachineType'
    BY <1>2, ViewType, CommandType DEF ExecuteSearchSpin, SpinDone, NextStop,
         MachineType, Goto, NavStates, progress
  <2>2. GateType' /\ AvoidanceType' /\ SearchType'
    BY <1>2, SearchConstants DEF ExecuteSearchSpin, SpinDone, NextStop, GateType,
         AvoidanceType, SearchType, gateVars, gateSearchVars, avoidanceVars, searchVars,
         PointsLeft
  <2>3. LegsMatchCourse' /\ PointsLeft' /\ NothingUnsetIsRead'
    BY <1>2 DEF ExecuteSearchSpin, SpinDone, NextStop, LegsMatchCourse, PointsLeft,
         NothingUnsetIsRead, Goto, progress,
      LegStates, SearchStates, GateStates, SearchType, gateVars, gateSearchVars, avoidanceVars, searchVars
  <2>. QED BY <2>1, <2>2, <2>3, <1>2 DEF ExecuteSearchSpin, Goto
<1>3. CASE state \in {"SearchSpinWait", "TurnedToTargetWait"} /\ ExecuteRoverWait(v) /\ UNCHANGED <<progress, gateVars, avoidanceVars>>
  <2>. SUFFICES ASSUME ~FoundTarget(v) PROVE Core' /\ state' \notin {"Off", "Exit"}
    BY <1>1, <1>3 DEF SearchStates
  <2>1. MachineType'
    BY <1>3, ViewType, CommandType DEF ExecuteRoverWait, MachineType, Goto, NavStates,
         progress
  <2>2. GateType' /\ AvoidanceType' /\ SearchType'
    BY <1>3, SearchConstants DEF ExecuteRoverWait, GateType, AvoidanceType, SearchType,
         gateVars, gateSearchVars, avoidanceVars, searchVars, PointsLeft
  <2>3. LegsMatchCourse' /\ PointsLeft' /\ NothingUnsetIsRead'
    BY <1>3 DEF ExecuteRoverWait, LegsMatchCourse, PointsLeft, NothingUnsetIsRead, Goto,
         progress,
      LegStates, SearchStates, GateStates, SearchType, gateVars, gateSearchVars, avoidanceVars, searchVars
  <2>. QED BY <2>1, <2>2, <2>3, <1>3 DEF ExecuteRoverWait, Goto
<1>4. CASE state = "SearchTurn" /\ ExecuteSearchTurn(v) /\ UNCHANGED <<progress, gateVars, avoidanceVars>>
  <2>. SUFFICES ASSUME ~FoundTarget(v) PROVE Core' /\ state' \notin {"Off", "Exit"}
    BY <1>1, <1>4 DEF SearchStates
  <2>1. MachineType'
    BY <1>4, ViewType, CommandType DEF ExecuteSearchTurn, NoneLeft, MachineType, Goto,
         NavStates, progress
  <2>2. GateType' /\ AvoidanceType' /\ SearchType'
    BY <1>4, SearchConstants DEF ExecuteSearchTurn, NoneLeft, GateType, AvoidanceType,
         SearchType, gateVars, gateSearchVars, avoidanceVars, searchVars, PointsLeft
  <2>3. LegsMatchCourse' /\ PointsLeft' /\ NothingUnsetIsRead'
    BY <1>4 DEF ExecuteSearchTurn, NoneLeft, LegsMatchCourse, PointsLeft,
         NothingUnsetIsRead, Goto, progress,
      LegStates, SearchStates, GateStates, SearchType, gateVars, gateSearchVars, avoidanceVars, searchVars
  <2>. QED BY <2>1, <2>2, <2>3, <1>4 DEF ExecuteSearchTurn, NoneLeft, Goto
<1>5. CASE state = "TurnToTarget" /\ ExecuteTurnToTarget(v) /\ UNCHANGED <<progress, gateVars, avoidanceVars>>
  <2>1. anglesSet \/ TargetSeen
    BY <1>5 DEF NothingUnsetIsRead, Updated, TargetSeen
  <2>2. anglesSet' \in BOOLEAN /\ (state' = "TurnToTarget" => anglesSet')
    BY <1>5, <2>1 DEF ExecuteTurnToTarget, AnglesSaved, Goto, SearchType, searchVars
  <2>3. state' \in {"TurnToTarget", "TurnedToTargetWait", "DriveToTarget"}
    BY <1>5 DEF ExecuteTurnToTarget, AnglesSaved, Goto
  <2>4. MachineType'
    BY <1>5, ViewType, CommandType DEF ExecuteTurnToTarget, AnglesSaved, MachineType,
         Goto, NavStates, progress
  <2>5. GateType' /\ AvoidanceType' /\ SearchType'
    BY <1>5, <2>2 DEF ExecuteTurnToTarget, AnglesSaved, GateType, AvoidanceType,
         SearchType, gateVars, gateSearchVars, avoidanceVars, searchVars
  <2>6. LegsMatchCourse' /\ PointsLeft' /\ NothingUnsetIsRead'
    BY <1>5, <2>2, <2>3 DEF LegsMatchCourse, PointsLeft, NothingUnsetIsRead, progress,
         LegStates, SearchStates, GateStates
  <2>. QED BY <2>3, <2>4, <2>5, <2>6
<1>6. CASE state = "SearchDrive" /\ ExecuteSearchDrive(v) /\ UNCHANGED <<progress, gateVars>>
  <2>1. MachineType'
    BY <1>6, ViewType, CommandType DEF ExecuteSearchDrive, FoundTarget, RecordObstacle,
         MachineType, Goto, NavStates, progress
  <2>0. searchPoints' \in Nat
    BY <1>6 DEF ExecuteSearchDrive, FoundTarget, SearchType, PointsLeft, searchVars
  <2>2. GateType' /\ AvoidanceType'
    BY <1>6 DEF ExecuteSearchDrive, RecordObstacle, GateType, AvoidanceType, gateVars,
         gateSearchVars, avoidanceVars
  <2>4. SearchType'
    BY <1>6, <2>0 DEF ExecuteSearchDrive, FoundTarget, SearchType, searchVars
  <2>3. LegsMatchCourse' /\ PointsLeft' /\ NothingUnsetIsRead'
    BY <1>6 DEF ExecuteSearchDrive, FoundTarget, RecordObstacle, LegsMatchCourse,
         PointsLeft, NothingUnsetIsRead, Goto, progress,
      LegStates, SearchStates, GateStates, SearchType, gateVars, gateSearchVars, avoidanceVars, searchVars
  <2>. QED BY <2>1, <2>2, <2>3, <2>4, <1>6 DEF ExecuteSearchDrive, FoundTarget, Goto
<1>7. CASE state = "DriveToTarget" /\ ExecuteDriveToTarget(v)
  <2>0. path # <<>> /\ target' \in TargetReadings
    BY <1>7, NavConstants DEF LegsMatchCourse, SearchStates, Updated, StatusType
  <2>1. path' \in Seq(Waypoints) /\ completed' \in Nat
    BY <1>7, <2>0, PopType DEF ExecuteDriveToTarget, AtTarget, GateLeg,
         MachineType, progress
  <2>2. MachineType'
    BY <1>7, <2>1, ViewType, CommandType DEF ExecuteDriveToTarget, AtTarget, GateLeg,
         RecordObstacle, MachineType, Goto, NavStates
  <2>3. GateType'
    BY <1>7, <2>0 DEF ExecuteDriveToTarget, AtTarget, GateLeg, GateType,
         gateVars, gateSearchVars, TargetReadings
  <2>4. AvoidanceType' /\ SearchType'
    BY <1>7 DEF ExecuteDriveToTarget, AtTarget, GateLeg,
         RecordObstacle, AvoidanceType, SearchType, avoidanceVars, searchVars
  <2>5. LegsMatchCourse' /\ PointsLeft' /\ NothingUnsetIsRead'
    BY <1>7, <2>0 DEF ExecuteDriveToTarget, AtTarget, GateLeg,
         RecordObstacle, LegsMatchCourse, PointsLeft, NothingUnsetIsRead, Goto,
         progress,
      LegStates, SearchStates, GateStates, gateVars, gateSearchVars, avoidanceVars, searchVars, TargetSeen
  <2>. QED BY <2>2, <2>3, <2>4, <2>5, <1>7 DEF ExecuteDriveToTarget, AtTarget, GateLeg,
       Goto
<1>. QED BY <1>2, <1>3, <1>4, <1>5, <1>6, <1>7 DEF SearchRun

\* ObstacleAvoidanceStateMachine::run keeps it, and goes back to the leg it left.
LEMMA AvoidanceKeeps ==
  ASSUME Inv, Updated, NEW v \in Views, AvoidanceRun(v), UNCHANGED <<gateVars, searchVars>>
  PROVE  Core' /\ state' \notin {"Off", "Exit"}
<1>. USE DEF Inv, TypeOK, Core, AvoidanceRun
<1>1. GateType' /\ SearchType'
  BY DEF GateType, SearchType, gateVars, gateSearchVars, searchVars
<1>2. CASE state \in {"TurnAroundObs", "SearchTurnAroundObs"} /\ ExecuteTurnAroundObs(v)
  <2>1. MachineType'
    BY <1>2, ViewType DEF ExecuteTurnAroundObs, MachineType, Goto, NavStates, progress
  <2>2. AvoidanceType'
    BY <1>2 DEF ExecuteTurnAroundObs, AvoidanceType, avoidanceVars
  <2>3. LegsMatchCourse' /\ PointsLeft' /\ NothingUnsetIsRead'
    BY <1>2 DEF ExecuteTurnAroundObs, ReachableTarget, LegsMatchCourse, PointsLeft,
         NothingUnsetIsRead, Goto, progress,
      LegStates, SearchStates, GateStates, TargetSeen, avoidanceVars
  <2>. QED BY <1>1, <1>2, <2>1, <2>2, <2>3 DEF ExecuteTurnAroundObs, Goto
<1>3. CASE state \in {"DriveAroundObs", "SearchDriveAroundObs"} /\ ExecuteDriveAroundObs(v)
  <2>0. originalObstacle # "unset" => originalObstacle' # "unset"
    BY <1>3 DEF ExecuteDriveAroundObs, avoidanceVars
  <2>1. MachineType'
    BY <1>3, ViewType, CommandType DEF ExecuteDriveAroundObs, AroundAgain, BackToLeg,
         MachineType, Goto, NavStates, progress
  <2>2. AvoidanceType'
    BY <1>3 DEF ExecuteDriveAroundObs, AvoidanceType, avoidanceVars
  <2>3. LegsMatchCourse' /\ PointsLeft' /\ NothingUnsetIsRead'
    BY <1>3 DEF ExecuteDriveAroundObs, AroundAgain, BackToLeg, LegsMatchCourse,
         PointsLeft, NothingUnsetIsRead, Goto, progress,
      LegStates, SearchStates, GateStates, avoidanceVars
  <2>. QED BY <1>1, <1>3, <2>1, <2>2, <2>3 DEF ExecuteDriveAroundObs, AroundAgain,
       BackToLeg, Goto
<1>. QED BY <1>2, <1>3

\* The change of the search pattern keeps it: the new one has points.
LEMMA ChangeSearchAlgKeeps ==
  ASSUME Inv, NEW v \in Views, ChangeSearchAlg(v)
  PROVE  Core' /\ state' \notin {"Off", "Exit"}
<1>. USE DEF Inv, TypeOK, Core, ChangeSearchAlg, NextFails, SetSearcher, InitializeSearch
<1>1. searcher' \in {"SpiralOut", "LawnMower", "SpiralIn"}
  BY SearchConstants DEF SearchType
<1>2. searchFails' \in 0..(Len(Patterns) - 1)
  BY SearchConstants DEF SearchType
<1>3. searchPoints' \in Nat
  BY SearchConstants
<1>4. SearchType'
  BY <1>1, <1>2, <1>3 DEF SearchType
<1>5. MachineType'
  BY ViewType DEF MachineType, Goto, NavStates, progress
<1>6. GateType' /\ AvoidanceType'
  BY DEF GateType, AvoidanceType, gateVars, gateSearchVars, avoidanceVars
<1>7. LegsMatchCourse' /\ PointsLeft' /\ NothingUnsetIsRead'
  BY DEF LegsMatchCourse, PointsLeft, NothingUnsetIsRead, Goto, progress, LegStates,
       SearchStates, GateStates
<1>. QED BY <1>4, <1>5, <1>6, <1>7 DEF Goto

\* A course is a sequence of waypoints, and may become the path.
LEMMA CourseType ==
  ASSUME NEW c \in Courses \cup {<<>>}
  PROVE  c \in Seq([id : Nat, kind : WaypointKinds]) /\ c \in Seq(Waypoints)
<1>1. c \in Seq([id : Nat, kind : WaypointKinds])
  <2>1. CASE c \in Courses
    BY <2>1, NavConstants, Zenon
  <2>2. \A S : <<>> \in Seq(S)
    OBVIOUS
  <2>3. <<>> \in Seq([id : Nat, kind : WaypointKinds])
    BY <2>2, Zenon
  <2>. QED BY <2>1, <2>3
<1>2. [id : Nat, kind : WaypointKinds] \subseteq Waypoints
  BY DEF Waypoints
<1>3. \A A, B : A \subseteq B => Seq(A) \subseteq Seq(B)
  OBVIOUS
<1>. QED BY <1>1, <1>2, <1>3, Zenon

\* The point for the repeater is a copy of a waypoint of the course.
LEMMA DropPointKeeps ==
  ASSUME Inv, Updated, UNCHANGED course, NEW v \in Views, path # <<>>, state # "Off",
         AddRepeaterDropPoint(v)
  PROVE  Core' /\ state' # "Off"
<1>. USE DEF Inv, TypeOK, Core, AddRepeaterDropPoint
<1>1. ASSUME completed \in 1..Len(course), path' = <<[id |-> course[completed].id, kind |-> "drop"]>> \o path
      PROVE  path' \in Seq(Waypoints) /\ path' # <<>>
  <2>1. course \in Seq([id : Nat, kind : WaypointKinds])
    BY CourseType DEF StatusType
  <2>2. course[completed] \in [id : Nat, kind : WaypointKinds]
    <3>. DEFINE S == [id : Nat, kind : WaypointKinds]
    <3>1. course \in Seq(S)
      BY <2>1
    <3>. HIDE DEF S
    <3>2. course[completed] \in S
      BY <1>1, <3>1
    <3>. QED BY <3>2 DEF S
  <2>3. [id |-> course[completed].id, kind |-> "drop"] \in Waypoints
    BY <2>2 DEF Waypoints
  <2>. QED BY <1>1, <2>3 DEF MachineType
<1>2. path' \in Seq(Waypoints) /\ path' # <<>>
  BY <1>1 DEF MachineType
<1>3. MachineType'
  BY <1>2, ViewType DEF MachineType, Goto, NavStates
<1>4. GateType' /\ AvoidanceType' /\ SearchType'
  BY DEF modeVars, GateType, AvoidanceType, SearchType, gateVars, gateSearchVars,
       avoidanceVars, searchVars
<1>5. LegsMatchCourse' /\ PointsLeft' /\ NothingUnsetIsRead'
  BY <1>2 DEF LegsMatchCourse, PointsLeft, NothingUnsetIsRead, Goto, LegStates,
       SearchStates, GateStates
<1>. QED BY <1>3, <1>4, <1>5 DEF Goto

\* The handlers of the plain legs and of the repeater keep it.
LEMMA LegsKeep ==
  ASSUME Inv, Updated, UNCHANGED course, NEW v \in Views,
         \/ state = "Done" /\ ExecuteDone(v)
         \/ state \in {"Turn", "RadioRepeaterTurn"} /\ ExecuteTurn(v)
         \/ state \in {"Drive", "RadioRepeaterDrive"} /\ ExecuteDrive(v)
         \/ state = "RepeaterDropWait" /\ ExecuteRepeaterDropWait(v)
  PROVE  Core' /\ state' # "Off"
<1>. USE DEF Inv, TypeOK, Core
<1>1. CASE state = "Done" /\ ExecuteDone(v)
  <2>1. MachineType'
    BY <1>1, ViewType, CommandType DEF ExecuteDone, MachineType, Goto, NavStates, progress
  <2>2. GateType' /\ AvoidanceType' /\ SearchType'
    BY <1>1 DEF ExecuteDone, modeVars, GateType, AvoidanceType, SearchType, gateVars,
         gateSearchVars, avoidanceVars, searchVars
  <2>3. LegsMatchCourse' /\ PointsLeft' /\ NothingUnsetIsRead'
    BY <1>1 DEF ExecuteDone, LegsMatchCourse, PointsLeft, NothingUnsetIsRead, Goto,
         progress, LegStates, SearchStates, GateStates
  <2>. QED BY <2>1, <2>2, <2>3, <1>1 DEF ExecuteDone, Goto
<1>2. CASE state \in {"Turn", "RadioRepeaterTurn"} /\ ExecuteTurn(v)
  <2>. SUFFICES ASSUME ~(path # <<>> /\ IsAddRepeaterDropPoint) PROVE Core' /\ state' # "Off"
    BY <1>2, DropPointKeeps DEF ExecuteTurn
  <2>1. MachineType'
    BY <1>2, ViewType, CommandType DEF ExecuteTurn, MachineType, Goto, NavStates, progress
  <2>2. GateType' /\ AvoidanceType' /\ SearchType'
    BY <1>2 DEF ExecuteTurn, modeVars, GateType, AvoidanceType, SearchType, gateVars,
         gateSearchVars, avoidanceVars, searchVars
  <2>3. LegsMatchCourse' /\ PointsLeft' /\ NothingUnsetIsRead'
    BY <1>2 DEF ExecuteTurn, LegsMatchCourse, PointsLeft, NothingUnsetIsRead, Goto,
         progress, LegStates, SearchStates, GateStates
  <2>. QED BY <2>1, <2>2, <2>3, <1>2 DEF ExecuteTurn, Goto
<1>3. CASE state \in {"Drive", "RadioRepeaterDrive"} /\ ExecuteDrive(v)
  <2>0. path # <<>>
    BY <1>3 DEF LegsMatchCourse, LegStates
  <2>. SUFFICES ASSUME ~IsAddRepeaterDropPoint PROVE Core' /\ state' # "Off"
    BY <1>3, <2>0, DropPointKeeps DEF ExecuteDrive
  <2>1. path' \in Seq(Waypoints) /\ completed' \in Nat
    <3>1. \/ UNCHANGED progress
          \/ path' = Tail(path) /\ UNCHANGED completed
          \/ PopWaypoint
      BY <1>3 DEF ExecuteDrive, AtWaypoint, PopDropPoint
    <3>. QED BY <3>1, <2>0, PopType DEF MachineType, PopWaypoint, progress
  <2>2. MachineType'
    BY <1>3, <2>1, ViewType, CommandType DEF ExecuteDrive, AtWaypoint, IsSearched,
         PopDropPoint, MachineType, Goto, NavStates
  <2>3. GateType' /\ AvoidanceType' /\ SearchType'
    BY <1>3 DEF ExecuteDrive, AtWaypoint, IsSearched, PopDropPoint, RecordObstacle,
         GateType, AvoidanceType, SearchType, gateVars, gateSearchVars, avoidanceVars,
         searchVars
  <2>4. LegsMatchCourse' /\ PointsLeft' /\ NothingUnsetIsRead'
    BY <1>3, <2>0 DEF ExecuteDrive, AtWaypoint, IsSearched, PopDropPoint,
         RecordObstacle, LegsMatchCourse, PointsLeft, NothingUnsetIsRead, Goto,
         progress, LegStates, SearchStates, GateStates
  <2>. QED BY <2>2, <2>3, <2>4, <1>3 DEF ExecuteDrive, AtWaypoint, IsSearched,
       PopDropPoint, Goto
<1>4. CASE state = "RepeaterDropWait" /\ ExecuteRepeaterDropWait(v)
  <2>1. MachineType'
    BY <1>4, ViewType, CommandType DEF ExecuteRepeaterDropWait, MachineType, Goto,
         NavStates, progress
  <2>2. GateType' /\ AvoidanceType' /\ SearchType'
    BY <1>4 DEF ExecuteRepeaterDropWait, modeVars, GateType, AvoidanceType, SearchType,
         gateVars, gateSearchVars, avoidanceVars, searchVars
  <2>3. LegsMatchCourse' /\ PointsLeft' /\ NothingUnsetIsRead'
    BY <1>4 DEF ExecuteRepeaterDropWait, LegsMatchCourse, PointsLeft,
         NothingUnsetIsRead, Goto, progress, LegStates, SearchStates, GateStates
  <2>. QED BY <2>1, <2>2, <2>3, <1>4 DEF ExecuteRepeaterDropWait, Goto
<1>. QED BY <1>1, <1>2, <1>3, <1>4

\* With autonomy off, every state gives way to Off.
LEMMA OffKeeps ==
  ASSUME Inv, ~auton', NEW v \in Views, ExecuteOff(v)
  PROVE  Core' /\ OffIsStopped'
<1>. USE DEF Inv, TypeOK, Core, ExecuteOff
<1>1. MachineType'
  <2>1. path' \in Seq(Waypoints) /\ view' \in Views
    BY ViewType
  <2>. QED BY <2>1 DEF MachineType, NavStates, Stop
<1>2. GateType' /\ AvoidanceType' /\ SearchType'
  BY DEF modeVars, GateType, AvoidanceType, SearchType, gateVars, gateSearchVars,
       avoidanceVars, searchVars
<1>3. LegsMatchCourse' /\ PointsLeft' /\ NothingUnsetIsRead'
  BY DEF LegsMatchCourse, PointsLeft, NothingUnsetIsRead, LegStates, SearchStates,
       GateStates
<1>4. OffIsStopped'
  BY DEF OffIsStopped, Stop
<1>. QED BY <1>1, <1>2, <1>3, <1>4

\* So does the switch of StateMachine::run, in whatever state.
LEMMA ExecuteKeeps ==
  ASSUME Inv, Updated, UNCHANGED course, NEW v \in Views, Execute(v)
  PROVE  Core' /\ OffIsStopped'
<1>1. CASE ~auton'
  BY <1>1, OffKeeps DEF Execute
<1>2. CASE auton'
  <2>1. Core' /\ state' # "Off"
    BY <1>2, LegsKeep, SearchKeeps, AvoidanceKeeps, ChangeSearchAlgKeeps, GateKeeps DEF
         Execute
  <2>. QED BY <1>2, <2>1 DEF OffIsStopped
<1>. QED BY <1>1, <1>2

\* So does a whole turn of StateMachine::run, on new, old or frozen data.
LEMMA RunKeeps ==
  ASSUME Inv, NEW new \in Inboxes, Run(new)
  PROVE  Core' /\ OffIsStopped' /\ StatusType'
<1>1. Updated
  BY RunUpdates
<1>. USE DEF Inv, TypeOK
<1>2. view \in Views
  BY DEF MachineType
<1>3. CASE RunOnSameData(new)
  BY <1>1, <1>2, <1>3, ExecuteKeeps DEF RunOnSameData, KeepStatus, status, Updated
<1>4. CASE RunOnNews(new)
  BY <1>1, <1>4, ExecuteKeeps DEF RunOnNews, CopyReadings, CopiedViews, Updated
<1>5. CASE SwitchOff(new)
  BY <1>1, <1>2, <1>5, ExecuteKeeps DEF SwitchOff, Updated
<1>6. CASE SwitchOn(new)
  <2>1. path' \in Seq(Waypoints)
    BY <1>6, CourseType DEF SwitchOn, CourseStarts, CopyStatus, Inboxes
  <2>2. MachineType'
    BY <1>6, <2>1 DEF SwitchOn, CourseStarts, MachineType, Goto, NavStates
  <2>3. GateType' /\ AvoidanceType' /\ SearchType'
    BY <1>6 DEF SwitchOn, CourseStarts, modeVars, GateType, AvoidanceType, SearchType,
         gateVars, gateSearchVars, avoidanceVars, searchVars
  <2>4. LegsMatchCourse' /\ PointsLeft' /\ NothingUnsetIsRead'
    BY <1>6 DEF SwitchOn, CourseStarts, Goto, LegsMatchCourse, PointsLeft,
         NothingUnsetIsRead, LegStates, SearchStates, GateStates
  <2>5. OffIsStopped'
    BY <1>6 DEF SwitchOn, CourseStarts, CopyStatus, Goto, OffIsStopped
  <2>. QED BY <1>1, <2>2, <2>3, <2>4, <2>5 DEF Core, Updated
<1>7. CASE RunOnNothing(new)
  <2>1. CASE state \in WaitStates
    BY <1>1, <1>2, <1>7, <2>1, ExecuteKeeps DEF RunOnNothing, KeepStatus, status, Updated
  <2>2. CASE state \notin WaitStates
    <3>1. UNCHANGED <<state, stateChanged, view, progress, command, modeVars, status>>
      BY <1>7, <2>2 DEF RunOnNothing, KeepStatus
    <3>2. MachineType'
      BY <3>1 DEF MachineType, progress
    <3>3. GateType' /\ AvoidanceType' /\ SearchType'
      BY <3>1 DEF modeVars, GateType, AvoidanceType, SearchType, gateVars,
           gateSearchVars, avoidanceVars, searchVars
    <3>4. LegsMatchCourse' /\ PointsLeft' /\ NothingUnsetIsRead' /\ OffIsStopped'
      BY <3>1, <1>7 DEF RunOnNothing, LegsMatchCourse, PointsLeft, NothingUnsetIsRead,
           OffIsStopped, modeVars, gateVars, gateSearchVars, avoidanceVars, searchVars,
           status, progress
    <3>. QED BY <1>1, <3>2, <3>3, <3>4 DEF Core, Updated
  <2>. QED BY <2>1, <2>2
<1>. QED BY <1>3, <1>4, <1>5, <1>6, <1>7 DEF Run

\* The invariant is inductive.
LEMMA NextKeeps == Inv /\ [Next]_vars => Inv'
<1>. SUFFICES ASSUME Inv, [Next]_vars PROVE Inv'
  OBVIOUS
<1>. USE DEF Inv, TypeOK
<1>1. ASSUME NEW new \in Inboxes, Run(new) PROVE total' \in Nat
  <2>1. CASE SwitchOn(new)
    <3>1. new.course \in Seq(Waypoints)
      BY CourseType DEF Inboxes
    <3>. QED BY <2>1, <3>1 DEF SwitchOn, CourseStarts
  <2>2. CASE ~SwitchOn(new)
    BY <1>1, <2>2 DEF Run, RunOnSameData, RunOnNews, SwitchOff, RunOnNothing
  <2>. QED BY <2>1, <2>2
<1>2. CASE HandleStatus
  <2>1. PICK new \in Inboxes : Run(new)
    BY <1>2, ReceivedType DEF HandleStatus, StatusType
  <2>. QED BY <1>1, <1>2, <2>1, RunKeeps DEF HandleStatus, Core
<1>3. CASE HandleRepeaterDropComplete
  <2>1. inbox \in Inboxes /\ Run(inbox)
    BY <1>3 DEF HandleRepeaterDropComplete, StatusType
  <2>. QED BY <1>1, <1>3, <2>1, RunKeeps DEF HandleRepeaterDropComplete, Core
<1>4. CASE UNCHANGED vars
  <2>. USE <1>4 DEF vars
  <2>1. StatusType'
    BY DEF StatusType, status, repeaterTimer
  <2>2. MachineType'
    BY DEF MachineType
  <2>3. GateType' /\ AvoidanceType' /\ SearchType'
    BY DEF GateType, AvoidanceType, SearchType, gateVars, gateSearchVars, avoidanceVars,
         searchVars
  <2>4. LegsMatchCourse' /\ PointsLeft' /\ NothingUnsetIsRead' /\ OffIsStopped'
    BY DEF LegsMatchCourse, PointsLeft, NothingUnsetIsRead, OffIsStopped, gateVars,
         gateSearchVars, avoidanceVars, searchVars, status
  <2>. QED BY <2>1, <2>2, <2>3, <2>4
<1>. QED BY <1>2, <1>3, <1>4 DEF Next

\* The parts of the invariant hold in every reachable state.
THEOREM Invariant == Spec => []Inv
BY InitInv, NextKeeps, PTL DEF Spec

\* Every variable keeps its type.
THEOREM TypeCorrect == Spec => []TypeOK
BY Invariant, PTL DEF Inv

\* No handler takes the front of an empty path, searches a plain waypoint or
\* looks for a gate where the course has none.
THEOREM LegsMatch == Spec => []LegsMatchCourse
BY Invariant, PTL DEF Inv

\* No search drive and no gate drive takes the front of an empty list of points.
THEOREM PointsAreLeft == Spec => []PointsLeft
BY Invariant, PTL DEF Inv

\* No handler acts on an angle, an obstacle or a post that was never stored.
THEOREM NothingUnset == Spec => []NothingUnsetIsRead
BY Invariant, PTL DEF Inv

\* Off is the state of a rover whose autonomy is off, and it has been stopped.
THEOREM OffStops == Spec => []OffIsStopped
BY Invariant, PTL DEF Inv

-----------------------------------------------------------------------------
(* Course progress and the drop point, unless a detour can disturb the repeater *)

\* The states on the way to the drop point, and those of a detour on a leg.
RepeaterLeg == {"RadioRepeaterTurn", "RadioRepeaterDrive"}
Detour == {"TurnAroundObs", "DriveAroundObs"}
Running == NavStates \ {"Off", "Done", "Exit"}

\* No obstacle is ever close in the way to a waypoint. (Those in the way of a search
\* are not meant: they are driven around and the search goes on.)
LegsAreClear == \A o \in Obstacles : ~(o.range = "close" /\ o.blocksWaypoint)

\* The repeater is not dropped, or no leg is interrupted: after a detour nothing tells
\* that the rover was on the way to its drop point (the run two_drop_points).
RepeaterUndisturbed == "low" \notin Signals \/ LegsAreClear

\* What is not reached then.
RepeaterAlone ==
  /\ "low" \notin Signals
       => ~timeToDrop /\ ~lowTimer /\ state \notin RepeaterLeg \cup {"RepeaterDropWait"}
  /\ LegsAreClear => state \notin Detour

\* The drop point is the front of the path, exactly on the way to it.
DropIsFirst ==
  /\ \A i \in 1 .. Len(path) : path[i].kind = "drop" => i = 1 /\ state \in RepeaterLeg
  /\ state \in RepeaterLeg => path # <<>> /\ Head(path).kind = "drop"

\* The waypoints completed and those in the path make up the course, the drop point
\* apart, which is not one of the course.
DropPoints == IF state \in RepeaterLeg THEN 1 ELSE 0
LegsAddUp == auton /\ state # "Exit" => completed + Len(path) = total + DropPoints

CourseInv == Inv /\ RepeaterAlone /\ DropIsFirst /\ LegsAddUp

\* What a handler of a running course may do with it.
Apart ==
  /\ state' \in RepeaterLeg <=> state \in RepeaterLeg
  /\ state' = "RepeaterDropWait" => state = "RepeaterDropWait"
  /\ LegsAreClear /\ state' \in Detour => state \in Detour
Goes == state \in Running /\ state' \in Running /\ Apart /\ UNCHANGED progress
Completes ==
  /\ state \in Running \ RepeaterLeg /\ state' \in Running \ RepeaterLeg /\ Apart
  /\ path # <<>> /\ PopWaypoint /\ AtItsEnd
Finishes ==
  /\ state \in Running \ RepeaterLeg /\ state' = "Done"
  /\ path = <<>> /\ UNCHANGED progress
Rests == state = "Done" /\ state' = "Done" /\ UNCHANGED progress
AddsDropPoint ==
  /\ state \in Running \ RepeaterLeg /\ state' = "RadioRepeaterTurn" /\ timeToDrop'
  /\ \E id \in Nat : path' = <<[id |-> id, kind |-> "drop"]>> \o path
  /\ UNCHANGED completed
Drops ==
  /\ state = "RadioRepeaterDrive" /\ state' = "RepeaterDropWait"
  /\ PopDropPoint
Dies ==
  /\ state \in Running \ RepeaterLeg /\ state' = "Exit" /\ UNCHANGED progress
  /\ completed \notin 1 .. Len(course)

\* The gate states go on with the course, or complete the gate at its end.
LEMMA GateGoes ==
  ASSUME Inv, NEW v \in Views, GateRun(v)
  PROVE  Goes \/ Completes
<1>. USE DEF Goes, Completes, Apart, AtItsEnd, Running, RepeaterLeg, Detour, NavStates, Goto
<1>1. CASE state = "GateDriveThrough" /\ ExecuteGateDriveThrough(v)
  BY <1>1 DEF ExecuteGateDriveThrough, WrongWay, Inv, LegsMatchCourse, GateStates
<1>2. CASE state = "GateSpin" /\ ExecuteGateSpin(v)
  BY <1>2 DEF ExecuteGateSpin, GateSpinOver, FoundSecondPost
<1>3. CASE state = "GateSpinWait" /\ ExecuteGateSpinWait(v)
  BY <1>3 DEF ExecuteGateSpinWait, FoundSecondPost
<1>4. CASE state = "GateTurn" /\ ExecuteGateTurn(v)
  BY <1>4 DEF ExecuteGateTurn, PointsToGo, FoundSecondPost
<1>5. CASE state = "GateDrive" /\ ExecuteGateDrive(v)
  BY <1>5 DEF ExecuteGateDrive, FoundSecondPost
<1>6. CASE state = "GateTurnToCentPoint" /\ ExecuteGateTurnToCentPoint(v)
  BY <1>6 DEF ExecuteGateTurnToCentPoint
<1>7. CASE state = "GateDriveToCentPoint" /\ ExecuteGateDriveToCentPoint(v)
  BY <1>7 DEF ExecuteGateDriveToCentPoint
<1>8. CASE state = "GateFace" /\ ExecuteGateFace(v)
  BY <1>8 DEF ExecuteGateFace
<1>9. CASE state = "GateShimmy" /\ ExecuteGateShimmy(v)
  BY <1>9 DEF ExecuteGateShimmy
<1>. QED BY <1>1, <1>2, <1>3, <1>4, <1>5, <1>6, <1>7, <1>8, <1>9 DEF GateRun

\* The search states go on with the course, or complete a search leg at its target.
LEMMA SearchGoes ==
  ASSUME Inv, NEW v \in Views, SearchRun(v)
  PROVE  Goes \/ Completes
<1>. USE DEF Goes, Completes, Apart, AtItsEnd, Running, RepeaterLeg, Detour, NavStates, Goto
<1>1. CASE state = "DriveToTarget" /\ ExecuteDriveToTarget(v)
  <2>1. path # <<>> /\ Head(path).kind \in {"search", "gate"}
    BY <1>1 DEF Inv, LegsMatchCourse, SearchStates
  <2>2. CASE TargetSeen /\ AtTarget(v)
    BY <1>1, <2>1, <2>2 DEF AtTarget, GateLeg, TargetSeen
  <2>3. CASE ~(TargetSeen /\ AtTarget(v))
    BY <1>1, <2>3 DEF ExecuteDriveToTarget
  <2>. QED BY <2>2, <2>3
<1>2. CASE state = "SearchDrive" /\ ExecuteSearchDrive(v) /\ UNCHANGED progress
  BY <1>2 DEF ExecuteSearchDrive, FoundTarget
<1>3. CASE state = "SearchSpin" /\ ExecuteSearchSpin(v) /\ UNCHANGED progress
  BY <1>3 DEF ExecuteSearchSpin, FoundTarget
<1>4. CASE state \in {"SearchSpinWait", "TurnedToTargetWait"} /\ ExecuteRoverWait(v) /\ UNCHANGED progress
  BY <1>4 DEF ExecuteRoverWait, FoundTarget
<1>5. CASE state = "SearchTurn" /\ ExecuteSearchTurn(v) /\ UNCHANGED progress
  BY <1>5 DEF ExecuteSearchTurn, NoneLeft, FoundTarget
<1>6. CASE state = "TurnToTarget" /\ ExecuteTurnToTarget(v) /\ UNCHANGED progress
  BY <1>6 DEF ExecuteTurnToTarget, AnglesSaved
<1>. QED BY <1>1, <1>2, <1>3, <1>4, <1>5, <1>6 DEF SearchRun

\* The other handlers go on with the course, complete a plain leg, finish, add the drop
\* point or reach it.
LEMMA LegsGo ==
  ASSUME Inv, RepeaterUndisturbed, RepeaterAlone, DropIsFirst, obstacle' \in Obstacles,
         "low" \notin Signals => ~timeToDrop', course' = course, NEW v \in Views,
         \/ state = "Done" /\ ExecuteDone(v)
         \/ state \in {"Turn", "RadioRepeaterTurn"} /\ ExecuteTurn(v)
         \/ state \in {"Drive", "RadioRepeaterDrive"} /\ ExecuteDrive(v)
         \/ state = "RepeaterDropWait" /\ ExecuteRepeaterDropWait(v)
         \/ AvoidanceRun(v)
         \/ ChangeSearchAlg(v)
  PROVE  Goes \/ Completes \/ Finishes \/ Rests \/ AddsDropPoint \/ Drops \/ Dies
<1>. USE DEF Apart, AtItsEnd, Running, RepeaterLeg, Detour, NavStates, Goto
<1>1. ASSUME state \in Running, IsAddRepeaterDropPoint, AddRepeaterDropPoint(v)
      PROVE  AddsDropPoint \/ Dies
  <2>1. CASE completed \in 1 .. Len(course) /\ path' = <<[id |-> course[completed].id, kind |-> "drop"]>> \o path
    <3>1. course \in Seq(Waypoints)
      BY CourseType DEF Inv, TypeOK, StatusType
    <3>2. course[completed] \in Waypoints
      BY <2>1, <3>1
    <3>3. course[completed].id \in Nat
      BY <3>2 DEF Waypoints
    <3>4. state' = "RadioRepeaterTurn" /\ timeToDrop' /\ state \notin RepeaterLeg
          /\ UNCHANGED completed
      BY <1>1, <2>1 DEF IsAddRepeaterDropPoint, AddRepeaterDropPoint
    <3>. QED BY <1>1, <2>1, <3>3, <3>4 DEF AddsDropPoint
  <2>2. CASE completed \notin 1 .. Len(course)
    BY <1>1, <2>2 DEF IsAddRepeaterDropPoint, AddRepeaterDropPoint, Dies, progress
  <2>. QED BY <1>1, <2>1, <2>2 DEF AddRepeaterDropPoint
<1>2. CASE state = "Done" /\ ExecuteDone(v)
  BY <1>2 DEF ExecuteDone, Rests
<1>3. CASE state \in {"Turn", "RadioRepeaterTurn"} /\ ExecuteTurn(v)
  BY <1>1, <1>3 DEF ExecuteTurn, Goes, Finishes, DropIsFirst
<1>4. CASE state \in {"Drive", "RadioRepeaterDrive"} /\ ExecuteDrive(v)
  <2>1. CASE IsAddRepeaterDropPoint
    BY <1>1, <1>4, <2>1 DEF ExecuteDrive
  <2>2. CASE ~IsAddRepeaterDropPoint /\ ObstacleDetected /\ obstacle'.blocksWaypoint /\ ObstacleInThreshold
    <3>1. ~LegsAreClear
      BY <2>2 DEF LegsAreClear, ObstacleDetected, ObstacleInThreshold
    <3>2. state = "Drive"
      BY <1>4, <3>1 DEF RepeaterUndisturbed, RepeaterAlone
    <3>3. state' = "TurnAroundObs" /\ UNCHANGED progress
      BY <1>4, <2>2 DEF ExecuteDrive
    <3>. QED BY <3>1, <3>2, <3>3 DEF Goes
  <2>3. CASE ~IsAddRepeaterDropPoint
             /\ ~(ObstacleDetected /\ obstacle'.blocksWaypoint /\ ObstacleInThreshold)
    <3>1. path # <<>> /\ (state = "RadioRepeaterDrive" => Head(path).kind = "drop")
      BY <1>4 DEF Inv, LegsMatchCourse, LegStates, DropIsFirst
    <3>2. Head(path).kind \in {"plain", "search", "gate", "drop"}
      <4>1. Head(path) \in Waypoints
        BY <3>1 DEF Inv, TypeOK, MachineType
      <4>. QED BY <4>1 DEF Waypoints, WaypointKinds
    <3>3. CASE AtWaypoint(v)
      BY <1>4, <3>1, <3>3 DEF AtWaypoint, IsSearched, Goes, Completes, Drops
    <3>4. CASE ~AtWaypoint(v)
      BY <1>4, <2>3, <3>4 DEF ExecuteDrive, Goes
    <3>. QED BY <3>3, <3>4
  <2>. QED BY <2>1, <2>2, <2>3
<1>5. CASE state = "RepeaterDropWait" /\ ExecuteRepeaterDropWait(v)
  BY <1>5 DEF ExecuteRepeaterDropWait, Goes
<1>6. CASE AvoidanceRun(v)
  BY <1>6 DEF AvoidanceRun, ExecuteTurnAroundObs, ReachableTarget,
       ExecuteDriveAroundObs, AroundAgain, BackToLeg, Goes
<1>7. CASE ChangeSearchAlg(v)
  BY <1>7 DEF ChangeSearchAlg, Goes
<1>. QED BY <1>2, <1>3, <1>4, <1>5, <1>6, <1>7

CourseStep == [Progress!CourseNext]_(Progress!courseVars)

\* What the turn of the loop has done before its handler runs.
Before ==
  /\ Inv' /\ UNCHANGED <<course, total>>
  /\ auton' => auton
  /\ "low" \notin Signals => ~timeToDrop' /\ ~lowTimer'

\* A handler that takes a waypoint from the front or puts the drop point there leaves
\* no other drop point, and the count.
LEMMA PathSteps ==
  ASSUME CourseInv, Before, auton', AddsDropPoint \/ Drops \/ Completes
  PROVE  DropIsFirst' /\ LegsAddUp'
<1>. USE DEF RepeaterLeg
<1>1. /\ completed \in Nat /\ path \in Seq(Waypoints) /\ total \in Nat /\ auton
      /\ path' \in Seq(Waypoints)
  BY DEF CourseInv, Inv, TypeOK, MachineType, Before
<1>2. state # "Exit"
  BY DEF AddsDropPoint, Drops, Completes, Running
<1>3. completed + Len(path) = total + DropPoints
  BY <1>1, <1>2 DEF CourseInv, LegsAddUp
<1>4. CASE AddsDropPoint
  <2>1. PICK id \in Nat : path' = <<[id |-> id, kind |-> "drop"]>> \o path
    BY <1>4 DEF AddsDropPoint
  <2>2. state' = "RadioRepeaterTurn" /\ state \notin RepeaterLeg /\ completed' = completed
    BY <1>4 DEF AddsDropPoint
  <2>3. Len(path') = Len(path) + 1 /\ path'[1] = [id |-> id, kind |-> "drop"]
        /\ \A i \in 2 .. Len(path') : path'[i] = path[i - 1]
    BY <1>1, <2>1
  <2>4. \A i \in 1 .. Len(path) : path[i].kind # "drop"
    BY <2>2 DEF CourseInv, DropIsFirst
  <2>5. \A i \in 2 .. Len(path') : path'[i].kind # "drop"
    BY <1>1, <2>3, <2>4
  <2>6. path' # <<>> /\ Head(path') = path'[1]
    BY <1>1, <2>3
  <2>7. DropIsFirst'
    BY <1>1, <2>2, <2>3, <2>5, <2>6 DEF DropIsFirst
  <2>8. LegsAddUp'
    <3>1. DropPoints = 0 /\ DropPoints' = 1 /\ total' = total
      BY <2>2 DEF DropPoints, Before
    <3>. QED BY <1>1, <1>3, <2>2, <2>3, <3>1 DEF LegsAddUp
  <2>. QED BY <2>7, <2>8
<1>5. CASE Drops \/ Completes
  <2>1. path # <<>> /\ path' = Tail(path) /\ state' \notin RepeaterLeg /\ state' # "Exit"
    BY <1>5 DEF Drops, PopDropPoint, Completes, PopWaypoint, CourseInv, DropIsFirst, Running
  <2>2. Len(path') = Len(path) - 1 /\ \A i \in 1 .. Len(path') : path'[i] = path[i + 1]
    BY <1>1, <2>1
  <2>3. \A i \in 2 .. Len(path) : path[i].kind # "drop"
    BY DEF CourseInv, DropIsFirst
  <2>4. DropIsFirst'
    BY <1>1, <2>1, <2>2, <2>3 DEF DropIsFirst
  <2>5. CASE Drops
    <3>1. DropPoints = 1 /\ DropPoints' = 0 /\ total' = total /\ completed' = completed
      BY <2>1, <2>5 DEF Drops, PopDropPoint, DropPoints, Before
    <3>2. LegsAddUp'
      BY <1>1, <1>3, <2>2, <3>1 DEF LegsAddUp
    <3>. QED BY <2>4, <3>2
  <2>6. CASE Completes
    <3>1. DropPoints = 0 /\ DropPoints' = 0 /\ total' = total /\ completed' = completed + 1
      BY <2>6 DEF Completes, PopWaypoint, DropPoints, Before
    <3>2. Len(path) \in Nat /\ Len(path') = Len(path) - 1
      BY <1>1, <2>2
    <3>3. completed' + Len(path') = total' + DropPoints'
      BY <1>1, <1>3, <3>1, <3>2
    <3>4. LegsAddUp'
      BY <3>3 DEF LegsAddUp
    <3>. QED BY <2>4, <3>4
  <2>. QED BY <1>5, <2>5, <2>6
<1>. QED BY <1>4, <1>5

\* A handler's step is a step of the course, or none.
LEMMA ExecuteSteps ==
  ASSUME CourseInv, RepeaterUndisturbed, Before, NEW v \in Views, Execute(v)
  PROVE  RepeaterAlone' /\ DropIsFirst' /\ LegsAddUp' /\ CourseStep
<1>. USE DEF CourseStep, Progress!courseVars, CourseMode
<1>0. "low" \notin Signals => ~timeToDrop' /\ ~lowTimer'
  BY DEF Before
<1>1. CASE ~auton'
  <2>1. state' = "Off" /\ path' = <<>> /\ UNCHANGED completed
    BY <1>1 DEF Execute, ExecuteOff
  <2>2. RepeaterAlone' /\ DropIsFirst' /\ LegsAddUp'
    BY <1>0, <1>1, <2>1 DEF RepeaterAlone, DropIsFirst, LegsAddUp, RepeaterLeg, Detour
  <2>3. Progress!GiveUp \/ UNCHANGED <<CourseMode, completed, total>>
    BY <2>1 DEF Progress!GiveUp, Before
  <2>. QED BY <2>2, <2>3 DEF Progress!CourseNext
<1>2. CASE auton'
  <2>0. /\ completed \in Nat /\ path \in Seq(Waypoints) /\ total \in Nat /\ auton
        /\ obstacle' \in Obstacles
    BY <1>2 DEF CourseInv, Inv, TypeOK, MachineType, Before, StatusType
  <2>1. Goes \/ Completes \/ Finishes \/ Rests \/ AddsDropPoint \/ Drops \/ Dies
    BY <1>0, <1>2, <2>0, GateGoes, SearchGoes, LegsGo DEF Execute, CourseInv, Before
  <2>2. completed + Len(path) = total + DropPoints
    <3>1. state # "Exit"
      BY <2>1 DEF Goes, Completes, Finishes, Rests, AddsDropPoint, Drops, Dies, Running
    <3>. QED BY <2>0, <3>1 DEF CourseInv, LegsAddUp
  <2>3. CASE Goes
    <3>1. RepeaterAlone'
      BY <1>0, <2>3 DEF CourseInv, RepeaterAlone, Goes, Apart
    <3>2. DropIsFirst' /\ LegsAddUp'
      BY <2>2, <2>3 DEF CourseInv, DropIsFirst, LegsAddUp, DropPoints, Goes, Apart, progress, Before
    <3>3. UNCHANGED <<CourseMode, completed, total>>
      BY <2>3 DEF Goes, Running, NavStates, progress, Before
    <3>. QED BY <3>1, <3>2, <3>3
  <2>4. CASE Completes
    <3>1. RepeaterAlone'
      BY <1>0, <2>4 DEF CourseInv, RepeaterAlone, Completes, Apart
    <3>2. Len(path) > 0 /\ completed' = completed + 1 /\ DropPoints = 0
      BY <2>0, <2>4 DEF Completes, PopWaypoint, DropPoints
    <3>3. Progress!CompleteOne
      BY <2>0, <2>2, <2>4, <3>2 DEF Progress!CompleteOne, Completes, Running, NavStates, Before
    <3>. QED BY <1>2, <2>4, <3>1, <3>3, PathSteps DEF Progress!CourseNext
  <2>5. CASE Finishes
    <3>1. RepeaterAlone' /\ DropIsFirst' /\ LegsAddUp'
      BY <1>0, <2>2, <2>5 DEF RepeaterAlone, DropIsFirst, LegsAddUp, DropPoints, Finishes, progress,
         RepeaterLeg, Detour, Before
    <3>2. Progress!Finish
      BY <2>0, <2>2, <2>5 DEF Progress!Finish, Finishes, DropPoints, Running, NavStates, progress,
         Before
    <3>. QED BY <3>1, <3>2 DEF Progress!CourseNext
  <2>6. CASE Rests
    BY <1>0, <2>2, <2>6 DEF RepeaterAlone, CourseInv, DropIsFirst, LegsAddUp, DropPoints, Rests,
       progress, RepeaterLeg, Detour, Before
  <2>7. CASE AddsDropPoint \/ Drops
    <3>1. RepeaterAlone'
      BY <1>0, <2>7 DEF AddsDropPoint, Drops, RepeaterAlone, CourseInv, RepeaterLeg, Detour
    <3>2. UNCHANGED <<CourseMode, completed, total>>
      BY <2>7 DEF AddsDropPoint, Drops, PopDropPoint, Running, NavStates, Before
    <3>. QED BY <1>2, <2>7, <3>1, <3>2, PathSteps
  <2>8. CASE Dies
    <3>1. RepeaterAlone' /\ DropIsFirst' /\ LegsAddUp'
      BY <1>0, <2>8 DEF RepeaterAlone, CourseInv, DropIsFirst, LegsAddUp, Dies, progress,
         RepeaterLeg, Detour
    <3>2. Progress!GiveUp
      BY <2>8 DEF Progress!GiveUp, Dies, Running, NavStates, progress, Before
    <3>. QED BY <3>1, <3>2 DEF Progress!CourseNext
  <2>. QED BY <2>1, <2>3, <2>4, <2>5, <2>6, <2>7, <2>8
<1>. QED BY <1>1, <1>2

\* A course that is started has its waypoints, no drop point among them, before it.
LEMMA SwitchOnStarts ==
  ASSUME CourseInv, Inv', NEW new \in Inboxes, SwitchOn(new),
         "low" \notin Signals => ~timeToDrop' /\ ~lowTimer'
  PROVE  RepeaterAlone' /\ DropIsFirst' /\ LegsAddUp' /\ CourseStep
<1>1. /\ new.course \in Courses \cup {<<>>}
      /\ new.course \in Seq([id : Nat, kind : WaypointKinds])
      /\ new.course \in Seq(Waypoints)
  BY CourseType DEF Inboxes
<1>2. completed' = 0 /\ total' = Len(new.course) /\ path' = new.course
  BY DEF SwitchOn, CourseStarts, CopyStatus
<1>3. state' = IF new.course = <<>> THEN "Done" ELSE "Turn"
  BY DEF SwitchOn, CourseStarts, Goto
<1>4. RepeaterAlone'
  BY <1>3 DEF RepeaterAlone, RepeaterLeg, Detour
<1>5. DropIsFirst'
  <2>1. \A i \in 1 .. Len(path') : path'[i].kind # "drop"
    <3>. DEFINE Points == [id : Nat, kind : WaypointKinds]
    <3>1. \A i \in 1 .. Len(new.course) : new.course[i] \in Points
      <4>1. new.course \in Seq(Points)
        BY <1>1
      <4>. HIDE DEF Points
      <4>. QED BY <4>1
    <3>2. "drop" \notin WaypointKinds
      BY DEF WaypointKinds
    <3>. QED BY <1>2, <3>1, <3>2
  <2>. QED BY <1>3, <2>1 DEF DropIsFirst, RepeaterLeg
<1>6. LegsAddUp'
  <2>1. DropPoints' = 0 /\ Len(path') \in Nat
    BY <1>1, <1>2, <1>3 DEF DropPoints, RepeaterLeg
  <2>. QED BY <1>2, <2>1 DEF LegsAddUp
<1>7. Progress!Start
  <2>1. CourseMode = "idle"
    BY DEF SwitchOn, CourseMode, CourseInv, Inv, OffIsStopped
  <2>. QED BY <1>1, <1>2, <1>3, <2>1 DEF Progress!Start, CourseMode
<1>. QED BY <1>4, <1>5, <1>6, <1>7 DEF CourseStep, Progress!CourseNext

\* Every turn of the loop is a step of the course, or none, and keeps CourseInv.
LEMMA CourseKeeps ==
  ASSUME RepeaterUndisturbed
  PROVE  CourseInv /\ [Next]_vars => CourseInv' /\ CourseStep
<1>. SUFFICES ASSUME CourseInv, [Next]_vars PROVE CourseInv' /\ CourseStep
  OBVIOUS
<1>1. Inv'
  BY NextKeeps DEF CourseInv
<1>2. ASSUME NEW new \in Inboxes, Run(new)
      PROVE  RepeaterAlone' /\ DropIsFirst' /\ LegsAddUp' /\ CourseStep
  <2>1. "low" \notin Signals => ~timeToDrop' /\ ~lowTimer'
    <3>. SUFFICES ASSUME "low" \notin Signals PROVE ~timeToDrop' /\ ~lowTimer'
      OBVIOUS
    <3>1. new.signal # "low"
      BY DEF Inboxes
    <3>2. UpdateRepeater(new.signal) \/ UNCHANGED repeaterTimer
      BY <1>2 DEF Run, RunOnSameData, RunOnNews, SwitchOff, SwitchOn, RunOnNothing,
           KeepStatus, CopyReadings, CopyStatus
    <3>3. ~timeToDrop /\ ~lowTimer
      BY DEF CourseInv, RepeaterAlone
    <3>4. ASSUME UpdateRepeater(new.signal) PROVE ~timeToDrop' /\ ~lowTimer'
      <4>1. ~(lowTimer \/ (~timeToDrop /\ new.signal = "low"))
        BY <3>1, <3>3
      <4>2. UNCHANGED timeToDrop /\ lowTimer' = (lowTimer \/ (~timeToDrop /\ new.signal = "low"))
        BY <3>3, <3>4 DEF UpdateRepeater
      <4>. QED BY <3>3, <4>1, <4>2, Zenon
    <3>5. ASSUME UNCHANGED repeaterTimer PROVE ~timeToDrop' /\ ~lowTimer'
      BY <3>3, <3>5 DEF repeaterTimer
    <3>. QED BY <3>2, <3>4, <3>5
  <2>2. view \in Views
    BY DEF CourseInv, Inv, TypeOK, MachineType
  <2>3. ASSUME UNCHANGED <<course, total>>, auton' => auton, NEW v \in Views, Execute(v)
        PROVE  RepeaterAlone' /\ DropIsFirst' /\ LegsAddUp' /\ CourseStep
    BY <1>1, <2>1, <2>3, ExecuteSteps DEF Before
  <2>4. CASE RunOnSameData(new)
    BY <2>2, <2>3, <2>4 DEF RunOnSameData, KeepStatus, status
  <2>5. CASE RunOnNews(new)
    BY <2>3, <2>5 DEF RunOnNews, CopyReadings, CopiedViews
  <2>6. CASE SwitchOff(new)
    BY <2>2, <2>3, <2>6 DEF SwitchOff
  <2>7. CASE SwitchOn(new)
    BY <1>1, <2>1, <2>7, SwitchOnStarts
  <2>8. CASE RunOnNothing(new)
    <3>1. CASE state \in WaitStates
      BY <2>2, <2>3, <2>8, <3>1 DEF RunOnNothing, KeepStatus, status
    <3>2. CASE state \notin WaitStates
      BY <2>1, <2>8, <3>2 DEF RunOnNothing, KeepStatus, status, progress, CourseInv,
           RepeaterAlone, DropIsFirst, LegsAddUp, DropPoints, CourseStep, CourseMode,
           Progress!courseVars
    <3>. QED BY <3>1, <3>2
  <2>. QED BY <1>2, <2>4, <2>5, <2>6, <2>7, <2>8 DEF Run
<1>3. CASE HandleStatus
  <2>1. PICK new \in Inboxes : Run(new)
    BY <1>3, ReceivedType DEF HandleStatus, CourseInv, Inv, TypeOK, StatusType
  <2>. QED BY <1>1, <1>2, <2>1 DEF CourseInv
<1>4. CASE HandleRepeaterDropComplete
  BY <1>1, <1>2, <1>4 DEF HandleRepeaterDropComplete, CourseInv, Inv, TypeOK, StatusType
<1>5. CASE UNCHANGED vars
  BY <1>1, <1>5 DEF vars, status, repeaterTimer, CourseInv, RepeaterAlone, DropIsFirst,
       LegsAddUp, DropPoints, CourseStep, CourseMode, Progress!courseVars
<1>. QED BY <1>3, <1>4, <1>5 DEF Next

\* The first state is that of an idle course.
LEMMA CourseBegins == Init => CourseInv /\ Progress!CourseInit
BY InitInv DEF Init, CourseInv, RepeaterAlone, DropIsFirst, LegsAddUp, RepeaterLeg, Detour,
   Progress!CourseInit, CourseMode

\* The course invariant holds on every leg that no obstacle can interrupt.
THEOREM CourseInvariant ==
  ASSUME RepeaterUndisturbed
  PROVE  Spec => []CourseInv
BY CourseBegins, CourseKeeps, PTL DEF Spec

\* The navigation implements NavCourse: one waypoint after the other is completed, Done is
\* reached exactly with the last one, and a radio repeater dropped on the way changes
\* nothing of it unless an obstacle gets in the way of a leg.
THEOREM CoursesComplete ==
  ASSUME RepeaterUndisturbed
  PROVE  Spec => CompletesCourses
BY CourseBegins, CourseKeeps, PTL DEF Spec, CompletesCourses, Progress!CourseSpec,
     CourseStep

\* Without a low radio signal the waypoints completed and those in the path make
\* up the course.
THEOREM WaypointsAddUp ==
  ASSUME "low" \notin Signals
  PROVE  Spec => []ProgressAddsUp
<1>1. RepeaterUndisturbed
  BY DEF RepeaterUndisturbed
<1>2. CourseInv => ProgressAddsUp
  BY DEF CourseInv, LegsAddUp, DropPoints, RepeaterAlone, ProgressAddsUp, Inv, TypeOK, MachineType
<1>. QED BY <1>1, <1>2, CourseInvariant, PTL

\* With one, all of the path but the drop point does, on every leg that no obstacle is
\* in the way of.
THEOREM LegsAddUpAlways ==
  ASSUME RepeaterUndisturbed
  PROVE  Spec => []LegsAddUp
BY CourseInvariant, PTL DEF CourseInv

\* The rover never has two drop points to go to: "already begun to drop", asked of the
\* state alone, is enough as long as no detour leaves the repeater's states.
THEOREM DropPointIsOne ==
  ASSUME RepeaterUndisturbed
  PROVE  Spec => []OneDropPoint
<1>1. CourseInv => OneDropPoint
  BY DEF CourseInv, DropIsFirst, OneDropPoint
<1>. QED BY <1>1, CourseInvariant, PTL

\* The course that is driven is the one that was counted when it started.
CourseCounted == auton => total = Len(course)

\* A course is counted as it is taken over, and neither changes before the next one.
LEMMA CountKept ==
  ASSUME CourseCounted, [Next]_vars PROVE CourseCounted'
<1>1. ASSUME NEW new, Run(new) PROVE CourseCounted'
  <2>1. CASE SwitchOn(new)
    BY <2>1 DEF SwitchOn, CourseStarts, CopyStatus, CourseCounted
  <2>2. CASE ~SwitchOn(new)
    BY <1>1, <2>2 DEF Run, RunOnSameData, RunOnNews, SwitchOff, RunOnNothing, KeepStatus,
       CopyReadings, status, CourseCounted
  <2>. QED BY <2>1, <2>2
<1>2. CASE UNCHANGED vars
  BY <1>2 DEF vars, status, CourseCounted
<1>. QED BY <1>1, <1>2 DEF Next, HandleStatus, HandleRepeaterDropComplete

\* addRepeaterDropPoint indexes the course with completed - 1, unsigned.
DiesAtFirstLegOnly == state' = "Exit" => completed = 0

\* The index is out of the course only before the first waypoint was completed, however
\* late the signal is lost: the count never runs past the course.
THEOREM IndexPastCourseNever ==
  ASSUME RepeaterUndisturbed
  PROVE  Spec => [][DiesAtFirstLegOnly]_vars
<1>1. Init => CourseCounted
  BY DEF Init, CourseCounted
<1>2. CourseInv /\ CourseCounted /\ [Next]_vars => [DiesAtFirstLegOnly]_vars
  <2>. SUFFICES ASSUME CourseInv, CourseCounted, Next, state' = "Exit" PROVE completed = 0
    BY DEF DiesAtFirstLegOnly
  <2>1. Inv' /\ Inv /\ state # "Exit" /\ view \in Views
    BY NextKeeps DEF CourseInv, Next, Inv, TypeOK, MachineType
  <2>2. PICK new : Run(new)
    BY DEF Next, HandleStatus, HandleRepeaterDropComplete
  <2>3. /\ \E v \in Views : Execute(v)
        /\ auton' => auton
        /\ UNCHANGED course
    BY <2>1, <2>2 DEF Run, RunOnSameData, RunOnNews, SwitchOff, SwitchOn, RunOnNothing,
       KeepStatus, CopyReadings, CopiedViews, status, Goto
  <2>4. auton' /\ auton
    BY <2>3 DEF Execute, ExecuteOff
  <2>5. PICK v \in Views : Execute(v)
    BY <2>3
  <2>6. "low" \notin Signals => ~timeToDrop'
    BY CourseKeeps DEF CourseInv, RepeaterAlone
  <2>7. Dies
    <3>1. Goes \/ Completes \/ Finishes \/ Rests \/ AddsDropPoint \/ Drops \/ Dies
      BY <2>1, <2>3, <2>4, <2>5, <2>6, GateGoes, SearchGoes, LegsGo
         DEF Execute, CourseInv, Inv, TypeOK, StatusType
    <3>. QED BY <3>1 DEF Goes, Completes, Finishes, Rests, AddsDropPoint, Drops, Running
  <2>8. completed + Len(path) = Len(course) /\ completed \in Nat /\ Len(path) \in Nat
    <3>1. path \in Seq(Waypoints) /\ completed \in Nat /\ total \in Nat
      BY <2>1 DEF Inv, TypeOK, MachineType
    <3>2. DropPoints = 0
      BY <2>7 DEF Dies, DropPoints
    <3>. QED BY <2>1, <2>4, <3>1, <3>2 DEF CourseInv, LegsAddUp, CourseCounted
  <2>. QED BY <2>7, <2>8 DEF Dies
<1>. QED BY <1>1, <1>2, CountKept, CourseInvariant, PTL DEF Spec

-----------------------------------------------------------------------------
(* Where waypoints are completed, whatever the radio signal *)

\* Of the handlers outside the search and the gate only executeDrive completes a
\* waypoint, on arrival at a plain one.
LEMMA LegsCompleteAtEnd ==
  ASSUME Inv, NEW v \in Views, completed' # completed,
         \/ state = "Done" /\ ExecuteDone(v)
         \/ state \in {"Turn", "RadioRepeaterTurn"} /\ ExecuteTurn(v)
         \/ state \in {"Drive", "RadioRepeaterDrive"} /\ ExecuteDrive(v)
         \/ state = "RepeaterDropWait" /\ ExecuteRepeaterDropWait(v)
         \/ AvoidanceRun(v)
         \/ ChangeSearchAlg(v)
  PROVE  AtItsEnd
<1>1. state = "Drive" /\ Head(path).kind \notin {"search", "gate"}
  BY DEF ExecuteDone, ExecuteTurn, ExecuteDrive, AddRepeaterDropPoint, AtWaypoint,
       IsSearched, PopDropPoint, ExecuteRepeaterDropWait,
    AvoidanceRun, ChangeSearchAlg, progress
<1>. QED BY <1>1 DEF AtItsEnd

\* Whatever the state, the handler that completes a waypoint does so at its end.
LEMMA ExecuteCompletesAtEnd ==
  ASSUME Inv, NEW v \in Views, Execute(v), completed' # completed
  PROVE  AtItsEnd
<1>1. CASE ~auton'
  BY <1>1 DEF Execute, ExecuteOff
<1>2. CASE auton' /\ (SearchRun(v) \/ GateRun(v))
  BY <1>2, SearchGoes, GateGoes DEF Goes, Completes, progress
<1>3. CASE auton' /\ ~SearchRun(v) /\ ~GateRun(v)
  BY <1>3, LegsCompleteAtEnd DEF Execute
<1>. QED BY <1>1, <1>2, <1>3

\* A waypoint is completed where its kind asks for it.
THEOREM CompletedAtEnd == Spec => CompletedAtItsEnd
<1>1. Inv /\ [Next]_vars => [completed' = completed + 1 => AtItsEnd]_vars
  <2>. SUFFICES ASSUME Inv, Next, completed' = completed + 1 PROVE AtItsEnd
    OBVIOUS
  <2>1. completed \in Nat /\ view \in Views /\ inbox \in Inboxes
    BY DEF Inv, TypeOK, StatusType, MachineType
  <2>2. completed' # completed /\ completed' # 0
    BY <2>1
  <2>3. PICK new : Run(new)
    BY DEF Next, HandleStatus, HandleRepeaterDropComplete
  <2>4. PICK v \in Views : Execute(v)
    BY <2>1, <2>2, <2>3 DEF Run, RunOnSameData, RunOnNews, SwitchOff, SwitchOn,
         CourseStarts, RunOnNothing, CopiedViews, progress
  <2>. QED BY <2>2, <2>4, ExecuteCompletesAtEnd
<1>. QED BY <1>1, Invariant, PTL DEF Spec, CompletedAtItsEnd

-----------------------------------------------------------------------------
(* The end of a freeze *)

\* What is the same in two runs without an update in between.
Frozen ==
  /\ stateChanged
  /\ UNCHANGED <<status, repeaterTimer>>
  /\ dropComplete => dropComplete'

\* The rank falls with the legs ahead, or with the height on the same leg.
Falls ==
  \/ LegsAhead' < LegsAhead
  \/ LegsAhead' <= LegsAhead /\ Height' < Height

\* Within a leg the rank is at most 27.
LEMMA HeightBound == Height \in 0..27 /\ Height' \in 0..27
<1>1. ThroughRank \in 0..9 /\ ThroughRank' \in 0..9
  BY DEF ThroughRank
<1>2. PostRank \in 0..12 /\ PostRank' \in 0..12
  BY DEF PostRank
<1>3. SeekRank \in 0..16 /\ SeekRank' \in 0..16
  BY DEF SeekRank
<1>4. SearchRank \in 0..18 /\ SearchRank' \in 0..18
  BY <1>3 DEF SearchRank, ReachRank
<1>5. LegRank \in 0..27 /\ LegRank' \in 0..27
  BY DEF LegRank
<1>. QED BY <1>1, <1>2, <1>4, <1>5 DEF Height, GateRank

\* A leg less ahead, or a lower height on the same leg, is a lower rank.
LEMMA RankFalls ==
  ASSUME path \in Seq(Waypoints), path' \in Seq(Waypoints), Falls
  PROVE  Rank' < Rank
<1>1. Height \in 0..27 /\ Height' \in 0..27
  BY HeightBound
<1>2. LegsAhead \in Nat /\ LegsAhead' \in Nat
  BY DEF LegsAhead
<1>3. \A m, n \in Nat, h, k \in 0..27 :
        m < n \/ (m <= n /\ h < k) => 30 * m + h < 30 * n + k
  OBVIOUS
<1>. QED BY <1>1, <1>2, <1>3 DEF Falls, Rank

\* On the same path there are no more legs ahead, unless the drop point becomes due.
LEMMA SameLegs ==
  ASSUME path \in Seq(Waypoints), path' = path, DropDue' => DropDue
  PROVE  LegsAhead' <= LegsAhead
BY DEF LegsAhead

\* A waypoint that is done is a leg less.
LEMMA LegDone ==
  ASSUME path \in Seq(Waypoints), path # <<>>, path' = Tail(path), DropDue' => DropDue
  PROVE  LegsAhead' < LegsAhead
BY DEF LegsAhead

\* A step of the gate search and of the way through the gate, but for the shimmy.
LEMMA GateFalls ==
  ASSUME Inv, Frozen, stateChanged', GateRun(view),
         ~(state = "GateShimmy" /\ view.gate = "outOfView")
  PROVE  Falls
<1>. USE DEF Goto
<1>0. /\ path \in Seq(Waypoints) /\ path # <<>>
      /\ gatePoints \in Nat /\ gateSpin \in 0..GateSpinStops
      /\ view \in Views /\ state \in GateStates
  BY DEF Inv, TypeOK, MachineType, GateType, LegsMatchCourse, GateStates, GateRun
<1>1. /\ obstacle' = obstacle /\ target' = target /\ target2' = target2
      /\ timeToDrop' = timeToDrop
  BY DEF Frozen, status, repeaterTimer
<1>2. ASSUME state' \in GateStates, path' = path, GateRank' < GateRank PROVE Falls
  <2>1. DropDue' => DropDue
    BY <1>0, <1>1 DEF Frozen, DropDue, GateStates
  <2>2. Height' < Height
    BY <1>0, <1>2 DEF Height
  <2>. QED BY <1>0, <1>2, <2>1, <2>2, SameLegs DEF Falls
<1>. DEFINE Looking == {"GateSpin", "GateSpinWait", "GateTurn", "GateDrive"}
<1>3. CASE FoundSecondPost(view) /\ state \in Looking
  <2>1. state' = "GateTurnToCentPoint" /\ path' = path
    BY <1>3 DEF FoundSecondPost, progress
  <2>2. GateRank = 10
    BY <1>1, <1>3 DEF FoundSecondPost, SecondPostSeen, TargetSeen, GateRank
  <2>3. GateRank' \in 0..9
    BY <2>1 DEF GateRank, ThroughRank
  <2>. QED BY <1>2, <2>1, <2>2, <2>3 DEF GateStates
<1>4. ASSUME ~SecondPostSeen, state \in Looking, state' \in Looking,
             UNCHANGED <<progress, post1>>, PostRank' < PostRank
      PROVE  Falls
  <2>1. GateRank = PostRank /\ GateRank' = PostRank'
    BY <1>1, <1>4 DEF GateRank, SecondPostSeen, TargetSeen
  <2>. QED BY <1>2, <1>4, <2>1 DEF GateStates, progress
<1>5. ASSUME state \in GateStates \ Looking, state' \in GateStates \ Looking,
             UNCHANGED progress, ThroughRank' < ThroughRank
      PROVE  Falls
  <2>1. GateRank = ThroughRank /\ GateRank' = ThroughRank'
    BY <1>5 DEF GateRank
  <2>. QED BY <1>2, <1>5, <2>1 DEF progress
<1>6. ASSUME path' = Tail(path), state' = "Turn" PROVE Falls
  <2>1. DropDue' => DropDue
    BY <1>0, <1>1, <1>6 DEF Frozen, DropDue, GateStates
  <2>. QED BY <1>0, <1>6, <2>1, LegDone DEF Falls
<1>. USE DEF Facing, Turned
<1>7. CASE state = "GateSpin" /\ ExecuteGateSpin(view) /\ ~FoundSecondPost(view)
  <2>1. ~SecondPostSeen /\ UNCHANGED <<progress, post1>>
    BY <1>7 DEF ExecuteGateSpin
  <2>2. CASE state' = "GateSpinWait"
    <3>1. GateSpinDone(view) /\ ~GateSpinOver /\ gateSpin' = gateSpin + 1 /\ NextStop(view)
      BY <1>7, <2>2 DEF ExecuteGateSpin
    <3>2. view'.heading = "away"
      BY <3>1 DEF NextStop, NoPoint
    <3>3. PostRank = 3
      BY <1>0, <1>7, <3>1, GateConstants DEF PostRank, RoundDone, GateSpinOver
    <3>4. PostRank' = 2
      BY <1>0, <2>2, <3>1, <3>2 DEF PostRank, RoundDone, GateSpinDone
    <3>. QED BY <1>4, <1>7, <2>1, <2>2, <3>3, <3>4
  <2>3. CASE state' = "GateTurn"
    <3>1. GateSpinDone(view) /\ GateSpinOver /\ gateSpin' = 0
      BY <1>7, <2>3 DEF ExecuteGateSpin
    <3>2. Facing
      BY <1>0, <3>1, GateConstants DEF GateSpinDone, GateSpinOver
    <3>3. PostRank = 9
      BY <1>7, <3>1, <3>2 DEF PostRank, RoundDone, GateSpinOver
    <3>4. PostRank' \in 0..6
      BY <2>3, <3>1, GateConstants DEF PostRank, RoundDone
    <3>. QED BY <1>4, <1>7, <2>1, <2>3, <3>3, <3>4
  <2>. QED BY <1>7, <2>2, <2>3 DEF ExecuteGateSpin
<1>8. CASE state = "GateSpinWait" /\ ExecuteGateSpinWait(view) /\ ~FoundSecondPost(view)
  <2>1. /\ ~SecondPostSeen /\ UNCHANGED <<progress, gateSpin, post1>>
        /\ state' = "GateSpin" /\ SameBearing(view)
    BY <1>8 DEF ExecuteGateSpinWait
  <2>2. view'.heading = view.heading
    BY <1>0, <2>1 DEF SameBearing, Views
  <2>3. GateSpinDone(view') <=> GateSpinDone(view)
    BY <2>2 DEF GateSpinDone
  <2>4. PostRank' < PostRank
    BY <1>8, <2>1, <2>2 DEF PostRank, RoundDone, GateSpinDone
  <2>. QED BY <1>4, <1>8, <2>1, <2>4
<1>9. CASE state = "GateTurn" /\ ExecuteGateTurn(view) /\ ~FoundSecondPost(view)
  <2>1. /\ ~SecondPostSeen /\ UNCHANGED <<progress, gateSpin, post1>>
        /\ state' = "GateDrive" /\ (gatePoints = 0 \/ Facing)
    BY <1>9 DEF ExecuteGateTurn
  <2>2. PostRank' < PostRank
    BY <1>9, <2>1 DEF PostRank, RoundDone
  <2>. QED BY <1>4, <1>9, <2>1, <2>2
<1>10. CASE state = "GateDrive" /\ ExecuteGateDrive(view) /\ ~FoundSecondPost(view)
  <2>1. ~SecondPostSeen /\ UNCHANGED <<progress, gateSpin, post1>>
    BY <1>10 DEF ExecuteGateDrive
  <2>2. CASE state' = "GateSpin"
    BY <1>4, <1>10, <2>1, <2>2 DEF PostRank, RoundDone
  <2>3. CASE state' = "GateTurn"
    <3>1. view' = view /\ view.heading = "away" /\ gatePoints' = gatePoints
      BY <1>10, <2>3 DEF ExecuteGateDrive, DriveStatus, SamePoint
    <3>2. gatePoints > 0
      BY <1>10 DEF Inv, PointsLeft
    <3>3. PostRank' < PostRank
      BY <1>10, <2>1, <2>3, <3>1, <3>2 DEF PostRank, RoundDone
    <3>. QED BY <1>4, <1>10, <2>1, <2>3, <3>3
  <2>. QED BY <1>10, <2>2, <2>3 DEF ExecuteGateDrive
<1>11. CASE state = "GateTurnToCentPoint" /\ ExecuteGateTurnToCentPoint(view)
  <2>1. state' = "GateDriveToCentPoint" /\ Facing /\ UNCHANGED <<progress, correctDir>>
    BY <1>11 DEF ExecuteGateTurnToCentPoint, gateVars
  <2>. QED BY <1>5, <1>11, <2>1 DEF ThroughRank, GateStates
<1>12. CASE state = "GateDriveToCentPoint" /\ ExecuteGateDriveToCentPoint(view)
  <2>1. UNCHANGED <<progress, correctDir>>
    BY <1>12 DEF ExecuteGateDriveToCentPoint, gateVars
  <2>2. \/ state' = "GateFace"
        \/ state' = "GateTurnToCentPoint" /\ ~Facing'
    BY <1>12 DEF ExecuteGateDriveToCentPoint, DriveStatus, SamePoint
  <2>. QED BY <1>5, <1>12, <2>1, <2>2 DEF ThroughRank, GateStates
<1>13. CASE state = "GateFace" /\ ExecuteGateFace(view)
  <2>1. state' = "GateShimmy" /\ UNCHANGED <<progress, correctDir>>
    BY <1>13 DEF ExecuteGateFace, gateVars
  <2>. QED BY <1>5, <1>13, <2>1 DEF ThroughRank, GateStates
<1>14. CASE state = "GateShimmy" /\ ExecuteGateShimmy(view)
  <2>1. state' = "GateDriveThrough" /\ UNCHANGED <<progress, correctDir>>
    BY <1>14 DEF ExecuteGateShimmy, gateVars
  <2>. QED BY <1>5, <1>14, <2>1 DEF ThroughRank, GateStates
<1>15. CASE state = "GateDriveThrough" /\ ExecuteGateDriveThrough(view)
  <2>1. CASE state' = "Turn"
    BY <1>6, <1>15, <2>1 DEF ExecuteGateDriveThrough, PopWaypoint
  <2>2. CASE state' = "GateFace"
    BY <1>5, <1>15, <2>2 DEF ExecuteGateDriveThrough, WrongWay, ThroughRank, GateStates
  <2>. QED BY <1>15, <2>1, <2>2 DEF ExecuteGateDriveThrough
<1>. QED BY <1>3, <1>7, <1>8, <1>9, <1>10, <1>11, <1>12, <1>13, <1>14, <1>15 DEF GateRun

\* A step of the search for the first target, its detours included.
LEMMA SearchFalls ==
  ASSUME Inv, Frozen, stateChanged',
         \/ SearchRun(view)
         \/ ChangeSearchAlg(view)
         \/ AvoidanceRun(view) /\ state \in SearchStates /\ UNCHANGED <<gateVars, searchVars>>
  PROVE  Falls
<1>. DEFINE Around == {"SearchTurnAroundObs", "SearchDriveAroundObs"}
<1>. USE DEF Goto
<1>0. /\ path \in Seq(Waypoints) /\ path # <<>>
      /\ searchPoints \in Nat /\ searchSpin \in 0..SpinStops
      /\ view \in Views /\ state \in SearchStates
  BY DEF Inv, TypeOK, MachineType, SearchType, LegsMatchCourse, SearchStates, SearchRun,
     ChangeSearchAlg
<1>1. /\ obstacle' = obstacle /\ target' = target /\ target2' = target2
      /\ timeToDrop' = timeToDrop
  BY DEF Frozen, status, repeaterTimer
<1>2. ASSUME state' \notin {"TurnAroundObs", "Exit"} PROVE DropDue' => DropDue
  BY <1>0, <1>1, <1>2 DEF Frozen, DropDue, SearchStates
<1>3. ASSUME state' \in SearchStates, UNCHANGED progress, SearchRank' < SearchRank
      PROVE  Falls
  <2>1. Height' < Height
    BY <1>0, <1>3 DEF Height, SearchStates, GateStates
  <2>2. DropDue' => DropDue
    BY <1>2, <1>3 DEF SearchStates
  <2>. QED BY <1>0, <1>3, <2>1, <2>2, SameLegs DEF Falls, progress
<1>4. ASSUME TargetSeen, state \notin Around, state' \in SearchStates \ Around,
             UNCHANGED progress, ReachRank' < ReachRank
      PROVE  Falls
  <2>1. SearchRank = ReachRank /\ SearchRank' = ReachRank'
    BY <1>1, <1>4 DEF SearchRank, TargetSeen
  <2>. QED BY <1>3, <1>4, <2>1
<1>5. ASSUME ~TargetSeen, state \notin Around, state' \in SearchStates \ Around,
             UNCHANGED progress, SeekRank' < SeekRank
      PROVE  Falls
  <2>1. SearchRank = SeekRank /\ SearchRank' = SeekRank'
    BY <1>1, <1>5 DEF SearchRank, TargetSeen
  <2>. QED BY <1>3, <1>5, <2>1
<1>6. ASSUME FoundTarget(view), UNCHANGED progress,
             \/ state \in {"SearchSpin", "SearchSpinWait", "TurnedToTargetWait", "SearchDrive"}
             \/ state = "SearchTurn" /\ ~NoneLeft
      PROVE  Falls
  <2>1. state' = "TurnToTarget" /\ TargetSeen
    BY <1>6 DEF FoundTarget
  <2>2. ReachRank = 13 /\ ReachRank' \in {0, 12}
    BY <1>6, <2>1 DEF ReachRank, NoneLeft
  <2>. QED BY <1>4, <1>6, <2>1, <2>2 DEF SearchStates
<1>. USE DEF Facing, Turned
<1>7. ASSUME state = "SearchSpin", ExecuteSearchSpin(view), UNCHANGED progress,
             ~FoundTarget(view)
      PROVE  Falls
  <2>1. ~TargetSeen
    BY <1>7 DEF ExecuteSearchSpin
  <2>2. CASE state' = "SearchSpinWait"
    <3>1. /\ SpinDone(view) /\ searchSpin < SpinStops /\ searchSpin' = searchSpin + 1
          /\ NextStop(view)
      BY <1>7, <2>2 DEF ExecuteSearchSpin
    <3>2. view'.heading = "away"
      BY <3>1 DEF NextStop, NoPoint
    <3>3. SeekRank = 3
      BY <1>0, <1>7, <3>1, SearchConstants DEF SeekRank, RoundDone
    <3>4. SeekRank' = 2
      BY <1>0, <2>2, <3>1, <3>2 DEF SeekRank, RoundDone, SpinDone
    <3>. QED BY <1>5, <1>7, <2>1, <2>2, <3>3, <3>4 DEF SearchStates
  <2>3. CASE state' = "SearchTurn"
    <3>1. SpinDone(view) /\ searchSpin >= SpinStops /\ searchSpin' = 0
      BY <1>7, <2>3 DEF ExecuteSearchSpin
    <3>2. Facing
      BY <1>0, <3>1, SearchConstants DEF SpinDone
    <3>3. SeekRank = 9
      BY <1>7, <3>1, <3>2 DEF SeekRank, RoundDone
    <3>4. SeekRank' \in 0..8
      BY <2>3, <3>1, SearchConstants DEF SeekRank, RoundDone
    <3>. QED BY <1>5, <1>7, <2>1, <2>3, <3>3, <3>4 DEF SearchStates
  <2>. QED BY <1>7, <2>2, <2>3 DEF ExecuteSearchSpin
<1>8. ASSUME state \in {"SearchSpinWait", "TurnedToTargetWait"}, ExecuteRoverWait(view),
             UNCHANGED progress, ~FoundTarget(view)
      PROVE  Falls
  <2>1. ~TargetSeen /\ UNCHANGED searchSpin
    BY <1>8 DEF ExecuteRoverWait
  <2>2. CASE state = "SearchSpinWait"
    <3>1. state' = "SearchSpin" /\ SameBearing(view)
      BY <1>8, <2>2 DEF ExecuteRoverWait
    <3>2. view'.heading = view.heading
      BY <1>0, <3>1 DEF SameBearing, Views
    <3>3. SeekRank' < SeekRank
      BY <2>1, <2>2, <3>1, <3>2 DEF SeekRank, RoundDone, SpinDone
    <3>. QED BY <1>5, <1>8, <2>1, <3>1, <3>3 DEF SearchStates
  <2>3. CASE state = "TurnedToTargetWait"
    <3>1. state' = "SearchTurn"
      BY <1>8, <2>3 DEF ExecuteRoverWait
    <3>2. SeekRank' < SeekRank
      BY <2>1, <2>3, <3>1 DEF SeekRank, RoundDone
    <3>. QED BY <1>5, <1>8, <2>1, <3>1, <3>2 DEF SearchStates
  <2>. QED BY <1>8, <2>2, <2>3
<1>9. ASSUME state = "SearchTurn", ExecuteSearchTurn(view), UNCHANGED progress,
             ~(~NoneLeft /\ FoundTarget(view))
      PROVE  Falls
  <2>1. UNCHANGED searchVars
    BY <1>9 DEF ExecuteSearchTurn
  <2>2. CASE NoneLeft
    <3>1. state' = "ChangeSearchAlg"
      BY <1>9, <2>2 DEF ExecuteSearchTurn
    <3>2. ReachRank' < ReachRank
      BY <1>9, <2>2, <3>1 DEF ReachRank, NoneLeft
    <3>3. SeekRank' < SeekRank
      BY <1>9, <2>1, <2>2, <3>1 DEF SeekRank, RoundDone, NoneLeft, searchVars
    <3>. QED BY <1>4, <1>5, <1>9, <3>1, <3>2, <3>3 DEF SearchStates
  <2>3. CASE ~NoneLeft
    <3>1. ~TargetSeen /\ state' = "SearchDrive" /\ Facing
      BY <1>9, <2>3 DEF ExecuteSearchTurn
    <3>2. SeekRank' < SeekRank
      BY <1>9, <2>1, <2>3, <3>1 DEF SeekRank, RoundDone, NoneLeft, searchVars
    <3>. QED BY <1>5, <1>9, <3>1, <3>2 DEF SearchStates
  <2>. QED BY <2>2, <2>3
<1>10. ASSUME state = "SearchDrive", ExecuteSearchDrive(view), UNCHANGED progress,
              ~FoundTarget(view)
       PROVE  Falls
  <2>1. ~TargetSeen
    BY <1>10 DEF ExecuteSearchDrive
  <2>2. CASE state' = "SearchTurnAroundObs"
    <3>1. ObstacleDetected
      BY <1>10, <2>2 DEF ExecuteSearchDrive
    <3>2. SearchRank' = 0
      BY <1>1, <2>1, <2>2, <3>1 DEF SearchRank, Hemmed, Detected, ObstacleDetected, TargetSeen
    <3>3. SearchRank \in {5, 11}
      BY <1>1, <1>10, <2>1 DEF SearchRank, SeekRank, TargetSeen
    <3>. QED BY <1>3, <1>10, <2>2, <3>2, <3>3 DEF SearchStates
  <2>3. CASE state' # "SearchTurnAroundObs"
    <3>1. UNCHANGED searchSpin /\ state' \in {"SearchSpin", "SearchTurn"}
      BY <1>10, <2>1, <2>3 DEF ExecuteSearchDrive
    <3>2. CASE state' = "SearchSpin"
      <4>1. SeekRank' < SeekRank
        BY <1>10, <3>1, <3>2 DEF SeekRank, RoundDone
      <4>. QED BY <1>5, <1>10, <2>1, <3>2, <4>1 DEF SearchStates
    <3>3. CASE state' = "SearchTurn"
      <4>1. view' = view /\ view.heading = "away" /\ searchPoints' = searchPoints
        BY <1>10, <2>1, <3>3 DEF ExecuteSearchDrive, DriveStatus, SamePoint
      <4>2. searchPoints > 0
        BY <1>10 DEF Inv, PointsLeft
      <4>3. SeekRank' < SeekRank
        BY <1>10, <3>1, <3>3, <4>1, <4>2 DEF SeekRank, RoundDone
      <4>. QED BY <1>5, <1>10, <2>1, <3>3, <4>3 DEF SearchStates
    <3>. QED BY <3>1, <3>2, <3>3
  <2>. QED BY <2>2, <2>3
<1>11. ASSUME state = "TurnToTarget", ExecuteTurnToTarget(view), UNCHANGED progress
       PROVE  Falls
  <2>1. CASE TargetSeen
    <3>1. state' = "DriveToTarget" /\ Turned(target'.heading)
      BY <1>11, <2>1 DEF ExecuteTurnToTarget
    <3>2. ReachRank' < ReachRank
      BY <1>1, <1>11, <3>1 DEF ReachRank
    <3>. QED BY <1>4, <1>11, <2>1, <3>1, <3>2 DEF SearchStates
  <2>2. CASE ~TargetSeen
    <3>1. state' = "TurnedToTargetWait" /\ UNCHANGED searchSpin
      BY <1>11, <2>2 DEF ExecuteTurnToTarget, searchVars
    <3>2. SeekRank' < SeekRank
      BY <1>11, <3>1 DEF SeekRank, RoundDone
    <3>. QED BY <1>5, <1>11, <2>2, <3>1, <3>2 DEF SearchStates
  <2>. QED BY <2>1, <2>2
<1>12. ASSUME state = "DriveToTarget", ExecuteDriveToTarget(view) PROVE Falls
  <2>1. CASE ~TargetSeen
    <3>1. state' = "SearchTurn" /\ UNCHANGED <<progress, searchSpin>>
      BY <1>12, <2>1 DEF ExecuteDriveToTarget, searchVars
    <3>2. SeekRank' < SeekRank
      BY <1>12, <3>1 DEF SeekRank, RoundDone
    <3>. QED BY <1>5, <1>12, <2>1, <3>1, <3>2 DEF SearchStates
  <2>. SUFFICES ASSUME TargetSeen PROVE Falls
    BY <2>1
  <2>2. Height = 11
    BY <1>1, <1>12 DEF Height, SearchRank, ReachRank, TargetSeen, SearchStates, GateStates
  <2>3. CASE state' = "SearchTurnAroundObs"
    <3>1. ObstacleDetected /\ obstacle'.blocksTarget /\ UNCHANGED progress
      BY <1>12, <2>3 DEF ExecuteDriveToTarget, AtTarget
    <3>2. SearchRank' = 0
      BY <1>1, <2>3, <3>1 DEF SearchRank, Hemmed, Detected, ObstacleDetected
    <3>3. SearchRank = 11
      BY <1>12, <2>2 DEF Height, SearchStates, GateStates
    <3>. QED BY <1>3, <2>3, <3>1, <3>2, <3>3 DEF SearchStates
  <2>4. CASE state' = "TurnToTarget"
    <3>1. target'.heading = "away" /\ UNCHANGED progress
      BY <1>12, <2>4 DEF ExecuteDriveToTarget, DriveStatus, AtTarget
    <3>2. ReachRank' < ReachRank
      BY <1>12, <2>4, <3>1 DEF ReachRank
    <3>. QED BY <1>4, <1>12, <2>4, <3>1, <3>2 DEF SearchStates
  <2>5. CASE state' = "GateSpin"
    <3>1. post1' = target'.id /\ UNCHANGED progress
      BY <1>12, <2>5 DEF ExecuteDriveToTarget, AtTarget
    <3>2. PostRank' \in 0..9
      BY <2>5 DEF PostRank
    <3>3. Height' \in 0..10
      BY <2>5, <3>2 DEF Height, GateRank, GateStates
    <3>. QED BY <1>0, <1>2, <2>2, <2>5, <3>1, <3>3, SameLegs DEF Falls, progress
  <2>6. CASE state' = "Turn"
    <3>1. path' = Tail(path)
      BY <1>12, <2>6 DEF ExecuteDriveToTarget, AtTarget, PopWaypoint
    <3>. QED BY <1>0, <1>2, <2>6, <3>1, LegDone DEF Falls
  <2>7. state' \in {"SearchTurnAroundObs", "TurnToTarget", "GateSpin", "Turn"}
    BY <1>12 DEF ExecuteDriveToTarget, AtTarget
  <2>. QED BY <2>3, <2>4, <2>5, <2>6, <2>7
<1>13. ASSUME ChangeSearchAlg(view) PROVE Falls
  <2>1. /\ state = "ChangeSearchAlg" /\ state' = "SearchTurn" /\ UNCHANGED <<progress, searchSpin>>
        /\ searchPoints' > 0
    BY <1>13, SearchConstants DEF ChangeSearchAlg, InitializeSearch
  <2>2. ReachRank' < ReachRank
    BY <2>1 DEF ReachRank
  <2>3. SeekRank' < SeekRank
    BY <2>1 DEF SeekRank, RoundDone
  <2>. QED BY <1>4, <1>5, <2>1, <2>2, <2>3 DEF SearchStates
<1>14. ASSUME state = "SearchTurnAroundObs", ExecuteTurnAroundObs(view), UNCHANGED progress
       PROVE  Falls
  <2>1. CASE ReachableTarget
    <3>1. state' = "TurnToTarget"
      BY <1>14, <2>1 DEF ExecuteTurnAroundObs
    <3>2. SearchRank = 17
      BY <1>1, <1>14, <2>1 DEF SearchRank, Hemmed, ReachableTarget, TargetSeen
    <3>3. SearchRank' \in {0, 12}
      BY <1>1, <2>1, <3>1 DEF SearchRank, ReachRank, ReachableTarget, TargetSeen
    <3>. QED BY <1>3, <1>14, <3>1, <3>2, <3>3 DEF SearchStates
  <2>2. CASE ~ReachableTarget
    <3>1. ~ObstacleDetected /\ state' = "SearchDriveAroundObs" /\ view'.heading = "facing"
      BY <1>14, <2>2 DEF ExecuteTurnAroundObs, AheadView
    <3>2. SearchRank = 17
      BY <1>1, <1>14, <3>1 DEF SearchRank, Hemmed, Detected, ObstacleDetected
    <3>3. SearchRank' = 16
      BY <1>1, <3>1 DEF SearchRank, OnDetour, DriveStatus, ObstacleDetected
    <3>. QED BY <1>3, <1>14, <3>1, <3>2, <3>3 DEF SearchStates
  <2>. QED BY <2>1, <2>2
<1>15. ASSUME state = "SearchDriveAroundObs", ExecuteDriveAroundObs(view), UNCHANGED progress
       PROVE  Falls
  <2>1. CASE state' = "SearchTurn"
    <3>1. SearchRank \in {16, 18}
      BY <1>15 DEF SearchRank
    <3>2. SearchRank' \in 0..15
      <4>1. SeekRank' \in 0..14
        BY <2>1 DEF SeekRank
      <4>2. ReachRank' \in 0..15
        BY <2>1 DEF ReachRank
      <4>. QED BY <2>1, <4>1, <4>2 DEF SearchRank
    <3>. QED BY <1>3, <1>15, <2>1, <3>1, <3>2 DEF SearchStates
  <2>2. CASE state' = "SearchTurnAroundObs"
    <3>1. ~OnDetour
      BY <1>1, <1>15, <2>2 DEF ExecuteDriveAroundObs, OnDetour, ObstacleDetected,
         ObstacleInThreshold, BackToLeg
    <3>2. SearchRank = 18 /\ SearchRank' \in {0, 17}
      BY <1>15, <2>2, <3>1 DEF SearchRank
    <3>. QED BY <1>3, <1>15, <2>2, <3>2 DEF SearchStates
  <2>. QED BY <1>15, <2>1, <2>2 DEF ExecuteDriveAroundObs, AroundAgain, BackToLeg
<1>16. CASE SearchRun(view)
  BY <1>6, <1>7, <1>8, <1>9, <1>10, <1>11, <1>12, <1>16 DEF SearchRun
<1>17. CASE AvoidanceRun(view) /\ state \in SearchStates
  BY <1>14, <1>15, <1>17 DEF AvoidanceRun, SearchStates
<1>. QED BY <1>13, <1>16, <1>17

\* On the way to the drop point it is the front of the path, detours or not.
DropAhead == state \in RepeaterLeg => path # <<>> /\ Head(path).kind = "drop"

\* A step on a leg of the course or to the drop point, the detours included.
LEMMA LegsFall ==
  ASSUME Inv, DropAhead, Frozen, stateChanged', auton',
         \/ state = "Done" /\ ExecuteDone(view)
         \/ state \in {"Turn", "RadioRepeaterTurn"} /\ ExecuteTurn(view)
         \/ state \in {"Drive", "RadioRepeaterDrive"} /\ ExecuteDrive(view)
         \/ state = "RepeaterDropWait" /\ ExecuteRepeaterDropWait(view)
         \/ AvoidanceRun(view) /\ state \notin SearchStates
  PROVE  Falls
<1>. USE DEF Goto
<1>. DEFINE Legs == {"Turn", "Drive", "RadioRepeaterTurn", "RadioRepeaterDrive",
                     "RepeaterDropWait", "TurnAroundObs", "DriveAroundObs", "Done", "Exit"}
<1>0. path \in Seq(Waypoints) /\ view \in Views /\ state \in Legs
  BY DEF Inv, TypeOK, MachineType, AvoidanceRun, SearchStates
<1>1. /\ obstacle' = obstacle /\ target' = target /\ timeToDrop' = timeToDrop
      /\ dropComplete => dropComplete'
  BY DEF Frozen, status, repeaterTimer
<1>2. /\ Height = LegRank
      /\ state' \in Legs => Height' = LegRank'
  BY <1>0 DEF Height, SearchStates, GateStates
<1>3. ASSUME state' \in Legs, UNCHANGED path, DropDue' => DropDue, LegRank' < LegRank
      PROVE  Falls
  BY <1>0, <1>2, <1>3, SameLegs DEF Falls
<1>4. ASSUME IsAddRepeaterDropPoint, AddRepeaterDropPoint(view), state \in {"Turn", "Drive"}
      PROVE  Falls
  <2>1. DropDue /\ LegsAhead = Len(path) + 1
    BY <1>1, <1>4 DEF IsAddRepeaterDropPoint, DropDue, LegsAhead
  <2>2. CASE state' = "Exit"
    <3>1. path' = path /\ ~DropDue'
      BY <1>4, <2>2 DEF AddRepeaterDropPoint, DropDue
    <3>2. LegsAhead' < LegsAhead
      BY <1>0, <2>1, <3>1 DEF LegsAhead
    <3>. QED BY <3>2 DEF Falls
  <2>3. CASE state' = "RadioRepeaterTurn"
    <3>1. ~DropDue' /\ Len(path') = Len(path) + 1
      <4>1. PICK w : path' = <<w>> \o path
        BY <1>4, <2>3 DEF AddRepeaterDropPoint
      <4>2. Len(<<w>> \o path) = Len(path) + 1
        BY <1>0
      <4>. QED BY <2>3, <4>1, <4>2 DEF DropDue
    <3>2. LegsAhead' <= LegsAhead
      BY <1>0, <2>1, <3>1 DEF LegsAhead
    <3>3. LegRank \in {23, 24} /\ LegRank' \in {0, 21}
      BY <1>4, <2>1, <2>3 DEF LegRank
    <3>. QED BY <1>2, <2>3, <3>2, <3>3 DEF Falls
  <2>. QED BY <1>4, <2>2, <2>3 DEF AddRepeaterDropPoint
<1>. USE DEF Facing, Turned
<1>5. CASE state \in {"Turn", "RadioRepeaterTurn"} /\ ExecuteTurn(view)
  <2>1. CASE path = <<>>
    <3>1. state = "Turn" /\ state' = "Done" /\ UNCHANGED path
      BY <1>5, <2>1 DEF ExecuteTurn, Inv, LegsMatchCourse, LegStates, progress
    <3>2. DropDue' => DropDue
      BY <1>1, <3>1 DEF DropDue
    <3>3. LegRank = 24 /\ LegRank' = 0
      BY <2>1, <3>1 DEF LegRank
    <3>. QED BY <1>3, <3>1, <3>2, <3>3
  <2>2. CASE path # <<>> /\ IsAddRepeaterDropPoint
    BY <1>4, <1>5, <2>2 DEF ExecuteTurn, IsAddRepeaterDropPoint
  <2>3. CASE path # <<>> /\ ~IsAddRepeaterDropPoint
    <3>1. /\ Facing /\ UNCHANGED path
          /\ state' = IF state = "RadioRepeaterTurn" THEN "RadioRepeaterDrive" ELSE "Drive"
      BY <1>5, <2>3 DEF ExecuteTurn, progress
    <3>2. DropDue' => DropDue
      BY <1>1, <1>5, <3>1 DEF DropDue
    <3>3. LegRank' < LegRank
      BY <1>5, <3>1 DEF LegRank
    <3>. QED BY <1>3, <3>1, <3>2, <3>3
  <2>. QED BY <2>1, <2>2, <2>3
<1>6. CASE state \in {"Drive", "RadioRepeaterDrive"} /\ ExecuteDrive(view)
  <2>0. LegRank \in {20, 23} /\ path # <<>>
    BY <1>6 DEF LegRank, Inv, LegsMatchCourse, LegStates
  <2>1. CASE IsAddRepeaterDropPoint
    BY <1>4, <1>6, <2>1 DEF ExecuteDrive, IsAddRepeaterDropPoint
  <2>2. CASE state' = "TurnAroundObs" /\ ~IsAddRepeaterDropPoint
    <3>1. ObstacleDetected /\ UNCHANGED path
      BY <1>6, <2>2 DEF ExecuteDrive, AtWaypoint, progress
    <3>2. Detected'
      BY <3>1 DEF Detected, ObstacleDetected
    <3>3. ~DropDue' /\ LegRank' = 0
      BY <2>2, <3>2 DEF DropDue, LegRank
    <3>. QED BY <1>3, <2>0, <2>2, <3>1, <3>3
  <2>3. CASE state' \in {"Turn", "RadioRepeaterTurn"} /\ view' = view /\ UNCHANGED path
             /\ ~IsAddRepeaterDropPoint /\ view.heading = "away"
             /\ (state' = "Turn" <=> state = "Drive")
    <3>1. ~DropDue'
      BY <1>1, <1>6, <2>3 DEF IsAddRepeaterDropPoint, DropDue
    <3>2. LegRank' = 0
      BY <2>0, <2>3, <3>1 DEF LegRank
    <3>. QED BY <1>3, <2>0, <2>3, <3>1, <3>2
  <2>4. CASE AtWaypoint(view) /\ ~IsAddRepeaterDropPoint
    <3>1. CASE IsSearched
      <4>1. state = "Drive" /\ state' = "SearchSpin" /\ UNCHANGED path
        BY <1>6, <2>4, <3>1 DEF AtWaypoint, IsSearched, progress, DropAhead, RepeaterLeg
      <4>2. Height = 23
        BY <1>2, <4>1 DEF LegRank
      <4>3. Height' \in 0..18
        <5>1. SearchRank' \in 0..18
          <6>1. SeekRank' \in 0..16 /\ ReachRank' \in 0..15
            BY DEF SeekRank, ReachRank
          <6>. QED BY <6>1 DEF SearchRank
        <5>. QED BY <4>1, <5>1 DEF Height, GateStates, SearchStates
      <4>4. DropDue' => DropDue
        BY <1>1, <4>1 DEF DropDue
      <4>. QED BY <1>0, <4>1, <4>2, <4>3, <4>4, SameLegs DEF Falls
    <3>2. CASE ~IsSearched
      <4>1. /\ path' = Tail(path)
            /\ \/ state = "Drive" /\ state' = "Turn"
               \/ state' = "RepeaterDropWait"
        BY <2>4, <3>2 DEF AtWaypoint, PopDropPoint, PopWaypoint
      <4>2. DropDue' => DropDue
        BY <1>1, <4>1 DEF DropDue
      <4>. QED BY <1>0, <2>0, <4>1, <4>2, LegDone DEF Falls
    <3>. QED BY <3>1, <3>2
  <2>. QED
    <3>1. ASSUME ~IsAddRepeaterDropPoint, state' # "TurnAroundObs", ~AtWaypoint(view)
          PROVE  /\ state' \in {"Turn", "RadioRepeaterTurn"} /\ view' = view /\ UNCHANGED path
                 /\ view.heading = "away" /\ (state' = "Turn" <=> state = "Drive")
      <4>1. /\ DriveStatus(view.near, view.heading) = "OffCourse"
            /\ state' = (IF state = "Drive" THEN "Turn" ELSE "RadioRepeaterTurn")
            /\ SamePoint(view) /\ UNCHANGED progress
        BY <1>6, <3>1 DEF ExecuteDrive, DriveStatus
      <4>. QED BY <4>1 DEF DriveStatus, SamePoint, progress
    <3>. QED BY <2>1, <2>2, <2>3, <2>4, <3>1
<1>7. CASE state = "RepeaterDropWait" /\ ExecuteRepeaterDropWait(view)
  <2>1. state' = "Turn" /\ dropComplete' /\ UNCHANGED path
    BY <1>7 DEF ExecuteRepeaterDropWait, progress
  <2>2. ~DropDue'
    BY <2>1 DEF DropDue
  <2>3. LegRank = 25 /\ LegRank' \in {0, 24}
    BY <1>7, <2>1 DEF LegRank
  <2>. QED BY <1>3, <2>1, <2>2, <2>3
<1>8. CASE state = "TurnAroundObs" /\ ExecuteTurnAroundObs(view) /\ UNCHANGED path
  <2>1. ~ObstacleDetected /\ state' = "DriveAroundObs" /\ view'.heading = "facing"
    BY <1>8 DEF ExecuteTurnAroundObs, ReachableTarget, AheadView
  <2>2. ~Detected /\ LegRank = 26
    BY <1>1, <1>8, <2>1 DEF ObstacleDetected, Detected, LegRank
  <2>3. LegRank' = 25
    BY <2>1 DEF LegRank, OnDetour, DriveStatus, ObstacleDetected
  <2>4. DropDue' => DropDue
    BY <1>1, <1>8, <2>2 DEF DropDue
  <2>. QED BY <1>3, <1>8, <2>1, <2>2, <2>3, <2>4
<1>9. CASE state = "DriveAroundObs" /\ ExecuteDriveAroundObs(view) /\ UNCHANGED path
  <2>1. state' \in {"Turn", "TurnAroundObs"}
    BY <1>9 DEF ExecuteDriveAroundObs, AroundAgain, BackToLeg
  <2>2. DropDue' => DropDue
    BY <1>1, <1>9 DEF DropDue
  <2>3. CASE state' = "Turn"
    <3>1. LegRank \in {25, 27} /\ LegRank' \in {0, 24}
      BY <1>9, <2>3 DEF LegRank
    <3>. QED BY <1>3, <1>9, <2>2, <2>3, <3>1
  <2>4. CASE state' = "TurnAroundObs"
    <3>1. ~OnDetour
      BY <1>1, <1>9, <2>4 DEF ExecuteDriveAroundObs, OnDetour, ObstacleDetected,
         ObstacleInThreshold, BackToLeg
    <3>2. LegRank = 27 /\ LegRank' \in {0, 26}
      BY <1>9, <2>4, <3>1 DEF LegRank
    <3>. QED BY <1>3, <1>9, <2>2, <2>4, <3>2
  <2>. QED BY <2>1, <2>3, <2>4
<1>10. CASE state = "Done" /\ ExecuteDone(view)
  BY <1>10 DEF ExecuteDone
<1>11. CASE AvoidanceRun(view) /\ state \notin SearchStates
  BY <1>8, <1>9, <1>11 DEF AvoidanceRun, SearchStates, progress
<1>. QED BY <1>5, <1>6, <1>7, <1>10, <1>11

\* What keeps the drop point at the front: only the legs go to it.
LEMMA DropAheadKept ==
  ASSUME Inv, DropAhead, NEW v \in Views, Execute(v)
  PROVE  DropAhead'
<1>. USE DEF RepeaterLeg, Goto
<1>0. path \in Seq(Waypoints)
  BY DEF Inv, TypeOK, MachineType
<1>1. ASSUME state' \notin RepeaterLeg PROVE DropAhead'
  BY <1>1 DEF DropAhead
<1>2. ASSUME AddRepeaterDropPoint(v) PROVE DropAhead'
  <2>1. CASE state' = "RadioRepeaterTurn"
    <3>1. PICK id : path' = <<[id |-> id, kind |-> "drop"]>> \o path
      BY <1>2, <2>1 DEF AddRepeaterDropPoint
    <3>2. path' # <<>> /\ Head(path') = [id |-> id, kind |-> "drop"]
      BY <1>0, <3>1
    <3>. QED BY <3>2 DEF DropAhead
  <2>. QED BY <1>1, <1>2, <2>1 DEF AddRepeaterDropPoint
<1>3. CASE ~auton' /\ ExecuteOff(v)
  BY <1>1, <1>3 DEF ExecuteOff
<1>4. CASE state \in {"Turn", "RadioRepeaterTurn"} /\ ExecuteTurn(v)
  <2>1. CASE AddRepeaterDropPoint(v)
    BY <1>2, <2>1
  <2>2. CASE ~AddRepeaterDropPoint(v)
    <3>1. state' \in RepeaterLeg => state \in RepeaterLeg /\ UNCHANGED path
      BY <1>4, <2>2 DEF ExecuteTurn, progress
    <3>. QED BY <3>1 DEF DropAhead
  <2>. QED BY <2>1, <2>2
<1>5. CASE state \in {"Drive", "RadioRepeaterDrive"} /\ ExecuteDrive(v)
  <2>1. CASE AddRepeaterDropPoint(v)
    BY <1>2, <2>1
  <2>2. CASE ~AddRepeaterDropPoint(v)
    <3>1. state' \in RepeaterLeg => state \in RepeaterLeg /\ UNCHANGED path
      BY <1>5, <2>2 DEF ExecuteDrive, AtWaypoint, progress
    <3>. QED BY <3>1 DEF DropAhead
  <2>. QED BY <2>1, <2>2
<1>6. CASE SearchRun(v) \/ GateRun(v)
  <2>1. state' \in RepeaterLeg => state \in RepeaterLeg
    BY <1>6, SearchGoes, GateGoes DEF Goes, Completes, Apart
  <2>2. state \notin RepeaterLeg
    BY <1>6 DEF SearchRun, GateRun
  <2>. QED BY <1>1, <2>1, <2>2
<1>7. CASE AvoidanceRun(v) \/ ChangeSearchAlg(v)
  BY <1>1, <1>7 DEF AvoidanceRun, ExecuteTurnAroundObs, ExecuteDriveAroundObs, AroundAgain,
     BackToLeg, ChangeSearchAlg
<1>8. CASE \/ state = "Done" /\ ExecuteDone(v)
           \/ state = "RepeaterDropWait" /\ ExecuteRepeaterDropWait(v)
  BY <1>1, <1>8 DEF ExecuteDone, ExecuteRepeaterDropWait
<1>. QED BY <1>3, <1>4, <1>5, <1>6, <1>7, <1>8 DEF Execute

\* DropAhead is kept by every turn of the loop, whatever obstacles are in the way.
LEMMA DropAheadKeeps == Inv /\ DropAhead /\ [Next]_vars => DropAhead'
<1>. SUFFICES ASSUME Inv, DropAhead, [Next]_vars PROVE DropAhead'
  OBVIOUS
<1>1. view \in Views
  BY DEF Inv, TypeOK, MachineType
<1>2. ASSUME NEW new, Run(new) PROVE DropAhead'
  <2>1. CASE \E v \in Views : Execute(v)
    BY <2>1, DropAheadKept
  <2>2. CASE SwitchOn(new)
    BY <2>2 DEF SwitchOn, Goto, DropAhead, RepeaterLeg
  <2>3. CASE UNCHANGED <<state, progress>>
    BY <2>3 DEF DropAhead, progress
  <2>. QED BY <1>1, <1>2, <2>1, <2>2, <2>3
       DEF Run, RunOnSameData, RunOnNews, SwitchOff, RunOnNothing, CopiedViews
<1>3. CASE UNCHANGED vars
  BY <1>3 DEF vars, DropAhead
<1>. QED BY <1>2, <1>3 DEF Next, HandleStatus, HandleRepeaterDropComplete

\* The rank says how many changes can follow: it is bounded by the path.
THEOREM RankIsBounded == Spec => []RankBound
<1>1. Inv => RankBound
  <2>. SUFFICES ASSUME Inv PROVE RankBound
    OBVIOUS
  <2>1. Len(path) \in Nat
    BY DEF Inv, TypeOK, MachineType
  <2>2. LegsAhead \in 0 .. (Len(path) + 1)
    BY <2>1 DEF LegsAhead
  <2>3. \A m, n \in Nat, h \in 0..27 : m <= n => 30 * m + h \in 0 .. (30 * n + 27)
    OBVIOUS
  <2>. QED BY <2>1, <2>2, <2>3, HeightBound DEF RankBound, Rank, MostChanges
<1>. QED BY <1>1, Invariant, PTL

\* While no data reaches the handlers the rank falls with every change of state, so that
\* the rover is not run on the same data for ever, but in GateShimmy, when the
\* gate is out of view (the run off_not_obeyed).
THEOREM FreezeEnds == Spec => FreezesEnd
<1>. DEFINE Shimmies == state = "GateShimmy" /\ view.gate = "outOfView"
<1>1. Init => DropAhead
  BY DEF Init, DropAhead, RepeaterLeg
<1>2. Inv /\ DropAhead /\ [Next]_vars
        => [stateChanged /\ stateChanged' /\ ~Shimmies => Rank' < Rank]_vars
  <2>. SUFFICES ASSUME Inv, DropAhead, Next, stateChanged, stateChanged', ~Shimmies
                PROVE  Rank' < Rank
    OBVIOUS
  <2>1. PICK new : Run(new)
    BY DEF Next, HandleStatus, HandleRepeaterDropComplete
  <2>2. RunOnSameData(new)
    BY <2>1 DEF Run, RunOnNews, SwitchOff, SwitchOn, RunOnNothing
  <2>3. Frozen /\ Execute(view)
    BY <2>2 DEF RunOnSameData, KeepStatus, Frozen, Next, HandleStatus,
       HandleRepeaterDropComplete
  <2>4. auton'
    BY <2>3 DEF Execute, ExecuteOff
  <2>5. Falls
    BY <2>3, <2>4, GateFalls, SearchFalls, LegsFall DEF Execute
  <2>6. path \in Seq(Waypoints) /\ path' \in Seq(Waypoints)
    BY NextKeeps DEF Inv, TypeOK, MachineType
  <2>. QED BY <2>5, <2>6, RankFalls
<1>. QED BY <1>1, <1>2, DropAheadKeeps, Invariant, PTL DEF Spec, FreezesEnd

\* So every freeze ends if the gate never looks out of view.
THEOREM EveryFreezeEnds ==
  ASSUME "outOfView" \notin GateViews
  PROVE  Spec => [][stateChanged /\ stateChanged' => Rank' < Rank]_vars
<1>1. Inv => view.gate # "outOfView"
  BY DEF Inv, TypeOK, MachineType, Views
<1>2. Inv /\ [stateChanged /\ stateChanged' /\ ~(state = "GateShimmy" /\ view.gate = "outOfView")
               => Rank' < Rank]_vars
        => [stateChanged /\ stateChanged' => Rank' < Rank]_vars
  BY <1>1
<1>. QED BY <1>2, Invariant, FreezeEnds, PTL DEF FreezesEnd

\* As soon as no freeze is under way, switching autonomy off is obeyed in one turn.
THEOREM OffIsObeyedAtOnce == Spec => OffAtOnce
<1>1. Inv /\ [Next]_vars => [~stateChanged /\ ~inbox'.auton => state' = "Off"]_vars
  <2>. SUFFICES ASSUME Inv, Next, ~stateChanged, ~inbox'.auton PROVE state' = "Off"
    OBVIOUS
  <2>1. PICK new \in Inboxes : Run(new)
    BY ReceivedType DEF Next, HandleStatus, HandleRepeaterDropComplete, Inv, TypeOK, StatusType
  <2>2. ~RunOnNews(new) /\ ~SwitchOn(new)
    BY DEF RunOnNews, CopyReadings, SwitchOn, CopyStatus, Inboxes
  <2>3. CASE SwitchOff(new)
    BY <2>3 DEF SwitchOff, Execute, ExecuteOff
  <2>4. CASE RunOnNothing(new)
    <3>1. state = "Off"
      BY <2>4 DEF RunOnNothing, KeepStatus, Inv, OffIsStopped
    <3>. QED BY <2>4, <3>1 DEF RunOnNothing, WaitStates
  <2>. QED BY <2>1, <2>2, <2>3, <2>4 DEF Run, RunOnSameData
<1>. QED BY <1>1, Invariant, PTL DEF Spec, OffAtOnce
=============================================================================
