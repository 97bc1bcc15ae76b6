---------------------------- MODULE NavStateMachine ---------------------------
(***************************************************************************)
(* jetson/nav: main.cpp and stateMachine.cpp.  The program is one loop:    *)
(* lcm.handle() gives one message to its handler, which stores it in the   *)
(* inbox (mNewRoverStatus), and run() then does one iteration of the state *)
(* machine.  A step of this specification is one turn of that loop.  The   *)
(* handlers of the states read the primed status, which updateRover has    *)
(* brought up to date (or not) earlier in the same turn.                   *)
(***************************************************************************)
EXTENDS NavSearch

CONSTANT PathBound    \* bounds the waypoints that addRepeaterDropPoint adds up

ASSUME PathBoundIsNat == PathBound \in Nat

VARIABLES
  total,        \* mTotalWaypoints
  dropComplete  \* mRepeaterDropComplete

vars == <<state, status, path, view, inbox, stateChanged, completed, command,
          repeaterTimer, gateVars, avoidanceVars, searchVars, total, dropComplete>>

\* mNewRoverStatus is not initialised: until the first message of each kind it
\* holds any reading, and no course (a count other than 0 has no waypoints).
Init ==
  /\ state = "Off"
  /\ auton = FALSE
  /\ course = <<>> /\ path = <<>>
  /\ obstacle \in Obstacles /\ target \in Targets /\ target2 \in SecondSeen
  /\ view \in Views
  /\ inbox \in [auton : {FALSE}, course : {<<>>}, obstacle : Obstacles,
                target : Targets, target2 : SecondSeen, signal : Signals, moved : {TRUE}]
  /\ stateChanged = TRUE
  /\ command = "none"
  /\ timeToDrop = FALSE /\ lowTimer = FALSE
  /\ completed = 0 /\ total = 0
  /\ dropComplete = FALSE
  /\ GateInit
  /\ AvoidanceInit
  /\ SearchInit

-----------------------------------------------------------------------------
(* The handlers of stateMachine.cpp *)

modeVars == <<gateVars, avoidanceVars, searchVars>>

\* Mutant: a second point may be added on the way to the first.
AddsAnyDropPoint == timeToDrop' /\ ~dropComplete'

\* isAddRepeaterDropPoint
IsAddRepeaterDropPoint ==
  /\ state \notin {"RadioRepeaterTurn", "RadioRepeaterDrive"}
  /\ timeToDrop'
  /\ ~dropComplete'

\* addRepeaterDropPoint reads waypoints[completed - 1], unsigned: with nothing
\* completed the index is out of any range and the process dies.
AddRepeaterDropPoint(v) ==
  /\ UNCHANGED <<completed, command, modeVars>>
  /\ NewPoint(v)
  /\ \/ /\ completed \in 1..Len(course)
        /\ Len(path) < PathBound
        /\ path' = <<[id |-> course[completed].id, kind |-> "drop"]>> \o path
        /\ Goto("RadioRepeaterTurn")
     \/ /\ completed \notin 1..Len(course)
        /\ UNCHANGED path
        /\ Goto("Exit")

\* Mutants: the rover is not stopped; the state is not changed.
OffUnstopped(v) ==
  /\ UNCHANGED <<completed, command, modeVars>>
  /\ state' = "Off" /\ stateChanged' = FALSE
  /\ path' = <<>>
  /\ NoPoint(v)
OffUnchanged(v) ==
  /\ Stop
  /\ state' = state /\ stateChanged' = FALSE
  /\ path' = <<>>
  /\ NoPoint(v)
  /\ UNCHANGED <<completed, modeVars>>

\* With auton off: executeOff stops the rover, and run clears the path.
ExecuteOff(v) ==
  /\ Stop
  /\ state' = "Off"
  /\ stateChanged' = FALSE
  /\ path' = <<>>
  /\ NoPoint(v)
  /\ UNCHANGED <<completed, modeVars>>

ExecuteDone(v) ==
  /\ Stop
  /\ Goto("Done") /\ NoPoint(v)
  /\ UNCHANGED <<progress, modeVars>>

ExecuteTurn(v) ==
  \/ /\ path = <<>>
     /\ Goto("Done") /\ NoPoint(v)
     /\ UNCHANGED <<progress, command, modeVars>>
  \/ path # <<>> /\ IsAddRepeaterDropPoint /\ AddRepeaterDropPoint(v)
  \/ /\ path # <<>> /\ ~IsAddRepeaterDropPoint
     /\ TurnCommand(v.heading)
     /\ Goto(IF ~Turned(v.heading) THEN state
             ELSE IF state = "RadioRepeaterTurn" THEN "RadioRepeaterDrive" ELSE "Drive")
     /\ SamePoint(v)
     /\ UNCHANGED <<progress, modeVars>>

\* Mutants: a search leg is taken for a plain one; the drop point is counted.
GatesAreSearched == Head(path).kind = "gate"
PopDropPointCounted == PopWaypoint

IsSearched == Head(path).kind \in {"search", "gate"}
PopDropPoint == path' = Tail(path) /\ UNCHANGED completed

\* Arrived: a search starts, or the waypoint is done, or the repeater is dropped.
AtWaypoint(v) ==
  \/ /\ IsSearched
     /\ Goto("SearchSpin") /\ NewBearing(v)
     /\ UNCHANGED <<progress, searchVars>>
  \/ /\ ~IsSearched
     /\ state = "RadioRepeaterDrive"
     /\ PopDropPoint
     /\ Goto("RepeaterDropWait") /\ NoPoint(v)
     /\ UNCHANGED searchVars
  \/ /\ ~IsSearched
     /\ state = "Drive"
     /\ PopWaypoint
     /\ Goto("Turn") /\ NewPoint(v)
     /\ UNCHANGED searchVars

ExecuteDrive(v) ==
  LET driven  == DriveStatus(v.near, v.heading)
      blocked == ObstacleDetected /\ obstacle'.blocksWaypoint /\ ObstacleInThreshold
  IN  \/ IsAddRepeaterDropPoint /\ AddRepeaterDropPoint(v)
      \/ /\ ~IsAddRepeaterDropPoint /\ blocked
         /\ RecordObstacle
         /\ Goto("TurnAroundObs") /\ NoPoint(v)
         /\ UNCHANGED <<progress, command, gateVars, searchVars>>
      \/ /\ ~IsAddRepeaterDropPoint /\ ~blocked
         /\ DriveCommand(driven)
         /\ UNCHANGED <<gateVars, avoidanceVars>>
         /\ \/ driven = "Arrived" /\ AtWaypoint(v)
            \/ /\ driven = "OnCourse"
               /\ Goto(state) /\ SamePoint(v)
               /\ UNCHANGED <<progress, searchVars>>
            \/ /\ driven = "OffCourse"
               /\ Goto(IF state = "Drive" THEN "Turn" ELSE "RadioRepeaterTurn")
               /\ SamePoint(v)
               /\ UNCHANGED <<progress, searchVars>>

ExecuteRepeaterDropWait(v) ==
  /\ \/ dropComplete'  /\ Goto("Turn") /\ NewPoint(v)
     \/ ~dropComplete' /\ Goto("RepeaterDropWait") /\ NoPoint(v)
  /\ UNCHANGED <<progress, command, modeVars>>

\* The switch of StateMachine::run.
Execute(v) ==
  \/ ~auton' /\ ExecuteOff(v)
  \/ /\ auton'
     /\ \/ state = "Done" /\ ExecuteDone(v)
        \/ state \in {"Turn", "RadioRepeaterTurn"} /\ ExecuteTurn(v)
        \/ state \in {"Drive", "RadioRepeaterDrive"} /\ ExecuteDrive(v)
        \/ state = "RepeaterDropWait" /\ ExecuteRepeaterDropWait(v)
        \/ SearchRun(v)
        \/ AvoidanceRun(v) /\ UNCHANGED <<gateVars, searchVars>>
        \/ ChangeSearchAlg(v)
        \/ GateRun(v) /\ UNCHANGED <<avoidanceVars, searchVars>>

-----------------------------------------------------------------------------
(* StateMachine::run and isRoverReady *)

WaitStates == {"SearchSpinWait", "TurnedToTargetWait", "GateSpinWait", "RepeaterDropWait"}

\* After a change of state updateRover is not called.
RunOnSameData(new) ==
  /\ stateChanged
  /\ KeepStatus(new)
  /\ Execute(view)
  /\ UNCHANGED total

RunOnNews(new) ==
  /\ ~stateChanged
  /\ auton /\ new.auton
  /\ CopyReadings(new)
  /\ \E v \in CopiedViews(new) : Execute(v)
  /\ UNCHANGED total

\* On to off: only the auton state is copied.
SwitchOff(new) ==
  /\ ~stateChanged
  /\ auton /\ ~new.auton
  /\ auton' = FALSE
  /\ inbox' = new
  /\ UNCHANGED <<course, obstacle, target, target2, repeaterTimer>>
  /\ Execute(view)
  /\ UNCHANGED total

\* executeOff, when autonomy is on again.
CourseStarts(c) == completed' = 0 /\ total' = Len(c)

\* Off to on: everything is copied and executeOff starts the course.
SwitchOn(new) ==
  /\ ~stateChanged
  /\ ~auton /\ new.auton
  /\ CopyStatus(new)
  /\ CourseStarts(new.course)
  /\ Goto(IF new.course = <<>> THEN "Done" ELSE "Turn")
  /\ view' \in Views
  /\ UNCHANGED <<command, modeVars>>

\* Nothing has changed: only the states that wait go on.
RunOnNothing(new) ==
  /\ ~stateChanged
  /\ auton = new.auton
  /\ auton => ~HasNews(new)
  /\ KeepStatus(new)
  /\ IF state \in WaitStates
     THEN Execute(view)
     ELSE UNCHANGED <<state, stateChanged, view, progress, command, modeVars>>
  /\ UNCHANGED total

Run(new) ==
  \/ RunOnSameData(new)
  \/ RunOnNews(new)
  \/ SwitchOff(new)
  \/ SwitchOn(new)
  \/ RunOnNothing(new)

-----------------------------------------------------------------------------
(* The handlers of main.cpp and the overloads of updateRoverStatus *)

AutonState(on) == [inbox EXCEPT !.auton = on]
Course(c) == [inbox EXCEPT !.course = c]
Obstacle(o) == [inbox EXCEPT !.obstacle = o]
Odometry == [inbox EXCEPT !.moved = TRUE]
TargetList(t, seen, news) ==
  [inbox EXCEPT !.target = t, !.target2 = seen, !.moved = (@ \/ news)]
RadioSignalStrength(s) == [inbox EXCEPT !.signal = s]

\* The inbox after the next message.
Received ==
  {AutonState(on) : on \in Switches} \cup {Course(c) : c \in Courses}
    \cup {Obstacle(o) : o \in Obstacles} \cup {Odometry}
    \cup {TargetList(t, seen, news) : t \in Targets, seen \in SecondSeen, news \in BOOLEAN}
    \cup {RadioSignalStrength(s) : s \in Signals}

HandleStatus ==
  /\ UNCHANGED dropComplete
  /\ \E new \in Received : Run(new)

HandleRepeaterDropComplete ==
  /\ DropReports # {}
  /\ dropComplete' = TRUE
  /\ Run(inbox)

Next == state # "Exit" /\ (HandleStatus \/ HandleRepeaterDropComplete)

Spec == Init /\ [][Next]_vars

\* Messages keep arriving: perception and the filter publish all the time.
FairSpec == Spec /\ WF_vars(Next)
=============================================================================
