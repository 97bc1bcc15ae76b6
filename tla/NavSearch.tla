------------------------------ MODULE NavSearch -------------------------------
(***************************************************************************)
(* jetson/nav/search: the search for the first target.  The points of a    *)
(* search pattern are abstracted to how many are left.  Spin stops are        *)
(* counted: after `spin' stops nextStop is (spin * searchWaitStepSize)     *)
(* past the original angle.                                                *)
(***************************************************************************)
EXTENDS NavGate, NavAvoidance

CONSTANTS
  SpinStops,      \* 360 / searchWaitStepSize: the stops of a whole turn
  PatternPoints,  \* how many points a pattern may have
  Patterns        \* search.order of the configuration

ASSUME SearchConstants ==
  /\ SpinStops \in Nat \ {0}
  /\ PatternPoints \subseteq Nat \ {0}  \* visionDistance < bailThresh
  /\ Patterns \in Seq({"SpiralOut", "LawnMower", "SpiralIn"})
  /\ Len(Patterns) > 0

VARIABLES
  searcher,      \* the class of *mSearchStateMachine
  searchPoints,  \* how many points of mSearchPoints are left
  searchSpin,    \* nextStop of executeSearchSpin; 0 when no spin is under way
  searchWaiting, \* started of executeRoverWait
  anglesSet,     \* mTargetAngle and mTurnToTargetRoverAngle have been assigned
  searchFails    \* searchFails of StateMachine::run, modulo search.numSearches

searchVars ==
  <<searcher, searchPoints, searchSpin, searchWaiting, anglesSet, searchFails>>

SearchInit ==
  /\ searcher = "SpiralOut"
  /\ searchPoints = 0
  /\ searchSpin = 0
  /\ searchWaiting = FALSE
  /\ anglesSet = FALSE
  /\ searchFails = 0

-----------------------------------------------------------------------------
\* updateTargetDetectionElements, then on to the target.
FoundTarget(v) ==
  /\ TargetSeen
  /\ anglesSet' = TRUE
  /\ Goto("TurnToTarget") /\ NoPoint(v)
  /\ UNCHANGED <<command, searcher, searchPoints, searchSpin, searchWaiting,
                 searchFails>>

\* A spin turns to nextStop. Its first call takes the current bearing for
\* nextStop, so that the turn is done at once.
SpinDone(v) == searchSpin = 0 \/ Turned(v.heading)

ExecuteSearchSpin(v) ==
  \/ FoundTarget(v)
  \/ /\ ~TargetSeen
     /\ UNCHANGED <<searcher, searchPoints, searchWaiting, anglesSet, searchFails>>
     /\ \/ /\ SpinDone(v) /\ searchSpin >= SpinStops
           /\ searchSpin' = 0
           /\ UNCHANGED command
           /\ Goto("SearchTurn") /\ NewPoint(v)
        \/ /\ SpinDone(v) /\ searchSpin < SpinStops
           /\ searchSpin' = searchSpin + 1
           /\ UNCHANGED command
           /\ Goto("SearchSpinWait") /\ NextStop(v)
        \/ /\ ~SpinDone(v)
           /\ UNCHANGED searchSpin
           /\ TurnCommand(v.heading)
           /\ Goto("SearchSpin") /\ SameBearing(v)

\* A wait that has only been started cannot be over: searchWaitTime > 0.
ExecuteRoverWait(v) ==
  \/ FoundTarget(v)
  \/ /\ ~TargetSeen
     /\ IF searchWaiting THEN UNCHANGED command ELSE Stop
     /\ UNCHANGED <<searcher, searchPoints, searchSpin, anglesSet, searchFails>>
     /\ \/ /\ searchWaiting
           /\ searchWaiting' = FALSE
           /\ \/ state = "SearchSpinWait" /\ Goto("SearchSpin") /\ SameBearing(v)
              \/ state = "TurnedToTargetWait" /\ Goto("SearchTurn") /\ NewPoint(v)
        \/ /\ searchWaiting' = TRUE
           /\ Goto(state) /\ SameBearing(v)

\* Mutant: the empty list is not noticed.
NoneLeftUnnoticed == FALSE

NoneLeft == searchPoints = 0

ExecuteSearchTurn(v) ==
  \/ /\ NoneLeft
     /\ Goto("ChangeSearchAlg") /\ NoPoint(v)
     /\ UNCHANGED <<command, searchVars>>
  \/ ~NoneLeft /\ FoundTarget(v)
  \/ /\ ~NoneLeft /\ ~TargetSeen
     /\ TurnCommand(v.heading)
     /\ Goto(IF Turned(v.heading) THEN "SearchDrive" ELSE "SearchTurn")
     /\ SamePoint(v)
     /\ UNCHANGED searchVars

ExecuteSearchDrive(v) ==
  LET driven == DriveStatus(v.near, v.heading)
  IN  \/ FoundTarget(v) /\ UNCHANGED avoidanceVars
      \/ /\ ~TargetSeen
         /\ ObstacleDetected /\ ObstacleInThreshold
         /\ RecordObstacle
         /\ Goto("SearchTurnAroundObs") /\ NoPoint(v)
         /\ UNCHANGED <<command, searchVars>>
      \/ /\ ~TargetSeen
         /\ ~(ObstacleDetected /\ ObstacleInThreshold)
         /\ DriveCommand(driven)
         /\ searchPoints' = IF driven = "Arrived" THEN searchPoints - 1 ELSE searchPoints
         /\ UNCHANGED <<avoidanceVars, searcher, searchSpin, searchWaiting,
                        anglesSet, searchFails>>
         /\ \/ driven = "Arrived"   /\ Goto("SearchSpin")  /\ NewBearing(v)
            \/ driven = "OnCourse"  /\ Goto("SearchDrive") /\ SamePoint(v)
            \/ driven = "OffCourse" /\ Goto("SearchTurn")  /\ SamePoint(v)

\* Mutant: only the states that find a target store its angles.
AnglesNotSaved(heading) == UNCHANGED anglesSet

\* A turn that is not over stores the target's angle and the rover's.
AnglesSaved(heading) == anglesSet' = (anglesSet \/ ~Turned(heading))

\* With the target lost the rover turns to the last known angles: what it reads
\* before they are set is any bearing, and so is the outcome.
ExecuteTurnToTarget(v) ==
  \/ /\ ~TargetSeen
     /\ \E heading \in Headings :
          /\ TurnCommand(heading)
          /\ Goto(IF Turned(heading) THEN "TurnedToTargetWait" ELSE "TurnToTarget")
     /\ NoPoint(v)
     /\ UNCHANGED searchVars
  \/ /\ TargetSeen
     /\ TurnCommand(target'.heading)
     /\ AnglesSaved(target'.heading)
     /\ Goto(IF Turned(target'.heading) THEN "DriveToTarget" ELSE "TurnToTarget")
     /\ NoPoint(v)
     /\ UNCHANGED <<searcher, searchPoints, searchSpin, searchWaiting, searchFails>>

\* Mutant: any leg is a gate leg.
EveryLegAGate == path # <<>>

GateLeg == Head(path).kind = "gate"

\* At the target of a gate leg the first post is recorded and the gate search
\* starts; at that of a search leg the waypoint is done.
AtTarget(v) ==
  /\ searchPoints' = 0
  /\ IF GateLeg
     THEN /\ gatePoints' = 0
          /\ post1' = target'.id
          /\ UNCHANGED <<progress, gateSpin, gateWaiting, post2, correctDir>>
          /\ Goto("GateSpin") /\ NewBearing(v)
     ELSE /\ PopWaypoint
          /\ UNCHANGED gateVars
          /\ Goto("Turn") /\ NewPoint(v)

ExecuteDriveToTarget(v) ==
  LET driven  == DriveStatus(target'.near, target'.heading)
      blocked == ObstacleDetected /\ obstacle'.blocksTarget /\ ObstacleInThreshold
  IN  \/ /\ ~TargetSeen
         /\ Goto("SearchTurn") /\ NewPoint(v)
         /\ UNCHANGED <<command, progress, searchVars, gateVars, avoidanceVars>>
      \/ /\ TargetSeen /\ blocked
         /\ RecordObstacle
         /\ Goto("SearchTurnAroundObs") /\ NoPoint(v)
         /\ UNCHANGED <<command, progress, searchVars, gateVars>>
      \/ /\ TargetSeen /\ ~blocked
         /\ DriveCommand(driven)
         /\ UNCHANGED <<avoidanceVars, searcher, searchSpin, searchWaiting,
                        anglesSet, searchFails>>
         /\ \/ driven = "Arrived" /\ AtTarget(v)
            \/ /\ driven # "Arrived"
               /\ Goto(IF driven = "OnCourse" THEN "DriveToTarget" ELSE "TurnToTarget")
               /\ NoPoint(v)
               /\ UNCHANGED <<progress, searchPoints, gateVars>>

\* SearchStateMachine::run
SearchRun(v) ==
  \/ /\ UNCHANGED <<progress, gateVars, avoidanceVars>>
     /\ \/ state = "SearchSpin" /\ ExecuteSearchSpin(v)
        \/ state \in {"SearchSpinWait", "TurnedToTargetWait"} /\ ExecuteRoverWait(v)
        \/ state = "SearchTurn" /\ ExecuteSearchTurn(v)
        \/ state = "TurnToTarget" /\ ExecuteTurnToTarget(v)
  \/ state = "SearchDrive" /\ ExecuteSearchDrive(v) /\ UNCHANGED <<progress, gateVars>>
  \/ state = "DriveToTarget" /\ ExecuteDriveToTarget(v)

-----------------------------------------------------------------------------
\* Mutant: the counter runs past the configured patterns.
FailsUnwrapped == searchFails + 1

NextFails == (searchFails + 1) % Len(Patterns)

\* A new object, with nothing set, takes the place of the old one.
SetSearcher ==
  /\ searcher' = Patterns[searchFails + 1]
  /\ anglesSet' = FALSE

\* The pattern is laid around the front of the path.
InitializeSearch == searchPoints' \in PatternPoints

ChangeSearchAlg(v) ==
  /\ state = "ChangeSearchAlg"
  /\ SetSearcher
  /\ InitializeSearch
  /\ searchFails' = NextFails
  /\ Goto("SearchTurn") /\ NewPoint(v)
  /\ UNCHANGED <<progress, command, gateVars, avoidanceVars, searchSpin, searchWaiting>>
=============================================================================
