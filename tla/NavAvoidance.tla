----------------------------- MODULE NavAvoidance -----------------------------
(***************************************************************************)
(* jetson/nav/obstacle_avoidance: turn until no obstacle is detected, then *)
(* drive to a point ahead before going back to the interrupted leg.  Which *)
(* way the rover turns is left out.                                        *)
(***************************************************************************)
EXTENDS NavRover

VARIABLES
  originalObstacle, \* mOriginalObstacleAngle and -Distance: assigned, and of
                    \* the obstacle being avoided ("set") or an earlier ("old")
  avoidancePoint    \* mObstacleAvoidancePoint has been assigned

avoidanceVars == <<originalObstacle, avoidancePoint>>

AvoidanceInit ==
  /\ originalObstacle = "unset"
  /\ avoidancePoint = FALSE

\* updateObstacleElements (and, one by one, the two that it calls).
RecordObstacle ==
  /\ originalObstacle' = "set"
  /\ UNCHANGED avoidancePoint

\* The target is detected and reachable: only a search gives the detour up.
ReachableTarget ==
  /\ state = "SearchTurnAroundObs"
  /\ TargetSeen
  /\ ~obstacle'.blocksTarget

\* createAvoidancePoint: a point straight ahead.
AheadView(v) == view' \in {w \in Views : w.heading = "facing" /\ w.gate = v.gate}

ExecuteTurnAroundObs(v) ==
  \/ /\ ReachableTarget
     /\ UNCHANGED <<command, avoidanceVars>>
     /\ Goto("TurnToTarget") /\ NoPoint(v)
  \/ /\ ~ReachableTarget
     /\ ~ObstacleDetected
     /\ avoidancePoint' = TRUE
     /\ UNCHANGED <<command, originalObstacle>>
     /\ Goto(IF state = "TurnAroundObs" THEN "DriveAroundObs" ELSE "SearchDriveAroundObs")
     /\ AheadView(v)
  \/ /\ ~ReachableTarget
     /\ ObstacleDetected
     /\ command' = "turn"   \* perception's bearing of an obstacle is not 0
     /\ UNCHANGED avoidanceVars
     /\ Goto(state) /\ NoPoint(v)

AroundAgain == IF state = "DriveAroundObs" THEN "TurnAroundObs" ELSE "SearchTurnAroundObs"
BackToLeg == IF state = "DriveAroundObs" THEN "Turn" ELSE "SearchTurn"

ExecuteDriveAroundObs(v) ==
  LET driven == DriveStatus(v.near, v.heading)
  IN  \/ /\ ObstacleDetected /\ ObstacleInThreshold
         /\ originalObstacle' = "old"
         /\ UNCHANGED <<command, avoidancePoint>>
         /\ Goto(AroundAgain) /\ NoPoint(v)
      \/ /\ ~(ObstacleDetected /\ ObstacleInThreshold)
         /\ DriveCommand(driven)
         /\ UNCHANGED avoidanceVars
         /\ \/ driven = "Arrived"   /\ Goto(BackToLeg)   /\ NewPoint(v)
            \/ driven = "OnCourse"  /\ Goto(state)       /\ SamePoint(v)
            \/ driven = "OffCourse" /\ Goto(AroundAgain) /\ NoPoint(v)

\* ObstacleAvoidanceStateMachine::run
AvoidanceRun(v) ==
  /\ UNCHANGED progress
  /\ \/ state \in {"TurnAroundObs", "SearchTurnAroundObs"} /\ ExecuteTurnAroundObs(v)
     \/ state \in {"DriveAroundObs", "SearchDriveAroundObs"} /\ ExecuteDriveAroundObs(v)
=============================================================================
