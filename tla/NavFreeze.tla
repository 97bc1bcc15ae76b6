------------------------------- MODULE NavFreeze ------------------------------
(***************************************************************************)
(* How long the navigation may run on the same data.  A handler that goes  *)
(* to another state keeps updateRover from being called before the next    *)
(* one, so that a chain of changes of state is a freeze: no reading, no    *)
(* new course and no switch is looked at before it ends.  The rank bounds  *)
(* how many changes the chain may still have.                              *)
(***************************************************************************)
EXTENDS NavProperties

(* What the handlers of the next run will find *)

Facing == Turned(view.heading)
Detected == obstacle.range # "none"

\* The obstacle in sight keeps the rover turning.
Hemmed == Detected /\ ~(target.seen /\ ~obstacle.blocksTarget)

\* The avoidance point is driven to, or reached.
OnDetour ==
  obstacle.range # "close" /\ DriveStatus(view.near, view.heading) # "OffCourse"

\* A drop point may still be added to the path.
DropDue ==
  /\ timeToDrop /\ ~dropComplete
  /\ state \notin {"RadioRepeaterTurn", "RadioRepeaterDrive", "RepeaterDropWait", "Exit"}
  /\ ~(state = "TurnAroundObs" /\ Detected)

\* A spin that has gone all the way round, and is not stuck on its bearing.
RoundDone(spin, stops, isSpinning) == spin >= stops /\ (isSpinning => Facing)

-----------------------------------------------------------------------------
(* The rank: the legs ahead, and the height above the last state of the leg *)

LegsAhead == Len(path) + (IF DropDue THEN 1 ELSE 0)

\* On the leg itself; 0 where the handler stays.
LegRank ==
  CASE state = "TurnAroundObs"      -> IF Detected THEN 0 ELSE 26
    [] state = "DriveAroundObs"     -> IF OnDetour THEN 25 ELSE 27
    [] state = "RepeaterDropWait"   -> 25
    [] state = "Turn"               -> IF path = <<>> \/ DropDue \/ Facing THEN 24 ELSE 0
    [] state = "Drive"              -> 23
    [] state = "RadioRepeaterTurn"  -> IF Facing THEN 21 ELSE 0
    [] state = "RadioRepeaterDrive" -> 20
    [] OTHER                        -> 0

\* In a search with the target in sight: the way to it.
ReachRank ==
  CASE state = "SearchTurn"      -> IF searchPoints = 0 THEN 15 ELSE 13
    [] state = "ChangeSearchAlg" -> 14
    [] state = "TurnToTarget"    -> IF Turned(target.heading) THEN 12 ELSE 0
    [] state = "DriveToTarget"   -> 11
    [] OTHER                     -> 13

\* With none in sight: the way to the next point and its spin, and once more
\* if the spin was interrupted after its last stop.
SeekRank ==
  (CASE state = "TurnToTarget"    -> 10
     [] state \in {"TurnedToTargetWait", "DriveToTarget"} -> 9
     [] state = "SearchTurn"      -> IF searchPoints = 0 THEN 8 ELSE IF Facing THEN 6 ELSE 0
     [] state = "ChangeSearchAlg" -> 7
     [] state = "SearchDrive"     -> 5
     [] state = "SearchSpinWait"  -> IF SpinDone(view) THEN 4 ELSE 2
     [] OTHER                     -> IF SpinDone(view) THEN 3 ELSE 1)
  + (IF RoundDone(searchSpin, SpinStops, state \in {"SearchSpin", "SearchSpinWait"})
     THEN 6 ELSE 0)

SearchRank ==
  CASE state = "SearchTurnAroundObs"  -> IF Hemmed THEN 0 ELSE 17
    [] state = "SearchDriveAroundObs" -> IF OnDetour THEN 16 ELSE 18
    [] OTHER                          -> IF target.seen THEN ReachRank ELSE SeekRank

\* The search for the second post, as SeekRank.
PostRank ==
  (CASE state = "GateTurn"     -> IF gatePoints = 0 \/ Facing THEN 6 ELSE 0
     [] state = "GateDrive"    -> 5
     [] state = "GateSpinWait" -> IF GateSpinDone(view) THEN 4 ELSE 2
     [] OTHER                  -> IF GateSpinDone(view) THEN 3 ELSE 1)
  + (IF RoundDone(gateSpin, GateSpinStops, state \in {"GateSpin", "GateSpinWait"})
     THEN 6 ELSE 0)

\* Through the gate, and again if the first way is the wrong one.
ThroughRank ==
  (CASE state = "GateTurnToCentPoint"  -> IF Facing THEN 6 ELSE 0
     [] state = "GateDriveToCentPoint" -> 5
     [] state = "GateFace"             -> 4
     [] state = "GateShimmy"           -> 3
     [] OTHER                          -> 2)
  + (IF correctDir THEN 0 ELSE 3)

GateRank ==
  IF state \notin {"GateSpin", "GateSpinWait", "GateTurn", "GateDrive"} THEN ThroughRank
  ELSE IF target2 \/ (target.seen /\ target.id # post1) THEN 10 ELSE PostRank

Height ==
  IF state \in GateStates THEN GateRank
  ELSE IF state \in SearchStates THEN SearchRank ELSE LegRank

Rank == 30 * LegsAhead + Height
MostChanges == 30 * (Len(path) + 1) + 27

-----------------------------------------------------------------------------
(* Properties *)

\* The path bounds the rank: the changes of state that can follow on frozen data.
RankBound == Rank \in 0..MostChanges

\* Every change of state on frozen data lowers the rank, whatever the rover then
\* heads for, so that isRoverReady comes to call updateRover again ("return
\* mStateChanged || ... updateRover"). But in GateShimmy with the gate out of view
\* the rover goes back to GateFace, and may do so for ever.
FreezesEnd ==
  [][stateChanged /\ stateChanged' /\ ~(state = "GateShimmy" /\ view.gate = "outOfView")
       => Rank' < Rank]_vars

\* Out of a freeze, switching autonomy off is obeyed in the same run ("turn off
\* immediately", run), whatever the state.
OffAtOnce == [][~stateChanged /\ ~inbox'.auton => state' = "Off"]_vars
=============================================================================
