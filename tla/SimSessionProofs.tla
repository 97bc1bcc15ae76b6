---------------------------- MODULE SimSessionProofs ----------------------------
(***************************************************************************)
(* A simulator session, for any field, gimbal, number of missed beats and  *)
(* use of the features: one drop of the repeater at a time, connection     *)
(* lights that are true, a path that was driven.                           *)
(***************************************************************************)
EXTENDS SimSessionProperties, TLAPS

\* What a heartbeat monitor counts: a pulse is a message since the last check, and
\* without one the checks missed are those since the last message, less the first.
BeatsCount ==
  \A p \in Programs :
    /\ pulse[p] <=> quiet[p] = 0
    /\ connected[p] <=> missedBeats[p] # HB_MAX_MISSED
    /\ quiet[p] # 0 => missedBeats[p] = quiet[p] - 1

\* The inductive invariant.
SInv == TypeOK /\ OneDrop /\ BeatsCount /\ PathIsDriven

-------------------------------------------------------------------------------
(* Moving and drawing.                                                     *)

\* The gimbal is turned to an angle within its limits, whatever the command is.
LEMMA TurnedInRange ==
  ASSUME NEW pos \in Int, NEW cmd \in Int, NEW n \in Nat
  PROVE  Turned(pos, cmd, n) \in Angles
<1>1. GimbalMax \in Nat
  BY SessionConstants
<1>. DEFINE angle == IF Distance(pos, cmd) <= n THEN cmd ELSE IF pos < cmd THEN pos + n ELSE pos - n
<1>2. angle \in Int
  OBVIOUS
<1>3. Turned(pos, cmd, n) = IF angle < -GimbalMax THEN -GimbalMax
                            ELSE IF angle > GimbalMax THEN GimbalMax ELSE angle
  BY DEF Turned
<1>. HIDE DEF angle
<1>. QED BY <1>1, <1>2, <1>3 DEF Angles

\* A joystick command moves the rover one place at most each time it is applied.
LEMMA DrivenNear ==
  ASSUME NEW odom \in Int, NEW stick \in Commands, NEW n \in {1, 2}
  PROVE  /\ Driven(odom, stick, n) \in Int
         /\ Distance(odom, Driven(odom, stick, n)) <= n
<1>1. CASE n = 1
  BY <1>1 DEF Commands, Driven, Distance
<1>2. CASE n = 2
  BY <1>2 DEF Commands, Driven, Distance
<1>. QED BY <1>1, <1>2

\* The path's longest leg stays short when the rover drives.
LEMMA MovedPath ==
  ASSUME TypeOK, PathIsDriven, UNCHANGED session,
         NEW stick \in Commands, NEW n \in {1, 2}, Moved(Driven(currOdom, stick, n))
  PROVE  currOdom' \in Poses /\ roverPath' \in Nat /\ PathIsDriven'
<1>1. currOdom \in Int
  BY DEF TypeOK, Poses
<1>. DEFINE d == Distance(currOdom, Driven(currOdom, stick, n))
<1>2. d \in Nat /\ d <= 2
  BY <1>1, DrivenNear DEF Distance
<1>3. roverPath' = IF d > roverPath THEN d ELSE roverPath
  BY DEF Moved
<1>4. currOdom' \in Poses
  BY DEF Moved
<1>. HIDE DEF d
<1>. QED BY <1>2, <1>3, <1>4 DEF TypeOK, PathIsDriven

\* A path that begins anew is short.
LEMMA PlacedPath ==
  ASSUME NEW odom, Placed(odom)
  PROVE  currOdom' \in Poses /\ roverPath' \in Nat /\ PathIsDriven'
BY DEF Placed, PathIsDriven

\* The start lies on the field.
LEMMA CentreIsAPose == 0 \in Poses /\ 0 \in Angles /\ 0 \in GimbalCmds /\ HB_MAX_MISSED + 1 \in Nat
BY SessionConstants DEF Poses, Angles, GimbalCmds

\* A step that leaves the heartbeat monitors and the dropping alone keeps what they
\* count; what is left is its own business.
LEMMA Apart ==
  ASSUME SInv, UNCHANGED <<beats, droppingRepeater, timers>>
  PROVE  OneDrop' /\ BeatsCount'
BY DEF SInv, OneDrop, BeatsCount, beats

\* At first no program was heard and nothing is dropped.
LEMMA InitOk == ASSUME Init PROVE SInv
<1>. USE DEF Init
<1>1. TypeOK
  <2>1. /\ pulse \in [Programs -> BOOLEAN] /\ connected \in [Programs -> BOOLEAN]
        /\ missedBeats \in [Programs -> 0 .. HB_MAX_MISSED]
        /\ quiet \in [Programs -> 0 .. HB_MAX_MISSED + 1]
    BY SessionConstants
  <2>2. told \in [auton : BOOLEAN, channels : SUBSET {"/odometry", "/obstacle", "/target_list",
                                                     "/rr_drop_complete"}]
    OBVIOUS
  <2>3. online \in BOOLEAN /\ autonOn \in BOOLEAN /\ paused \in BOOLEAN
        /\ simulateLoc \in BOOLEAN /\ simulatePercep \in BOOLEAN /\ droppingRepeater \in BOOLEAN
    OBVIOUS
  <2>. QED BY <2>1, <2>2, <2>3, CentreIsAPose DEF TypeOK, Commands
<1>2. OneDrop /\ PathIsDriven
  BY DEF OneDrop, PathIsDriven
<1>3. BeatsCount
  BY SessionConstants DEF BeatsCount
<1>. QED BY <1>1, <1>2, <1>3 DEF SInv

-------------------------------------------------------------------------------
(* The operator.                                                           *)

\* Steps of the operator leave the heartbeats alone; those that drive or put the rover
\* are the ones to look at.
LEMMA OperatorKeeps == ASSUME SInv, Operator PROVE SInv'
<1>. USE DEF SInv, mode, simulated, rover, gimbal, repeater
<1>0. /\ currOdom \in Int /\ startLoc \in Int /\ zedGimbalPos \in Int /\ zedGimbalCmd \in Int
      /\ 1 \in Nat /\ 2 \in Nat
  BY SessionConstants DEF TypeOK, Poses, Angles, GimbalCmds
<1>1. CASE FlipAutonState
  BY <1>1, Apart DEF FlipAutonState, TypeOK, PathIsDriven, beats
<1>2. CASE PausePlay
  <2>1. UNCHANGED <<session, beats, droppingRepeater, timers>>
    BY <1>2 DEF PausePlay
  <2>2. CASE paused
    <3>1. currOdom' \in Poses /\ roverPath' \in Nat /\ PathIsDriven'
      BY <1>2, <2>2, MovedPath DEF PausePlay, TypeOK
    <3>2. zedGimbalPos' \in Angles
      BY <1>0, <1>2, <2>2, TurnedInRange DEF PausePlay
    <3>. QED BY <1>2, <2>1, <3>1, <3>2, Apart DEF PausePlay, TypeOK, beats
  <2>3. CASE ~paused
    BY <1>2, <2>1, <2>3, Apart DEF PausePlay, TypeOK, PathIsDriven, beats
  <2>. QED BY <2>2, <2>3
<1>3. CASE TakeStep
  <2>1. currOdom' \in Poses /\ roverPath' \in Nat /\ PathIsDriven'
    BY <1>3, MovedPath DEF TakeStep, Stepped, TypeOK
  <2>2. zedGimbalPos' \in Angles
    BY <1>0, <1>3, TurnedInRange DEF TakeStep, Stepped
  <2>. QED BY <1>3, <2>1, <2>2, Apart DEF TakeStep, TypeOK, beats
<1>4. ASSUME NEW stick \in {-1, 1}, ManualDrive(stick) PROVE SInv'
  <2>0. stick \in Commands
    BY DEF Commands
  <2>1. currOdom' \in Poses /\ roverPath' \in Nat /\ PathIsDriven'
    BY <1>4, <2>0, MovedPath DEF ManualDrive, Stepped
  <2>2. zedGimbalPos' \in Angles /\ zedGimbalCmd' \in GimbalCmds
    BY <1>0, <1>4, TurnedInRange, SessionConstants
       DEF ManualDrive, Stepped, TypeOK, Angles, GimbalCmds
  <2>. QED BY <1>4, <2>0, <2>1, <2>2, Apart DEF ManualDrive, TypeOK, beats
<1>5. ASSUME NEW stick \in {-1, 1}, ManualGimbal(stick) PROVE SInv'
  <2>0. zedGimbalPos' \in Angles /\ zedGimbalCmd' = zedGimbalPos'
    BY <1>0, <1>5 DEF ManualGimbal, TypeOK
  <2>1. zedGimbalPos' \in Angles /\ zedGimbalCmd' \in GimbalCmds
    BY <2>0, SessionConstants DEF Angles, GimbalCmds
  <2>. QED BY <1>5, <2>1, Apart DEF ManualGimbal, TypeOK, PathIsDriven, beats
<1>6. CASE ResetRover
  <2>1. currOdom' \in Poses /\ roverPath' \in Nat /\ PathIsDriven'
    BY <1>6, PlacedPath DEF ResetRover
  <2>2. zedGimbalPos' \in Angles
    BY <1>0, <1>6, TurnedInRange, CentreIsAPose DEF ResetRover
  <2>. QED BY <1>6, <2>1, <2>2, Apart DEF ResetRover, TypeOK, beats
<1>7. ASSUME NEW odom \in Poses, MoveRover(odom) PROVE SInv'
  <2>1. currOdom' \in Poses /\ roverPath' \in Nat /\ PathIsDriven'
    BY <1>7, PlacedPath DEF MoveRover
  <2>. QED BY <1>7, <2>1, Apart DEF MoveRover, TypeOK, beats
<1>8. ASSUME NEW odom \in Poses, MoveStartLoc(odom) PROVE SInv'
  <2>1. currOdom' \in Poses /\ roverPath' \in Nat /\ PathIsDriven'
    BY <1>8, PlacedPath DEF MoveStartLoc
  <2>. QED BY <1>8, <2>1, Apart DEF MoveStartLoc, TypeOK, beats
<1>9. CASE UpdateStartLoc
  <2>1. currOdom' \in Poses /\ roverPath' \in Nat /\ PathIsDriven'
    BY <1>9, PlacedPath DEF UpdateStartLoc
  <2>. QED BY <1>9, <2>1, Apart DEF UpdateStartLoc, TypeOK, beats
<1>10. CASE FlipSimulateLoc
  BY <1>10, Apart DEF FlipSimulateLoc, TypeOK, PathIsDriven, beats
<1>13. CASE FlipSimulatePercep
  BY <1>13, Apart DEF FlipSimulatePercep, TypeOK, PathIsDriven, beats
<1>11. ASSUME NEW strength \in {"weak", "strong"}, SetRadioStrength(strength) PROVE SInv'
  BY <1>11, Apart DEF SetRadioStrength, TypeOK, PathIsDriven, beats
<1>12. ASSUME NEW loc \in {Nowhere, 0}, PutRepeater(loc) PROVE SInv'
  BY <1>12, Apart, CentreIsAPose DEF PutRepeater, TypeOK, PathIsDriven, beats
<1>. QED BY <1>1, <1>2, <1>3, <1>4, <1>5, <1>6, <1>7, <1>8, <1>9, <1>10, <1>11, <1>12, <1>13
     DEF Operator

-------------------------------------------------------------------------------
(* Messages and timers.                                                    *)

\* A program's message is its pulse.
LEMMA HeardKeeps ==
  ASSUME SInv, NEW p \in Programs, Heard(p)
  PROVE  /\ BeatsCount'
         /\ pulse' \in [Programs -> BOOLEAN] /\ quiet' \in [Programs -> 0 .. HB_MAX_MISSED + 1]
BY SessionConstants DEF SInv, TypeOK, BeatsCount, Heard

\* Messages keep the invariant; only a localization program may report a jump.
LEMMA MessageKeeps == ASSUME SInv, Message PROVE SInv'
<1>. USE DEF SInv, mode, simulated, rover, gimbal, repeater
<1>1. ASSUME NEW stick \in Commands, OnAutonomous(stick) PROVE SInv'
  <2>1. UNCHANGED <<session, beats, droppingRepeater, timers>>
    BY <1>1 DEF OnAutonomous, Unheard
  <2>2. currOdom' \in Poses /\ roverPath' \in Nat /\ PathIsDriven'
    <3>1. CASE paused
      BY <1>1, <3>1 DEF OnAutonomous, TypeOK, PathIsDriven
    <3>2. CASE ~paused
      BY <1>1, <3>2, MovedPath DEF OnAutonomous
    <3>. QED BY <3>1, <3>2
  <2>. QED BY <1>1, <2>1, <2>2, Apart DEF OnAutonomous, TypeOK, beats
<1>2. ASSUME NEW cmd \in GimbalCmds, OnZedGimbalCmd(cmd) PROVE SInv'
  <2>1. UNCHANGED <<session, beats, droppingRepeater, timers>>
    BY <1>2 DEF OnZedGimbalCmd, Unheard
  <2>2. zedGimbalPos \in Int /\ cmd \in Int /\ 1 \in Nat
    BY SessionConstants DEF TypeOK, Angles, GimbalCmds
  <2>3. zedGimbalPos' \in Angles
    BY <1>2, <2>2, TurnedInRange DEF OnZedGimbalCmd, TypeOK
  <2>. QED BY <1>2, <2>1, <2>3, Apart DEF OnZedGimbalCmd, TypeOK, PathIsDriven, beats
<1>3. CASE OnNavStatus \/ OnPerception
  <2>1. PICK p \in Programs : Heard(p)
    BY <1>3 DEF OnNavStatus, OnPerception, Programs
  <2>2. /\ BeatsCount'
        /\ pulse' \in [Programs -> BOOLEAN] /\ quiet' \in [Programs -> 0 .. HB_MAX_MISSED + 1]
    BY <2>1, HeardKeeps
  <2>3. UNCHANGED <<session, online, mode, simulated, rover, gimbal, repeater, told,
                    running, missedBeats, connected>>
    BY <1>3, <2>1 DEF OnNavStatus, OnPerception, Heard
  <2>. QED BY <2>2, <2>3 DEF TypeOK, OneDrop, PathIsDriven
<1>4. ASSUME NEW odom \in Poses, OnOdometry(odom) PROVE SInv'
  <2>1. /\ BeatsCount'
        /\ pulse' \in [Programs -> BOOLEAN] /\ quiet' \in [Programs -> 0 .. HB_MAX_MISSED + 1]
    BY <1>4, HeardKeeps DEF OnOdometry, Programs
  <2>2. currOdom' \in Poses /\ roverPath' \in Nat
    BY <1>4 DEF OnOdometry, Moved, Distance, TypeOK, Poses
  <2>3. PathIsDriven'
    BY <1>4 DEF OnOdometry, Uses, PathIsDriven
  <2>. QED BY <1>4, <2>1, <2>2, <2>3 DEF OnOdometry, Heard, TypeOK, OneDrop
<1>5. CASE OnDropInit
  BY <1>5 DEF OnDropInit, Unheard, beats, TypeOK, OneDrop, BeatsCount, PathIsDriven
<1>. QED BY <1>1, <1>2, <1>3, <1>4, <1>5 DEF Message

\* A check counts one more beat missed, or none after a pulse.
LEMMA CheckKeeps ==
  ASSUME SInv, NEW p \in Programs, CheckForPulse(p) PROVE SInv'
<1>. USE DEF SInv, CheckForPulse, Checked, mode, simulated, rover, gimbal, repeater
<1>1. MissedBeats(p) \in 0 .. HB_MAX_MISSED
  BY SessionConstants DEF MissedBeats, TypeOK
<1>2. TypeOK'
  <2>1. missedBeats' \in [Programs -> 0 .. HB_MAX_MISSED] /\ pulse' \in [Programs -> BOOLEAN]
    BY <1>1 DEF TypeOK
  <2>2. connected' \in [Programs -> BOOLEAN]
    <3>. DEFINE lit == MissedBeats(p) # HB_MAX_MISSED
    <3>1. lit \in BOOLEAN /\ connected' = [connected EXCEPT ![p] = lit]
      OBVIOUS
    <3>. HIDE DEF lit
    <3>. QED BY <3>1 DEF TypeOK
  <2>3. quiet' \in [Programs -> 0 .. HB_MAX_MISSED + 1]
    BY SessionConstants DEF TypeOK
  <2>. QED BY <2>1, <2>2, <2>3 DEF TypeOK
<1>3. BeatsCount'
  <2>1. /\ quiet[p] \in 0 .. HB_MAX_MISSED + 1 /\ missedBeats[p] \in 0 .. HB_MAX_MISSED
        /\ pulse[p] <=> quiet[p] = 0
        /\ quiet[p] # 0 => missedBeats[p] = quiet[p] - 1
    BY DEF TypeOK, BeatsCount
  <2>2. /\ quiet'[p] = IF quiet[p] <= HB_MAX_MISSED THEN quiet[p] + 1 ELSE quiet[p]
        /\ missedBeats'[p] = MissedBeats(p) /\ ~pulse'[p]
        /\ connected'[p] <=> MissedBeats(p) # HB_MAX_MISSED
    BY DEF TypeOK
  <2>3. quiet'[p] # 0 /\ missedBeats'[p] = quiet'[p] - 1
    BY <2>1, <2>2, SessionConstants DEF MissedBeats
  <2>4. \A q \in Programs \ {p} :
          /\ quiet'[q] = quiet[q] /\ missedBeats'[q] = missedBeats[q]
          /\ pulse'[q] = pulse[q] /\ connected'[q] = connected[q]
    BY DEF TypeOK
  <2>. QED BY <2>2, <2>3, <2>4 DEF BeatsCount
<1>. QED BY <1>2, <1>3 DEF OneDrop, PathIsDriven

\* Every step keeps the invariant.
LEMMA NextKeeps == ASSUME SInv, [Next]_vars PROVE SInv'
<1>. USE DEF mode, simulated, rover, gimbal, repeater
<1>1. CASE Operator
  BY <1>1, OperatorKeeps
<1>2. CASE Message
  BY <1>2, MessageKeeps
<1>3. CASE DropRepeater
  <2>1. timers = 1 /\ timers' = 0 /\ droppingRepeater' = FALSE
    BY <1>3 DEF DropRepeater, SInv, OneDrop
  <2>2. TypeOK'
    <3>1. repeaterLoc' \in Poses /\ radio' = "strong" /\ droppingRepeater' \in BOOLEAN
      BY <1>3, <2>1 DEF DropRepeater, SInv, TypeOK
    <3>2. UNCHANGED <<session, online, mode, simulated, rover, gimbal, beats, told>>
      BY <1>3 DEF DropRepeater
    <3>. QED BY <2>1, <3>1, <3>2 DEF SInv, TypeOK, beats
  <2>3. OneDrop' /\ BeatsCount' /\ PathIsDriven'
    <3>1. UNCHANGED <<session, beats, roverPath>>
      BY <1>3 DEF DropRepeater
    <3>. QED BY <2>1, <3>1 DEF SInv, OneDrop, BeatsCount, PathIsDriven, beats
  <2>. QED BY <2>2, <2>3 DEF SInv
<1>4. CASE Publish
  <2>1. Outgoing \in [auton : BOOLEAN, channels : SUBSET {"/odometry", "/obstacle",
                                                         "/target_list", "/rr_drop_complete"}]
    BY DEF Outgoing, SInv, TypeOK
  <2>. QED BY <1>4, <2>1, Apart DEF Publish, SInv, TypeOK, PathIsDriven, beats
<1>5. CASE SocketOpens \/ SocketCloses
  BY <1>5, Apart DEF SocketOpens, SocketCloses, SInv, TypeOK, PathIsDriven, beats
<1>6. ASSUME NEW p \in Programs, CheckForPulse(p) PROVE SInv'
  BY <1>6, CheckKeeps
<1>7. ASSUME NEW p \in Programs, StartOrStop(p) PROVE SInv'
  BY <1>7 DEF StartOrStop, SInv, TypeOK, OneDrop, BeatsCount, PathIsDriven
<1>8. CASE UNCHANGED vars
  BY <1>8, Apart DEF vars, SInv, TypeOK, PathIsDriven, beats
<1>. QED BY <1>1, <1>2, <1>3, <1>4, <1>5, <1>6, <1>7, <1>8 DEF Next

-------------------------------------------------------------------------------
\* The inductive invariant holds of every session.
THEOREM Invariant == Spec => []SInv
BY InitOk, NextKeeps, PTL DEF Spec

\* Every variable keeps its type; the gimbal stays within its limits.
THEOREM TypeCorrect == Spec => []TypeOK
BY Invariant, PTL DEF SInv

\* The repeater is dropped once for a request, however often it is repeated.
THEOREM DropsOnce == Spec => []OneDrop
BY Invariant, PTL DEF SInv

\* A connection light is lit exactly when its program was heard lately.
THEOREM LightsAreTrue == Spec => []LightIsTrue
<1>1. SInv => LightIsTrue
  BY SessionConstants DEF SInv, TypeOK, BeatsCount, LightIsTrue
<1>. QED BY <1>1, Invariant, PTL

\* Without a localization program the path drawn is one the rover drove.
THEOREM PathsAreDriven == Spec => []PathIsDriven
BY Invariant, PTL DEF SInv
===============================================================================
