------------------------------ MODULE SimSession ------------------------------
(***************************************************************************)
(* simulators/nav: a session of the navigation simulator.  The operator    *)
(* drives, pauses, resets and moves the rover; navigation, localization    *)
(* and perception send LCM messages through the LCM bridge; timers publish *)
(* messages, look for heartbeats and drop the radio repeater.              *)
(*                                                                         *)
(* A step is one task of the browser's event loop: a key, a click, a       *)
(* message or a timer, with the Vue watchers it sets off and the redrawing *)
(* of the field that ends it.                                              *)
(*                                                                         *)
(* A pose is a place on a line.  A joystick command moves the rover one    *)
(* place (-1, 1) or not at all (0): driving and turning are not told       *)
(* apart.  The ZED gimbal turns by one notch at a time.                    *)
(***************************************************************************)
EXTENDS Integers, FiniteSets

CONSTANTS
  Reach,          \* bound: the poses are -Reach .. Reach
  GimbalMax,      \* ZED.gimbal: the gimbal turns within -GimbalMax .. GimbalMax
  HB_MAX_MISSED,  \* checks without a pulse until a program counts as dead
  Nowhere,        \* repeaterLoc: null
  Sessions        \* bound: what is used in a session, as sets of Features

Features ==
  {"drive", "gimbal", "localization", "perception", "repeater", "bridge", "heartbeat"}

Poses == -Reach .. Reach
Commands == {-1, 0, 1}
Angles == -GimbalMax .. GimbalMax
GimbalCmds == -(GimbalMax + 1) .. GimbalMax + 1
Programs == {"nav", "localization", "perception"}

ASSUME SessionConstants ==
  /\ Reach \in Nat \ {0} /\ GimbalMax \in Nat /\ HB_MAX_MISSED \in Nat \ {0}
  /\ Nowhere \notin Int
  /\ Sessions \subseteq SUBSET Features

VARIABLES
  session,                          \* the features in use
  online,                           \* the websocket of the LCM bridge client is open
  autonOn, paused,
  simulateLoc, simulatePercep,
  currOdom, startLoc, joystick,
  zedGimbalPos, zedGimbalCmd,
  roverPath,                        \* the longest leg of the path drawn, in places
  repeaterLoc, droppingRepeater,
  timers,                           \* pending timeouts of dropRepeater
  radio,                            \* radioSignalStrength
  running,                          \* programs that are up (environment)
  pulse, missedBeats, connected,    \* of each program
  quiet,                            \* history: checks since a program was last heard
  told                              \* what the LCM network was last told

mode == <<autonOn, paused>>
simulated == <<simulateLoc, simulatePercep>>
rover == <<currOdom, startLoc, joystick, roverPath>>
gimbal == <<zedGimbalPos, zedGimbalCmd>>
repeater == <<repeaterLoc, droppingRepeater, timers, radio>>
beats == <<running, pulse, missedBeats, connected, quiet>>
vars == <<session, online, mode, simulated, rover, gimbal, repeater, beats, told>>

Uses(feature) == feature \in session

Distance(a, b) == IF a < b THEN b - a ELSE a - b

\* What the publish interval tells the network in the present state.
Outgoing ==
  [auton |-> autonOn,
   channels |-> (IF simulateLoc THEN {"/odometry"} ELSE {})
                \cup (IF simulatePercep THEN {"/obstacle", "/target_list"} ELSE {})
                \cup (IF repeaterLoc # Nowhere THEN {"/rr_drop_complete"} ELSE {})]

Init ==
  /\ session \in Sessions
  /\ online = FALSE
  /\ autonOn = FALSE /\ paused = FALSE
  /\ simulateLoc = TRUE /\ simulatePercep = TRUE
  /\ currOdom = 0 /\ startLoc = 0 /\ joystick = 0
  /\ zedGimbalPos = 0 /\ zedGimbalCmd = 0
  /\ roverPath = 0
  /\ repeaterLoc = Nowhere /\ droppingRepeater = FALSE /\ timers = 0 /\ radio = "strong"
  /\ running = {}
  /\ pulse = [p \in Programs |-> FALSE]
  /\ missedBeats = [p \in Programs |-> HB_MAX_MISSED]
  /\ connected = [p \in Programs |-> FALSE]
  /\ quiet = [p \in Programs |-> HB_MAX_MISSED + 1]
  /\ told = [auton |-> FALSE, channels |-> {}]

-------------------------------------------------------------------------------
(* Moving and drawing the rover.                                           *)

\* applyJoystickCmd, n times: the rover moves only when localization is simulated.
Driven(odom, stick, n) == IF simulateLoc THEN odom + n * stick ELSE odom

\* Mutant: the limits of the gimbal are not looked at.
TurnedAtWill(pos, cmd, n) ==
  IF Distance(pos, cmd) <= n THEN cmd ELSE IF pos < cmd THEN pos + n ELSE pos - n

\* applyZedGimbalCmd, n times: towards the command, within the gimbal's limits.
Turned(pos, cmd, n) ==
  LET angle == IF Distance(pos, cmd) <= n THEN cmd ELSE IF pos < cmd THEN pos + n ELSE pos - n
  IN  IF angle < -GimbalMax THEN -GimbalMax
      ELSE IF angle > GimbalMax THEN GimbalMax ELSE angle

\* The redrawn rover adds its pose to the path ...
Moved(odom) ==
  /\ odom \in Poses
  /\ currOdom' = odom
  /\ roverPath' = IF Distance(currOdom, odom) > roverPath
                  THEN Distance(currOdom, odom) ELSE roverPath

\* Mutant: the path goes on wherever the rover is put.
PlacedOnPath(odom) == Moved(odom)

\* ... or begins it, when the path was cleared in the same task.
Placed(odom) == odom \in Poses /\ currOdom' = odom /\ roverPath' = 0

-------------------------------------------------------------------------------
(* The operator.                                                           *)

\* flipAutonState, and the click on AutonStateLCM
FlipAutonState ==
  /\ Uses("drive")
  /\ autonOn' = ~autonOn
  /\ UNCHANGED <<session, online, paused, simulated, rover, gimbal, repeater, beats, told>>

\* Playing on applies the joystick and gimbal commands there are.
PausePlay ==
  /\ Uses("drive")
  /\ paused' = ~paused
  /\ IF paused
     THEN /\ Moved(Driven(currOdom, joystick, 1))
          /\ zedGimbalPos' = Turned(zedGimbalPos, zedGimbalCmd, 1)
     ELSE UNCHANGED <<currOdom, roverPath, zedGimbalPos>>
  /\ UNCHANGED <<session, online, autonOn, simulated, startLoc, joystick, zedGimbalCmd,
                 repeater, beats, told>>

\* onTakeStep watches takeStep: its own setTakeStep(false) calls it once more.
Stepped(stick, cmd) ==
  /\ Moved(Driven(currOdom, stick, 2))
  /\ zedGimbalPos' = Turned(zedGimbalPos, cmd, 2)

TakeStep ==
  /\ Uses("drive")
  /\ paused
  /\ Stepped(joystick, zedGimbalCmd)
  /\ UNCHANGED <<session, online, mode, simulated, startLoc, joystick, zedGimbalCmd,
                 repeater, beats, told>>

ManualDrive(stick) ==
  /\ Uses("drive")
  /\ ~autonOn \/ paused
  /\ joystick' = stick
  /\ zedGimbalCmd' = zedGimbalPos
  /\ Stepped(stick, zedGimbalPos)
  /\ UNCHANGED <<session, online, mode, simulated, startLoc, repeater, beats, told>>

\* manualGimbal, up to the limits
ManualGimbal(turn) ==
  LET angle == IF zedGimbalPos + turn \in Angles THEN zedGimbalPos + turn ELSE zedGimbalPos
  IN  /\ Uses("gimbal")
      /\ ~autonOn \/ paused
      /\ zedGimbalPos' = angle
      /\ zedGimbalCmd' = angle
      /\ UNCHANGED <<session, online, mode, simulated, rover, repeater, beats, told>>

\* resetRover.  Unpausing sets off onUnpause, after the rover was put back.
ResetRover ==
  /\ Uses("drive")
  /\ autonOn' = FALSE
  /\ paused' = FALSE
  /\ Placed(IF paused THEN Driven(startLoc, joystick, 1) ELSE startLoc)
  /\ zedGimbalPos' = IF paused THEN Turned(0, zedGimbalCmd, 1) ELSE 0
  /\ UNCHANGED <<session, online, simulated, startLoc, joystick, zedGimbalCmd,
                 repeater, beats, told>>

\* A click on the field in the mode MOVE_ROVER
MoveRover(odom) ==
  /\ Uses("drive")
  /\ ~autonOn
  /\ Placed(odom)
  /\ UNCHANGED <<session, online, mode, simulated, startLoc, joystick, gimbal, repeater,
                 beats, told>>

\* moveStartLoc by a double click, resetStartLoc by a key (to the centre, 0)
MoveStartLoc(odom) ==
  /\ Uses("drive")
  /\ ~autonOn
  /\ startLoc' = odom
  /\ Placed(odom)
  /\ UNCHANGED <<session, online, mode, simulated, joystick, gimbal, repeater, beats, told>>

UpdateStartLoc ==
  /\ Uses("drive")
  /\ ~autonOn
  /\ startLoc' = currOdom
  /\ Placed(currOdom)
  /\ UNCHANGED <<session, online, mode, simulated, joystick, gimbal, repeater, beats, told>>

FlipSimulateLoc ==
  /\ Uses("localization")
  /\ simulateLoc' = ~simulateLoc
  /\ UNCHANGED <<session, online, mode, simulatePercep, rover, gimbal, repeater, beats, told>>

FlipSimulatePercep ==
  /\ Uses("perception")
  /\ simulatePercep' = ~simulatePercep
  /\ UNCHANGED <<session, online, mode, simulateLoc, rover, gimbal, repeater, beats, told>>

\* RadioRepeaterLCM: updateSignalStrength
SetRadioStrength(strength) ==
  /\ Uses("repeater")
  /\ radio' = strength
  /\ UNCHANGED <<session, online, mode, simulated, rover, gimbal, repeaterLoc,
                 droppingRepeater, timers, beats, told>>

\* FieldItems: the repeater is cleared (loc = Nowhere), or a test case is
\* uploaded, with a repeater or without.
PutRepeater(loc) ==
  /\ Uses("repeater")
  /\ repeaterLoc' = loc
  /\ UNCHANGED <<session, online, mode, simulated, rover, gimbal, droppingRepeater, timers,
                 radio, beats, told>>

Operator ==
  \/ FlipAutonState \/ PausePlay \/ TakeStep \/ ResetRover \/ UpdateStartLoc
  \/ \E stick \in {-1, 1} : ManualDrive(stick) \/ ManualGimbal(stick)
  \/ \E odom \in Poses : MoveRover(odom) \/ MoveStartLoc(odom)
  \/ FlipSimulateLoc \/ FlipSimulatePercep
  \/ \E strength \in {"weak", "strong"} : SetRadioStrength(strength)
  \/ \E loc \in {Nowhere, 0} : PutRepeater(loc)

-------------------------------------------------------------------------------
(* Messages.  The first word of a program after a check is its pulse.      *)

Heard(program) ==
  /\ online
  /\ program \in running
  /\ pulse' = [pulse EXCEPT ![program] = TRUE]
  /\ quiet' = [quiet EXCEPT ![program] = 0]
  /\ UNCHANGED <<running, missedBeats, connected>>

\* A message that is no sign of life, or one of a program that is simulated.
Unheard == online /\ UNCHANGED beats

\* /autonomous: the joystick command is kept, and applied unless paused.
OnAutonomous(stick) ==
  /\ Uses("drive")
  /\ Unheard
  /\ joystick' = stick
  /\ IF paused THEN UNCHANGED <<currOdom, roverPath>> ELSE Moved(Driven(currOdom, stick, 1))
  /\ UNCHANGED <<session, online, mode, simulated, startLoc, gimbal, repeater, told>>

OnZedGimbalCmd(cmd) ==
  /\ Uses("gimbal")
  /\ Unheard
  /\ zedGimbalCmd' = cmd
  /\ zedGimbalPos' = IF paused THEN zedGimbalPos ELSE Turned(zedGimbalPos, cmd, 1)
  /\ UNCHANGED <<session, online, mode, simulated, rover, repeater, told>>

OnNavStatus ==
  /\ Uses("heartbeat")
  /\ Heard("nav")
  /\ UNCHANGED <<session, online, mode, simulated, rover, gimbal, repeater, told>>

\* /odometry counts only while localization is not simulated.
OnOdometry(odom) ==
  /\ Uses("localization")
  /\ ~simulateLoc
  /\ Heard("localization")
  /\ Moved(odom)
  /\ UNCHANGED <<session, online, mode, simulated, startLoc, joystick, gimbal, repeater, told>>

\* /obstacle and /target_list: what they say is in SimPerception.
OnPerception ==
  /\ Uses("perception")
  /\ ~simulatePercep
  /\ Heard("perception")
  /\ UNCHANGED <<session, online, mode, simulated, rover, gimbal, repeater, told>>

\* Mutant: a request is taken although the repeater is being dropped.
OnEveryDropInit ==
  /\ Uses("repeater")
  /\ Unheard
  /\ repeaterLoc = Nowhere
  /\ droppingRepeater' = TRUE
  /\ timers' = timers + 1
  /\ UNCHANGED <<session, online, mode, simulated, rover, gimbal, repeaterLoc, radio, told>>

\* /rr_drop_init, which navigation sends again and again until it is answered
OnDropInit ==
  /\ Uses("repeater")
  /\ Unheard
  /\ repeaterLoc = Nowhere /\ ~droppingRepeater
  /\ droppingRepeater' = TRUE
  /\ timers' = timers + 1
  /\ UNCHANGED <<session, online, mode, simulated, rover, gimbal, repeaterLoc, radio, told>>

Message ==
  \/ \E stick \in Commands : OnAutonomous(stick)
  \/ \E cmd \in GimbalCmds : OnZedGimbalCmd(cmd)
  \/ OnNavStatus \/ OnPerception \/ OnDropInit
  \/ \E odom \in Poses : OnOdometry(odom)

-------------------------------------------------------------------------------
(* Timers, the socket, and the other programs.                             *)

\* Two seconds after /rr_drop_init, wherever the rover is by then
DropRepeater ==
  /\ timers > 0
  /\ timers' = timers - 1
  /\ repeaterLoc' = currOdom
  /\ droppingRepeater' = FALSE
  /\ radio' = "strong"
  /\ UNCHANGED <<session, online, mode, simulated, rover, gimbal, beats, told>>

\* The number of checks a program has missed, after one more.
MissedBeats(program) ==
  IF pulse[program] THEN 0
  ELSE IF missedBeats[program] < HB_MAX_MISSED
       THEN missedBeats[program] + 1 ELSE HB_MAX_MISSED

Checked(program) ==
  /\ quiet' = [quiet EXCEPT ![program] = IF @ <= HB_MAX_MISSED THEN @ + 1 ELSE @]
  /\ UNCHANGED <<session, online, mode, simulated, rover, gimbal, repeater, running, told>>

\* Mutant: the pulse is not reset.
CheckForOldPulse(program) ==
  /\ Uses("heartbeat")
  /\ missedBeats' = [missedBeats EXCEPT ![program] = MissedBeats(program)]
  /\ connected' = [connected EXCEPT ![program] = MissedBeats(program) # HB_MAX_MISSED]
  /\ UNCHANGED pulse
  /\ Checked(program)

\* checkForPulse of the program's HeartbeatMonitor
CheckForPulse(program) ==
  /\ Uses("heartbeat")
  /\ missedBeats' = [missedBeats EXCEPT ![program] = MissedBeats(program)]
  /\ pulse' = [pulse EXCEPT ![program] = FALSE]
  /\ connected' = [connected EXCEPT ![program] = MissedBeats(program) # HB_MAX_MISSED]
  /\ Checked(program)

\* Mutant: nothing is published while the simulator is paused.
PublishPlaying ==
  /\ Uses("bridge")
  /\ online /\ ~paused
  /\ told' = Outgoing
  /\ UNCHANGED <<session, online, mode, simulated, rover, gimbal, repeater, beats>>

\* The publish interval: without the bridge the messages are lost.
Publish ==
  /\ Uses("bridge")
  /\ online
  /\ told' = Outgoing
  /\ UNCHANGED <<session, online, mode, simulated, rover, gimbal, repeater, beats>>

SocketOpens ==
  /\ ~online
  /\ online' = TRUE
  /\ UNCHANGED <<session, mode, simulated, rover, gimbal, repeater, beats, told>>

SocketCloses ==
  /\ Uses("bridge")
  /\ online
  /\ online' = FALSE
  /\ UNCHANGED <<session, mode, simulated, rover, gimbal, repeater, beats, told>>

StartOrStop(program) ==
  /\ Uses("heartbeat")
  /\ \/ running' = running \cup {program}
     \/ running' = running \ {program}
  /\ UNCHANGED <<session, online, mode, simulated, rover, gimbal, repeater, pulse,
                 missedBeats, connected, quiet, told>>

Next ==
  \/ Operator
  \/ Message
  \/ DropRepeater \/ Publish \/ SocketOpens \/ SocketCloses
  \/ \E program \in Programs : CheckForPulse(program) \/ StartOrStop(program)

Spec == Init /\ [][Next]_vars

\* The browser runs its timers, and the bridge client tries to connect again.
Fairness ==
  /\ WF_vars(DropRepeater)
  /\ WF_vars(Publish)
  /\ WF_vars(SocketOpens)
  /\ \A program \in Programs : WF_vars(CheckForPulse(program))

FairSpec == Spec /\ Fairness
===============================================================================
