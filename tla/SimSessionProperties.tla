------------------------- MODULE SimSessionProperties -------------------------
(***************************************************************************)
(* What is checked and proved of a simulator session.                      *)
(***************************************************************************)
EXTENDS SimSession

\* Every variable has its type; the gimbal keeps within its limits whatever it
\* is commanded.
TypeOK ==
  /\ session \in Sessions
  /\ online \in BOOLEAN
  /\ autonOn \in BOOLEAN /\ paused \in BOOLEAN
  /\ simulateLoc \in BOOLEAN /\ simulatePercep \in BOOLEAN
  /\ currOdom \in Poses /\ startLoc \in Poses /\ joystick \in Commands
  /\ zedGimbalPos \in Angles /\ zedGimbalCmd \in GimbalCmds
  /\ roverPath \in Nat
  /\ repeaterLoc \in Poses \cup {Nowhere} /\ droppingRepeater \in BOOLEAN
  /\ timers \in Nat /\ radio \in {"weak", "strong"}
  /\ running \subseteq Programs
  /\ pulse \in [Programs -> BOOLEAN]
  /\ missedBeats \in [Programs -> 0 .. HB_MAX_MISSED]
  /\ connected \in [Programs -> BOOLEAN]
  /\ quiet \in [Programs -> 0 .. HB_MAX_MISSED + 1]
  /\ told \in [auton : BOOLEAN,
               channels : SUBSET {"/odometry", "/obstacle", "/target_list",
                                  "/rr_drop_complete"}]

\* However often navigation asks for the repeater while the timeout runs, one
\* timeout is pending: the repeater is not dropped a second time, elsewhere.
OneDrop == timers = IF droppingRepeater THEN 1 ELSE 0

\* A connection light tells the truth both ways: it is lit when, and only when,
\* the program was heard within the last HB_MAX_MISSED checks.  (A program just
\* heard, quiet = 0, is shown at the next check.)
LightIsTrue ==
  \A p \in Programs :
    /\ connected[p] => quiet[p] <= HB_MAX_MISSED
    /\ quiet[p] \in 1 .. HB_MAX_MISSED => connected[p]

\* The path on the field is one the rover drove: putting the rover elsewhere,
\* in any mode and also while paused with a command pending, begins a new path.
\* (A localization program may report any jump.)
PathIsDriven == "localization" \notin session => roverPath <= 2

\* /rr_drop_init is answered: the repeater is dropped.  And while the bridge stays up
\* navigation hears of it, as of every order that stands: what the state stays at is
\* what the network is told last.
OrdersArrive ==
  /\ droppingRepeater ~> (repeaterLoc # Nowhere /\ ~droppingRepeater)
  /\ <>[](online /\ repeaterLoc # Nowhere /\ Uses("bridge"))
       => <>[]("/rr_drop_complete" \in told.channels)
  /\ <>[](online /\ ~autonOn /\ Uses("bridge")) => <>[](~told.auton)

\* components/hotkeys.md:16: shift+r is to "turn off the rover and move it to the
\* starting location"; DebugTools.vue:292, to reset it "to the starting state".
ResetIsAtStart == [][ResetRover => currOdom' = startLoc]_vars

\* components/hotkeys.md: a step, and a manual drive command, "apply a single
\* joystick command".
StepIsOneCommand ==
  [][TakeStep \/ (\E stick \in {-1, 1} : ManualDrive(stick))
       => Distance(currOdom, currOdom') <= 1]_vars
===============================================================================
