# Verification of the MRover workspace

TLA+ models of the MRover 2021 software (`src/`), the TLC runs that check them and
the theorems that TLAPS proves about them. Paths below are relative to `src/`.

## 1. Inventory

The rover runs several programs that talk over LCM, a multicast message bus that may
lose messages. A base station reaches it over a radio link through a web-socket bridge.

| part | state it keeps | operations | hard behaviour |
|---|---|---|---|
| `jetson/nav` | navigation state, path, two copies of the status, search and gate points, static locals in four functions | one LCM handler per channel, `StateMachine::run` after each | data frozen over a change of state, state left behind by interrupted legs, switching off at any time |
| `jetson/odrive_bridge` | state object, two speeds, two locks, watchdog, USB handle | state and velocity commands (LCM thread), `update` (main thread) | two threads, exceptions inside lock regions, USB disconnection, watchdog |
| `jetson/teleop` | kill switch, connection | joystick, autonomy, arm callbacks | several sources for one command channel, loss of connection |
| `rover_common/heartbeatlib` | connected flag on both sides | answer a heartbeat, time out | lost messages, sides that disagree |
| `lcm_bridge` | web-socket connections, home page | connect, close, subscribe, send kills | several pages, order of closing |
| `jetson/nucleo_bridge` | live map, angles | incoming and outgoing thread | shared I2C bus without a mutex |
| `pi_zeroes/video` | pipeline, picture flag, quality | camera, settings, picture callbacks, monitor | pipeline absent when stopped |
| `jetson/kinematics` | arm state, spline, execute flag | plan, preview, execute | plan replaced while executed |
| `jetson/filter` | last sensor readings | sensor callbacks, publish loop | stale or missing readings |
| `jetson/science_controls` | busy sites | start a test | two tests sharing devices |
| `jetson/percep` | camera and point cloud | publish targets and obstacle | numerical |
| `base_station/gui`: task pages | store of the session, components of the open page, their timers and connections | open a page, click, press, drag; publish `/auton` and `/course` every 100 ms | a page is opened before the old one is destroyed; timers and connections outlive pages; boxes start afresh while the store does not |
| `simulators/nav`: session | poses, path, gimbal, joystick, lights, repeater timeout | messages in, pause, step, reset, drive, publish every 100 ms | orders while paused, a bridge that comes and goes, a timeout that is pending |
| `simulators/nav`: field | draw mode and options, lists of items, files, heights of the lists | draw, edit, drag, clear, upload, collapse, hold a key | keys held over a change of mode, files that arrive late, heights measured at the wrong time |
| `simulators/nav`: perception | detectors' copies of what they see, two messages | watchers of pose, gimbal, view and field | copies that fall behind, an exception that ends a watcher, case analyses |
| drivers, services, tools | – | read a device, publish | pure input and output |

Interaction around navigation: perception publishes `/obstacle` and `/target_list`, the
filter `/odometry`, the base station `/auton`, `/course`, the radio service
`/radio_signal_strength`, the repeater drop `/rr_drop_complete`. Navigation publishes
`/autonomous` (joystick), `/nav_status` and `/rr_drop_init`; teleop turns `/autonomous`
into `/drive_vel_cmd`, which the ODrive bridge hands to the motors.

What makes each part correct:

* nav: the legs of the course are driven in order and counted once; no handler takes the
  front of an empty path or list, or acts on a bearing, point or post that was never
  stored; off stops the rover; a search belongs to its waypoint.
* odrive_bridge: no thread waits for ever for a lock; a disarmed or silent controller
  does not move; every state it publishes is one the device is in.
* teleop, heartbeats, bridge: a killed or disconnected rover is not driven by joystick;
  the kill switch survives a reconnection.
* nucleo_bridge: a transaction reaches the controller it was made for.
* video: the picture and the stream exclude one another and the stream comes back.
* arm: a path is executed only after it was planned for the present goal.
* GUI task pages: what a page shows is what the store holds and what the rover was told;
  a page that is gone does not go on talking.
* simulator session: a light tells who is running; an order that stands arrives; the path
  is one the rover drove; one request is one drop.
* simulator field: what is drawn, edited or uploaded is a field navigation can be given,
  and the page can always be left in a mode to draw in.
* simulator perception: every message is that of the present field, pose and view, and the
  case analyses agree with geometry.

`PROJECT.json` lists every part with its status, and the hazards of the modelled ones at
their lines.

## 2. Plan

1. **Navigation** (done): `NavRover` → `NavAvoidance`, `NavGate` → `NavSearch` →
   `NavStateMachine`, composed in that order by EXTENDS, because the C++ classes share
   the rover's status and call one another. Abstract specification `NavCourse`.
   Proofs in `NavProofs`.
2. **ODrive bridge** (done): `OdriveBridge` has a program counter per thread, the two
   locks, the device that may disappear between any two steps, and the watchdog. Abstract
   specification `OdriveDiagram`: the state diagram of the README. Proofs in
   `OdriveProofs`: type correctness, a disarmed drive is idle, the refinement.
3. **Navigation simulator** (done), the navigation program's test bed, in three modules
   that share no variable: `SimSession` (time, messages, programs), `SimField` (the
   operator's field) and `SimPerception`, which uses `OpenIntervals` (the interval heap)
   and `ZedGeometry` (the case analyses). Proofs in `SimSessionProofs`, `SimFieldProofs`,
   `OpenIntervalsProofs`, `SimPerceptionProofs`, `ZedGeometryProofs`.
4. **GUI task pages** (done): `GuiDashboard`, proofs in `GuiDashboardProofs`.
5. **Drive safety** (left): teleop, both heartbeaters over a lossy channel and the bridge
   server's home page, composed; the abstract specification is a kill switch. Proofs: the
   rover-side invariants.
6. **Nucleo bridge** (left): two threads on one bus.
7. **Video**, **arm execution**, **filter**, **science tests** (left): one small module each.

The simulator and the task pages came before the drive safety because they hold most of
the stateful code that is not numerical.

Worth proving later: the message copies of `SimSession`; the invariants of 5.

Each part has the same layout: the model, `...Properties` with what is checked, `MC...`
with the small instance for TLC, `...Proofs`. A cfg that belongs to no run of `PROJECT.json`
is run by hand, for example `tlc -config off_not_obeyed.cfg MCNav`. It shows one of the
disagreements below, and TLC is expected to report the property violated; but `nav_freeze`
passes.

## 3. Navigation

### One step

`main.cpp` loops over `lcm.handle()`, which runs one handler, and `StateMachine::run()`.
A step of `NavStateMachine` is one turn of that loop: `HandleStatus` puts a message in
the inbox (`mNewRoverStatus`) and runs; `HandleRepeaterDropComplete` sets the flag and
runs. There is one thread, so nothing interleaves inside a step.

`Run` has one disjunct per way through `isRoverReady` and `updateRover`:

| disjunct | code |
|---|---|
| `RunOnSameData` | `mStateChanged`: `updateRover` is short-circuited, the handler runs on the old status |
| `RunOnNews` | on, and a reading differs: readings copied, handler runs |
| `SwitchOff` | on to off: only the auton state is copied |
| `SwitchOn` | off to on: everything is copied, the course starts |
| `RunOnNothing` | nothing new: only the waiting states run |

`Execute` is the switch of `run`; every state has an action named after its handler
(`ExecuteSearchSpin`, `ExecuteGateShimmy`, …) in the module of the file that holds it.
Handlers read the primed status, as the C++ reads it after `updateRover`.

### State

| variable | code |
|---|---|
| `state`, `stateChanged`, `completed`, `total` | `mCurrentState`, `mStateChanged`, `mCompletedWaypoints`, `mTotalWaypoints` |
| `auton`, `course`, `path`, `obstacle`, `target`, `target2` | the rover's `RoverStatus` |
| `inbox` | `mNewRoverStatus` |
| `view` | what the present odometry says of the point the rover heads for |
| `command` | kind of the last joystick message |
| `timeToDrop`, `lowTimer`, `dropComplete` | the repeater timer and flags |
| `searcher`, `searchPoints`, `searchSpin`, `searchWaiting`, `anglesSet`, `searchFails` | search object, its points, static locals |
| `gatePoints`, `gateSpin`, `gateWaiting`, `post1`, `post2`, `correctDir` | gate object, its points, static locals |
| `originalObstacle`, `avoidancePoint` | avoidance object |

### Abstractions

* Geometry is reduced to what handlers compare: a point is near or not, and the bearing
  to it is within `turningBearing` (`facing`), within `drivingBearing` (`skewed`) or
  neither (`away`). `view` is chosen afresh when new numbers are copied or the rover
  heads for another point, and only then: a handler that runs twice on frozen data gets
  the same answers. In states that look at no point one canonical view stands for all.
* `inbox.moved` says that the odometry, or a number behind a reading, is new.
* A spin counts its stops, a pattern its points. Waits and timers may end in any later
  step once started; they cannot end in the step that starts them.
* LCM structures without initial values (`mNewRoverStatus`) hold any reading at first.
  Searching for the `hash` of a course is left out: a course with another hash is
  another course.
* `Exit` is the death of the process (an index out of range).
* Left out: which way the rover turns around an obstacle (`mJustDetectedObstacle`,
  `mLastObstacleAngle`), in which direction the shimmy drives, PID state, the states
  `SearchFaceNorth` and `Unknown` that nothing enters, `pathTargets`, the halving of
  `visionDistance`. The bearing of an obstacle is taken as non-zero, and a pattern as
  having a point, since `visionDistance` is below `bailThresh` in the configuration.

### Runs

All runs of this section instantiate the model in `MCNav`; `CHECK_DEADLOCK FALSE` only where
the process may die (`Exit`).

| run | shows | bounds |
|---|---|---|
| `nav_search` | types, legs match the course, no handler takes a point that is not there | one search leg, four target readings, three obstacle readings, patterns of two points, spin of one stop |
| `nav_gate` | no post, angle or point is read that was never stored; a leg is completed only at its end | one gate, two posts, every look of the gate |
| `nav_search_off` | off stops the rover and is obeyed, progress adds up, data is not frozen for good | the same leg, switched on and off, fewer readings, one pattern |
| `nav_repeater` | one drop point, the drop is not counted, the course abstraction is implemented | courses of one and two plain legs, signal good/low, reports at any time, on and off, no obstacles |

The bounds keep every branch reachable: two waypoints are enough for a leg that follows
another, two posts for a gate, two patterns for the wrap-around of `searchFails`, one stop
for the beginning, middle and end of a spin. Each run that passes has a mutant per
property (`PROJECT.json`), and TLC finds the property violated for each.

`nav_freeze.cfg` is for running by hand: it checks the properties of `NavFreeze` on a course
with a plain and a search leg, a repeater to drop, and near and far obstacles.

### Disagreements found

`stale_second_target` is a run that is expected to fail; `PROJECT.json` quotes the lines.
The other two have a cfg to be run by hand with `MCNav`.

| cfg | what happens |
|---|---|
| `off_not_obeyed` | GateFace and GateShimmy alternate, `mStateChanged` stays true and off is never read |
| `two_drop_points` | a detour on the way to the drop point adds it again |
| `stale_second_target` | `mTarget2` is not copied; a second post nobody sees is stored |

Others are in the model, because it follows the code, without a run of their own:

* `rover.cpp:276` says that a good signal stops the low-signal timer; `updateRepeater`
  never stops it (`UpdateRepeater`).
* `stateMachine.cpp:524` takes the last waypoint "where signal was good"; with no
  completed waypoint the index is -1 (`AddRepeaterDropPoint`, which ends in `Exit`).
* `nextStop` of a spin that a target broke off stays, so the next spin, at another
  waypoint, is taken up in the middle (`searchSpin`, never reset by `FoundTarget`).
* `started` of a wait stays likewise: the next wait is entered as already started, without
  a stop (`searchWaiting`).
* Switching off keeps `mSearchPoints`: after off and on, what is left of the old pattern is
  driven at the next search waypoint (`ExecuteOff` leaves `searchVars` alone).

* A second obstacle that is met during a detour keeps the angle and distance of the first
  (`simpleAvoidance.cpp:31`), and `mJustDetectedObstacle` is reset only on the way into
  SearchDriveAroundObs (`:43`), so that a detour on a plain leg may mirror the next turn.
  Distances and sides are not in the model.
* `mRepeaterDropComplete` is never reset (`stateMachine.cpp:71`): a report that comes before
  the drop ends the next wait at once.
* GateDriveThrough off course publishes nothing and stays (`gateStateMachine.cpp:291`): the
  last joystick command remains in force.

* `searchFails` is static and never reset: only the first search after the start begins
  with the spiral out (`jetson/nav/README.md:66` names the spiral first), a later leg
  begins with the pattern after the one that was given up last (`ChangeSearchAlg`).

And one in a doc only: `jetson/nav/README.md:89` names the channel
`/auton_state`; `main.cpp` subscribes to `/auton`.

### Fairness

`FairSpec` adds weak fairness of `Next`: messages keep arriving, as perception, the filter
and the GUI publish periodically. Nothing is assumed about which message arrives or
what the rover sees, so the liveness properties hold without the rover making progress:
`OffIsObeyed` says that an off in the inbox leads to `Off`, `NeverFrozenForGood` that the
status is brought up to date again and again. Both hold outside the gate
(`off_not_obeyed` shows why not there).

### Proofs (`NavProofs`)

`Inv` is the conjunction of `TypeOK`, `OffIsStopped`, `LegsMatchCourse`, `PointsLeft` and
`NothingUnsetIsRead`. It is inductive as a whole and its parts are not: a point is
popped only because `PointsLeft` says that one is left, `NothingUnsetIsRead` in
`TurnToTarget` rests on the status being frozen with the target in sight (clause
`stateChanged /\ target.seen`), and `LegsMatchCourse` needs `OffIsStopped` to know that a
course starts from `Off` only.

The argument follows the code: `RunUpdates` says what `updateRover` guarantees to the
handler (`Updated`: types, and a frozen status stays as it was); `GateKeeps`, `SearchKeeps`,
`AvoidanceKeeps`, `ChangeSearchAlgKeeps`, `LegsKeep` and `OffKeeps` treat the files one by
one, a step per handler; `ExecuteKeeps`, `RunKeeps` and `NextKeeps` put them together.

`CourseInv` adds what the progress needs of the path: a drop point is in front of it exactly
in the repeater's states and nowhere else (`DropIsFirst`), the rover goes to the repeater
only when its time has come (`RepeaterAlone`), and completed waypoints and the path, without
the drop point, make up the course (`LegsAddUp`). `GateGoes`, `SearchGoes` and `LegsGo`
classify each handler's step (goes on, completes, finishes, rests, adds or drops the
repeater, dies), `PathSteps` counts for the steps that change the path, and `ExecuteSteps`
maps the class to a step of `NavCourse`, which gives `CoursesComplete` with the mapping of
`NavProperties` (`CourseMode`, `completed`, `total`). `IndexPastCourseNever` adds that the
course is the one counted when it started.

`CourseInv` is inductive under `RepeaterUndisturbed`: the radio signal is never low, or no
obstacle that is seen near is in the way to a waypoint. Some such assumption is needed: a
detour around an obstacle leaves the repeater's states, the drop point is then added twice
(`two_drop_points`), the second copy is counted as a waypoint, and the statements are false.
`nav_repeater` and `nav_search` are the two ways to satisfy it: a low signal, and obstacles.
`CompletedAtEnd` needs no such assumption.

`NavFreeze` is about the data that a handler runs on. A change of state keeps `updateRover`
from being called before the next run, so a chain of changes is run on the same readings and
an off in the inbox waits for its end. How long can it be? Nothing bounds it in the code; the
handlers do, each in its own way, and the rover may take any view of every point it turns to
in between. `Rank` makes the bound explicit: 30 times the legs ahead (the waypoints left, and a
drop point that may still be added), plus a height within the leg. `FreezeEnds` proves that
every change of state on frozen data lowers it (`GateFalls`, `SearchFalls` and `LegsFall`, a step
per handler), for every configuration, with one exception: `GateShimmy` with the gate out of
view, which is what `off_not_obeyed` shows. `RankIsBounded` adds that it is a natural number;
with a gate that never looks out of view there is no exception (`EveryFreezeEnds`). The
proof rests on `Inv` (a drive that goes off course has a point left, and stays in the turn
that follows) and on `DropAhead`: on the way to the repeater the front of the path is the drop
point, with detours or without, since otherwise a search could start there with the
drop point due once more. `OffIsObeyedAtOnce` is the other half of obeying an off: out of
a freeze it takes one turn of the loop.

The assumptions are those declared with the constants: the readings are of their types
(`NavConstants`), a spin has at least one stop, a pattern at least one point, and the
configuration names at least one pattern (`SearchConstants`, `GateConstants`).

Only model-checked: the liveness properties (`OffIsObeyed`, `NeverFrozenForGood`), whose
safety part the theorems on freezes are.

## 4. ODrive bridge

### State and steps

`jetson/odrive_bridge` runs two threads. *main* loops: the watchdog, then `update`, which
drives, connects or calibrates depending on the state, and reads the error flags. *lcm*
handles one message after the other. Both give events to the state object.

| variable | code |
|---|---|
| `pc` | where each thread is; `"start"`: `odrive_bridge` does not exist yet; `"dead"`: an exception ended it |
| `state` | `odrive_bridge.state` |
| `event`, `result` | argument of `on_event` in each thread, and the state its handler returned |
| `lock`, `speedlock` | holder of each `threading.Lock` |
| `left`, `right`, `request` | `left_speed`, `right_speed`, the message of `drive_vel_cmd_callback` |
| `expired` | `t.clock() - start_time > 1.0` |
| `modrive` | the global: not assigned yet, its channel in order, or broken |
| `plugged`, `axes`, `error`, `setpoint` | the device: on USB, what its axes do, their error flags, their velocity set points |

A step is one access to shared state. `on_event` is three of them: get the lock (`Enter`),
run the handler of the present state (`OnEvent`), assign its result and release the lock
(`Assign`). `update` asks for the state once per `elif` without the lock (`Branch`), so the
other thread may change it between any two of them and before the event that follows.
`Moves` has a line per `return` of the five `on_event` methods, `DeviceCalls` the calls
they make.

A call to a device whose channel is broken raises. `Raise` sends main to the except
clause of `main`, which asks for the lock; in the except clause, and in the LCM
thread, the exception ends the thread. Neither lock is released on the way, as there is
no `finally` (`LockLost`).

Abstractions: the calls that one handler makes all arrive or the first one raises; axes
obey at once; the watchdog may expire at any time after a message; the ODrive may be
unplugged, plugged in and run into an error at any step (`Faults`); a state command for
another controller, or with a number that is none of the three, is left out, and so are
the messages that the bridge publishes. `publish_encoder_msg` catches all that it raises.

### Runs

| run | shows | bounds |
|---|---|---|
| `odrive` | types; a disarmed drive is idle; the states follow the diagram of the README | all commands, unplugging and errors, one speed |
| `odrive_live` | a drive that is found gets armed; without messages the wheels stop | arm and disarm, unplugging |
| `odrive_no_response` (violated) | an armed drive responds to velocity commands | the same |

`odrive_disarm_undone.cfg`, run by hand with `MCOdrive`, shows the second disagreement below.

One speed besides 0 suffices, since no step compares speeds. `CHECK_DEADLOCK FALSE`: the
process ends when an exception leaves the except clause of `main`, and stands still when
both threads wait.

Fairness (`Fairness`): both threads run (weak fairness); a lock that is free again and
again is got at last (strong fairness, as the threads compete for it); time passes; a
calibration ends. Messages need not arrive, and the drive need not be found.
`WatchdogStops` assumes that the LCM thread is silent for ever while the drive stays
armed and connected; a state command per second would keep the wheels turning.
`FoundIsArmed` holds only because it makes an exception of a lock that was lost
(`LockLost`).

### Disagreements found

* `odrive_no_response`: unplugged in `set_vel`, main leaves `update` with `speedlock`
  held. After the reconnection the state is Armed, main waits for its own lock
  and the LCM thread for main. The README lists "Suddenly No Resposne" as still being
  investigated.
* `odrive_disarm_undone`: `update` read DisconnectedState and goes to arm the drive it
  found; an arm and a disarm command get the lock first, and the drive, now Disarmed, is
  armed. The same happens at the end of a calibration.

In the model as well, without a run:

* Unplugged during "arm cmd" or "odrive error" in `update`, main gets to the except clause
  with `lock` held and waits for itself.
* An arm command before the first connection raises `NameError` in the LCM thread and
  ends it with `lock` held: the bridge never leaves DisconnectedState.
* Any state command in ErrorState clears the error flags (`dump_errors( .., True )`), so
  that the second "odrive error", which reboots, does not come: the bridge stays in
  ErrorState. README:62 says that it will reboot.
* An arm command during a calibration makes the state Armed while main waits for the axes
  to be idle, which armed axes are not.

### Proofs (`OdriveProofs`)

`OInv` is `TypeOK` and `EventsOk`: who works on an event holds the lock
(`EventsAreLocked`), what is about to be assigned is a result for the present state
(`ResultsAreCurrent`), DisarmedState is about to be assigned only over idle axes
(`DisarmedBefore`), and `DisarmedIsIdle`. The first is needed because only one thread at a
time may be between handler and assignment, else the other's result would be stale; the
third because the axes are disarmed one step before the state says so.

`ThreadGoes` and `AwaitKeeps` settle the steps of a thread that works on no event;
`EnterKeeps`, `RaiseKeeps`, `ReturnKeeps` and `AssignKeeps` are the four steps of
`on_event`. `StatesFollowDiagram` follows from `ResultsAreCurrent`: only `Assign` changes
the state (`OnlyAssign`), to a result of the present state, and every result is a way in the
diagram (`MovesOnDiagram`). The theorems hold for all sets of commands, speeds and faults
that `OdriveConstants` admits.

What an exception leaves behind has an invariant of its own, `LostInv`: the speeds are used
only with their lock, a thread dies only with the state's lock, and, when nothing happens to
the drive, events and states are those of a sound drive (`FaultFree`). `OneGoes` settles
every step outside `on_event`. From it:

* `StuckOnlyWithLostLock`: the threads never wait for one another, or one for itself, unless
  a lock was lost. The order in which the locks are taken is sound; the missing `finally` is
  what is wrong.
* `ExceptionsLoseLocks`: only an exception in a handler loses the state's lock, and only a
  broken channel between the two calls of `set_vel` the speed lock.
* `LostLockFreezesState`: a lost lock stays lost, and the state never changes again. This is
  why `FoundIsArmed` has to make an exception of it.
* `LostSpeedlockStopsDriving`: a lost speed lock stays lost, and speeds and set points are
  only ever zeroed from then on, which is the disagreement of `odrive_no_response` for all
  commands and speeds.
* `SoundDriveKeepsLocks`: without faults of the drive only a command that comes before the
  first connection loses a lock.

The invariants were checked by TLC on the instances of the runs before they were proved.
Liveness (`FoundIsArmed`, `WatchdogStops`) is model-checked only: what the theorems say is
which states there is no way out of, not that the threads take the way out of the others.

## 5. Navigation simulator

### Steps

The simulator (`simulators/nav`) is a page that runs in the browser's one event loop. A step
of each of its modules is one task of that loop, a click, a key, a message, an interval or a
timeout, together with the Vue watchers it sets off, which run before the next task. So
nothing interleaves within a step, and everything may come between two.

**`SimSession`**: `NavSimulator.vue`, `DebugTools.vue`, `HotKeys.vue`, `bridge.js`.

| variable | code |
|---|---|
| `autonOn`, `paused`, `simulateLoc`, `simulatePercep`, `currOdom`, `startLoc`, `joystick`, `zedGimbalPos`, `zedGimbalCmd`, `roverPath`, `repeaterLoc` | the store (`simulator_state.ts`) |
| `droppingRepeater`, `timers`, `radio` | the repeater's drop: its flag, the timeouts that are pending, what the radio says |
| `pulse`, `missedBeats`, `connected` | per program, what `checkForPulse` works on |
| `online`, `told` | the web socket, and what the network was told last on each channel |
| `session`, `running`, `quiet` | environment: the features used, the programs that run, the checks since each was heard |

Poses are points on a line within `Reach`, and the gimbal's angles whole steps within
`GimbalMax`; driving moves by the command as far as the ends. `HB_MAX_MISSED` is 2 instead
of the code's bound, so that a program can be late once without being given up. `told` keeps
the last message only, as every message is sent again every 100 ms.

**`SimField`**: `Field.vue`, `FieldItems.vue` and the items' components, `DrawModule.vue`,
`HotKeys.vue`, `NumberInput.vue`, the store's field. A draw mode is named by the list it
draws into. Items keep what a draw option or a box can change: search and gate flags, ids,
orientations, sizes; where they lie is left out. `collapsed`, `minimized` and `heights` are
the containers of the lists, whose height `HeightsIn` computes from what they show. A file
picker and its `FileReader` are two steps (`reading` in between). `ItemLines` is how high an
item is in each odometry format. `update...Height` measures a container and then gives each
item's element the height of its contents as an inline style, which the element keeps, as
elements are keyed by index: `itemFormat` says of which format these heights are, and
`Measured` what is measured of them (`ScrollHeight` is the browser's, with contents that
overflow). Vue renders `FieldItems` again, and so measures again, only when a height is new
(`Settled`).

**`SimPerception`**: `Perception.vue`, `obstacle_detector.ts`, `target_detector.ts`. The
variables are the store's view of the world, the copies each detector keeps of it, and the two
messages. A watcher feeds the copies in the order the code declares; when the computation of
the obstacle message throws, the watcher ends there and what it did not reach keeps its old
copy (`behind`). Angles are in units of 5 degrees, distances in those of the view's depth;
what lies at which bearing from which spot is a table (`Sight`). `OpenIntervals` is
`open_interval_heap.ts`. `ZedGeometry` holds the case analyses of `isObsInPath` and
`isObsVisible` in exact arithmetic: a grid of 1/40 m and directions whose sine and cosine are
fifths.

### Runs

| run | shows | bounds |
|---|---|---|
| `sim_session` | lights are true; one drop per request; the path was driven; orders arrive | seven sessions of two or three features that interact, five poses |
| `sim_field` | a gate is searched; the mode that moves the rover can be left; heights fit; typed numbers are valid | nine sessions, two items per list, uploads of the test case downloaded last, typed numbers below, in and above the range |
| `sim_percep` | both messages are fresh; open intervals are exact; listed posts show; the case analyses are right | two spots, two headings, three gimbal angles, three views, three fields; 15 x 23 x 4 obstacles in four directions |

A session names the features that are used in it. It replaces one state space, the product
of all features, by one for each group that interacts: radio and drop with the bridge,
driving with the gimbal and the localization, and so on. Two items per list are needed for
an order to matter, and no property counts beyond one. In `sim_percep` one spot has an obstacle
nested in another and one has the rover standing on an obstacle, which are the cases where the
code's branches part. No run has a state constraint: the caps are in the guards (`Poses`,
`MaxItems`) and in `quiet`, which stops counting one past `HB_MAX_MISSED`.

Fairness (`SimSession!FairSpec`): weak fairness of `DropRepeater` (a `setTimeout` of two
seconds), of `Publish` and `CheckForPulse` (`setInterval`) and of `SocketOpens` (`bridge.js`
tries again two seconds after a close, and the server is taken to be up). Programs need not
start, and navigation need not speak. The field and the perception have safety properties
only.

### Disagreements found

`sim_step_twice.cfg` (`MCSimSession`): `components/hotkeys.md` says that a step and a manual
drive key "apply a single joystick command"; both apply it twice: the watcher of `takeStep`
(`NavSimulator.vue:263`) applies it and sets `takeStep` back, which sets the watcher off again.

`sim_reset_moved.cfg` (`MCSimSession`): `components/hotkeys.md:16` says that shift+r is to "turn
off the rover and move it to the starting location", and `DebugTools.vue:292` that it resets the
rover "to the starting state". `resetRover` puts the rover there and then unpauses; the watcher of
the pause (`NavSimulator.vue:255`) applies the joystick and gimbal commands that were pending,
so that a rover reset while paused is one command away from its start, with a path of two
points. TLC finds it in four states: pause, drive by key, reset.

`open_intervals.cfg` (`MCSimPerception`): `open_interval_heap.ts:34` says that the heap
finds the intervals that are not occupied. When one obstacle's angles lie within those of
another that starts before it, the end of the inner one counts (`:77`), and an occupied
range is offered. An interval listed twice does the same when one before it overlaps it: of
[0,5], [3,8], [3,8] the second takes over the start of the first and is then removed for the
third, which ends where it does, so that the range from 0 to 3 is offered. `Nested` names
both cases.

`posts_behind.cfg` (`MCSimPerception`): "If less than 50% of tag unblocked, we can't see it"
(`target_detector.ts:268`). The field of view can be set to 360 degrees
(`DebugTools.vue:47-51`). Of two posts straight behind the ZED the one that the other hides
altogether is listed, as the cut leaves no overlap between their edges.

In the model as well, and named in the properties that make an exception of them:

* All occupied intervals outside the view's range: `open_interval_heap.ts:96-103` reads past
  the end of the list and throws; the target detector keeps its old copy until the rover
  moves (`behind`).
* `isObsInPath` cases 4, 5, 7 and 8 use the ZED's absolute bearing, and case 3 is never
  true: an obstacle beside the path is answered rightly in any direction, one behind it only
  straight ahead (`CasesAreRight`). `isObsVisible` measures to the line of an edge, which
  goes on behind the ZED.
* The detector does not count all that nearer posts hide, and `ListedPostsShow` names the
  cases (`IsCounted`): a post near 180 degrees has its edges cut at the seam and is seen or
  blocked as if it lay on both sides; a nearer post that stands before the middle of another
  overlaps neither of its edges (`:251`, `:258`); one that hides within another is not
  combined rightly. The corners of the other posts are found with the orientation of the post
  that is asked about (`:233`); the model has one width per post, so it cannot tell.
* `computeObsMsg` tests `start + end / 2` where the middle of the interval is meant (`:164`,
  `:178`).
* A change of the odometry format measures the heights before the items are rendered, and
  the next rendering or resize measures items whose elements still have the inline heights of
  the format before: from DMS to D, say, the containers then stay too high, until something else is
  rendered or the window is resized again. `behind` counts the measurements that `HeightsFit`
  waits for; that two are needed was found by TLC, with one it is violated.
* "Clear" leaves the repeater and the upload of a test case the reference points, the path
  and the rover; the button is disabled when only reference points or the repeater are left.
* A key that is released while the page has no focus is held for ever: the mode jumps back
  at the next release.

### Proofs

`SimSessionProofs`: `SInv` is `TypeOK`, `OneDrop`, `PathIsDriven` and `BeatsCount`, which
relates the counter of missed beats to what happened since the program was heard;
`LightIsTrue` follows from it and is not inductive alone.

`SimFieldProofs`: `FInv` says of the modes, options, lists, files and heights what each action
needs of the others; `CanMoveBack` and the heights are among its parts: where one more
measurement is to come, the items have the present format's heights already, so that it
measures what the lists show (`MeasuredFits`, `Settles`). A draw option enters
the field when it is drawn and a file when it is read, so `GateIsSearched` must hold
of all three at once.

`NumbersStayValid` rests on arithmetic. `JsRemainder` says of JavaScript's remainder, which has
the sign of the dividend, that it leads to a multiple toward 0; `UpdateValSteps` follows an entry
through `updateVal` from it, and `StepFits` says that an obstacle is never smaller than the step
its size calls for, without which its input would show a value below its least one. This
needs that each cutoff is one step of the next size at least (`FieldConstants`; 2 m and 0.5 m, 5 m
and 1 m in `DrawModule.vue:181`).

`SimPerceptionProofs`: `PInv` is `CopiesFollow`, `ObstaclesAreFresh` and
`ListFollowsCopies`. The messages are computed from copies, so freshness is proved in two
hops: the copies follow the store, the messages follow the copies.

`ZedGeometryProofs`: the case analysis against the figure it stands for. `PathIsExact` is
for all obstacles and all directions with exact coordinates: between the ZED and the depth
of its view, an obstacle is said to be in the path if and only if some point of the path is
within its radius. Beside the path the nearest point is on its edge at the same height; in
the path the centre is such a point. The corner at that depth is where the edge of the path
leaves the view (35^2 + 120^2 = 125^2), so the depth test of case 1 never fails there.
`PathIsJudgedRight` takes the points from the raster that TLC searches, and covers the
corner cases straight ahead; `SeenMeets` does the same for the view, case by case, for the
obstacles of the grid. Together they give `CasesAlwaysRight`.

`OpenIntervalsProofs`: the heap for all lists of intervals and all ranges. The prover has no
induction rule that it can apply to a formula, but it can cite that `<` is well founded,
which gives a least number to every set of numbers (`LeastNumber`), induction over *sets* of
numbers (`SetInduction`), and with it that a function defined step by step exists and has
its values in a given set (`Recursion`). The loops of the constructor are such functions:
`At` splices out, `Combined` makes the pass over neighbours. What the pass keeps up is
`Passed`: ends stay as they are and starts only grow smaller, the kept intervals before the
present one end before anything that follows begins, and nothing is covered that was not.
That nothing gets lost either needs ends that grow with the starts (`EndsGrow`), which is
what nesting takes away. `Sorted` chooses a permutation that sorts, so its existence is
proved (`Sortable`: insertion). The rest goes down the constructor: combined
(`CombinedIsApart`), trimmed (`TrimmedIsApart`), the gaps are what is left
(`GapsAreTheRest`), which gives `FreeIsOffered`, `OfferedIsFree` and `WidestFirst`;
`HalfOpenShows` is the use that `isPostVisible` makes of the heap.

`OpeningsAreExact` applies them to the obstacles that the detector sees: `ViewInv` says that
the lists hold items of the field, so that every obstacle closes an interval.
`ListedPostsPassTest` does so for the target list: each post it names is in the view, the two
are in their order from left to right, and at least half of what a post takes up is free of
the intervals that the detector holds against it, if none lies within another. It does not say
that these are all that hides a post. `ListedPostsShown` goes on to the angles that the posts
really take and to all nearer posts: without the cut the detector's edges are the post's own
(`UncutEdges`, arithmetic modulo the full circle), and a nearer post that covers some of it
covers one of its edges or stands before its middle (`SeenShows`). The first attempt at this
proof failed at the seam, which is how `posts_behind.cfg` came about. All three assume
`ViewConstants`: angles and distances are whole numbers of the model's units, those of items
are not negative, and a gate has two posts.

Only model-checked: `OrdersArrive` (liveness).

## 6. GUI task pages

### Steps

`base_station/gui` shows one task page at a time, `AutonTask`, `RATask` or `SATask`, each with its
components. As in the simulator a step is one task of the event loop. `Open` is the change of
page: Vue creates the components of the new page first and destroys those of the old one
afterwards, and `Open` does both in this order. That order matters, since the component files
keep the handle of their timer in a variable of the file, not of the component: when the old
and the new page share a file, `beforeDestroy` of the old clears the timer of the new, and
its own runs on.

| variable | code |
|---|---|
| `page`, `visits`, `direct` | the route, how many task pages were opened, and whether one was opened directly from another |
| `interval`, `timers` | the handle of each file, and the timers that run, each with the visit it belongs to |
| `online` | visits whose connection is open: no page closes its own |
| `autonEnabled`, `controlMode`, `storeRoute`, `waypointList` | the store |
| `editor` | waypoint editor of the open page: box, two lists, items |
| `arm`, `science`, `dual_stream`, `cams` | boxes of the arm, vacuums, camera choice |
| `ghosts` | what the editor of an earlier visit, whose timer still runs, goes on publishing |
| `told` | what the rover was told last |
| `vacuum_2` | the second `/esc_toggle` of the last tick that was sent: under way ("on" or "off"), told, or lost |

Left out are the contents of drive and arm commands, the servos' angles, the cameras'
settings and the map's drawing. A message published while the connection is closed is
dropped (`bridge.js:76`), any other one is told at once, but for the controller's toggles: a
tick of `SAControls` publishes `vacuum_1` and then `vacuum_2` (`SAControls.vue:158-168`), and
`SecondToggle`, the arrival of the second and of the `/talon_config` after it, is a step of its own,
which a connection that is lost takes with it. `/auton` and `/course`, `/microscope` and
`/pi_camera` are pairs as well, but what is asked of them is only where they end up.
The bound: a second message is told or lost before the next tick of a science page, 50 ms later.

### Run

`gui` instantiates sessions of one feature group each: a course of two waypoints on one visit
and of one waypoint on two visits, the autonomy mode over three visits, arm and science, and
cameras, over two. Two visits let a page outlive another, the third one lets it do so
after a page in between. One camera key and two streams suffice for the streams to be swapped
and to coincide.

Fairness: weak fairness of each timer that runs (`setInterval`), and of `SecondToggle` (what was
sent over a connection that lasts arrives). Each of these actions is a disjunct of `Next` with the
guard it has there, so every finite behaviour can go on fairly. Operators need not do
anything and a connection need not open: `PageIsObeyed` speaks of pages that stay connected.

`BoxTellsMode` and `BoxesShowMode` make exceptions of a page opened with the mode set, and
`TimersStop` of files shared by pages opened directly from one another and of the servo
timers. `PageIsObeyed` holds of all pages opened through the menu; after a direct change it
holds as long as the code has left the open page its own timer and nothing that outlived another
page is connected (`EditorAlone`, `CamerasAlone`): from `RATask` over `SATask` to `AutonTask`, for
instance, while the connection of the first is down. What these except are the
disagreements that follow.

### Facts found

* Changing from one task page to another directly kills the timer of the cameras that were
  just created and leaks that of the old ones; between `RATask` and `SATask` the same holds of
  the waypoint editor.
* Switching from the second vacuum to the first has both enabled between the two messages,
  and until the next tick that gets through if the second one is lost: `escs_on`
  (`beaglebone/sa/src/__main__.py:100`) takes each as it comes. `VacuumsTakeTurns` says that
  there is no other way to have both on.
* A leaked editor goes on publishing `/auton` and its old course every 100 ms, against those
  of the open page.
* The timers of the camera servos are never cleared (`AutonTask.vue:223`, `RATask.vue:173`),
  the connections never closed, and the key listener of `Cameras.vue:139` never removed.
* Opened again while autonomy is on, the page shows an unchecked box, publishes an empty
  course, and its map shows the old route.
* `controlMode` outlives the page: a check of "arm" then unchecks itself, and one of
  "arm_ik" checks both boxes.
* `SAControls.vue:121` asks for `this.autonEnabled`, which is not defined there, so that
  `/drive_control` is published in autonomy as well.
* `/ik_enabled` is published once: when the connection is down it is lost, and the rover
  keeps the old mode (`arm.lost`).
* The camera keys can choose the same camera for both streams.

### Proofs (`GuiDashboardProofs`)

`GInv` is `FieldsOk` (the types that the argument needs), `EditorTrue` and `ControlsTrue`: box,
lists and map of the editor; boxes, mode and inverse kinematics of the arm; vacuums.
`VacuumsTrue` strengthens `VacuumsTakeTurns`: one toggle is on at most, and while "on" is under way
for the second vacuum the first is told off, which is what makes the arrival harmless. The
theorems hold for any number of visits, indices and keys.

The timers have an invariant of their own, `RoutingOk` and `GhostsHaveTimers`: the variable
`interval` of each file of the open page names this visit's timer; a file whose timers are
cleaned up (`CleanedUp`: all but the servos', and but the cameras' and the waypoint editor's
once two task pages were opened one after the other) has no timer of another visit; and an
editor that outlived its page still has its timer. `OnlyOpenRoutes` shows that no other
action touches these variables, so that the whole argument is about `Open`, with
`SharedFiles` for the files that the old and the new page have in common. `TimersAlwaysStop`
is the checked property for any number of visits; `MenuKeepsPagesApart` says that through
the menu nothing leaks at all, and `DirectVisitsLoseEditor` that a direct change always
stops the new page's waypoint editor.

`DoneEndsAutonomy` and `PageIsObeyed` (liveness) are model-checked only.

## 7. Not modelled

* Numerical: perception on the rover, arm kinematics and planner, the Kalman filter, the PID
  loops, the generation of search and gate points.
* Input and output in a loop: sensor and actuator drivers, base station services, tools.
* Displays: the GUI's other panels, which show a reading or publish one message per button,
  and the canvas of the simulator.
* Stateful, and left in the plan: teleop, heartbeats, the bridge server, nucleo bridge,
  video, arm execution, the filter's inputs, science tests (section 1 names their hard
  behaviour).
