----------------------------- MODULE OdriveBridge -----------------------------
(***************************************************************************)
(* jetson/odrive_bridge: the main thread looks after one ODrive on USB,    *)
(* the LCM thread takes state and velocity commands.  They share the       *)
(* state, under `lock', and the two speeds, under `speedlock'; neither     *)
(* lock is released when what it guards raises an exception.               *)
(*                                                                         *)
(* A step is one access to shared state.  The calls that the handler of an *)
(* event makes to the ODrive are one step: they all arrive, or, when the   *)
(* USB channel is broken, the first one raises.                            *)
(***************************************************************************)
EXTENDS Naturals

CONSTANTS
  Commands,   \* what /drive_state_cmd may ask for
  Speeds,     \* the speeds of /drive_vel_cmd
  Faults      \* what may happen to the ODrive: a subset of {"unplug", "error"}

ASSUME OdriveConstants ==
  /\ Commands \subseteq {"disarm cmd", "arm cmd", "calibrating cmd"}
  /\ Speeds \subseteq Nat
  /\ Faults \subseteq {"unplug", "error"}

Threads == {"main", "lcm"}

States ==
  {"DisconnectedState", "DisarmedState", "ArmedState", "CalibrateState", "ErrorState"}

Events ==
  {"disconnected odrive", "disarm cmd", "arm cmd", "calibrating cmd", "odrive error"}

VARIABLES
  pc,              \* where each thread is
  state,           \* odrive_bridge.state
  event, result,   \* each thread's event of on_event, and the state it returns
  lock, speedlock, \* who holds them
  left, right,     \* left_speed and right_speed
  request,         \* the velocity command the LCM thread holds
  expired,         \* the watchdog: more than a second since the last message
  modrive,         \* the global: "none" yet, or its channel is "ok" or "broken"
  plugged,         \* the ODrive can be found on USB
  axes,            \* what the ODrive's axes do
  error,           \* the axes' error flags
  setpoint         \* the velocity set points of its two axes

eventVars == <<state, event, result>>
speedVars == <<left, right, request>>
locks == <<lock, speedlock>>
device == <<modrive, plugged, axes, error, setpoint>>
vars == <<pc, eventVars, locks, speedVars, expired, device>>

Still == [left |-> 0, right |-> 0]

\* odrive_bridge is created while the LCM thread is already running ("start").
Init ==
  /\ pc = [t \in Threads |-> IF t = "main" THEN "start" ELSE "handle"]
  /\ state = "DisconnectedState"
  /\ event = [t \in Threads |-> "none"]
  /\ result = [t \in Threads |-> "DisconnectedState"]
  /\ lock = "free" /\ speedlock = "free"
  /\ left = 0 /\ right = 0 /\ request = 0
  /\ expired = FALSE
  /\ modrive = "none"
  /\ plugged \in BOOLEAN
  /\ axes = "idle" /\ error = FALSE /\ setpoint = Still

Goto(t, there) == pc' = [pc EXCEPT ![t] = there]

\* Thread t waits for the lock, to give event e to the state.
AwaitLock(t, e) ==
  /\ Goto(t, "lock")
  /\ event' = [event EXCEPT ![t] = e]

-----------------------------------------------------------------------------
(* The states' on_event *)

\* The on_event of each state's class: event e leads to another state, s.
Moves(e, s) ==
  \/ /\ state = "DisconnectedState"
     /\ e = "arm cmd" /\ s = "ArmedState"
  \/ /\ state = "DisarmedState"
     /\ \/ e = "disconnected odrive" /\ s = "DisconnectedState"
        \/ e = "arm cmd" /\ s = "ArmedState"
        \/ e = "odrive error" /\ s = "ErrorState"
  \/ /\ state = "ArmedState"
     /\ \/ e = "disarm cmd" /\ s = "DisarmedState"
        \/ e = "disconnected odrive" /\ s = "DisconnectedState"
        \/ e = "odrive error" /\ s = "ErrorState"
        \/ e = "calibrating cmd" /\ s = "CalibrateState"
  \/ /\ state = "CalibrateState"
     /\ e = "arm cmd" /\ s = "ArmedState"
  \/ /\ state = "ErrorState"
     /\ e = "odrive error" /\ s = "DisconnectedState"

\* Mutant: a handler without a case for the event does not return itself.
ReturnsNothing(e) ==
  {s \in States \cup {"None"} : Moves(e, s) \/ (s = "None" /\ \A r \in States : ~Moves(e, r))}

Returned(e) ==
  {s \in States : Moves(e, s) \/ (s = state /\ \A r \in States : ~Moves(e, r))}

\* The handlers that make calls to the ODrive.
UsesDevice(e) ==
  \/ state \in {"DisconnectedState", "DisarmedState"} /\ e = "arm cmd"
  \/ state = "ArmedState" /\ e \in {"disarm cmd", "calibrating cmd"}
  \/ state \in {"CalibrateState", "ErrorState"}

\* Modrive.arm: an axis with an error does not enter closed-loop control.
Arm == axes' = IF error THEN "idle" ELSE "closed_loop"

\* Mutant: the axes keep their control loop.
DisarmNotIdle == axes' = axes /\ setpoint' = Still

\* Modrive.disarm
Disarm == axes' = "idle" /\ setpoint' = Still

\* modrive.reboot: the channel breaks, the ODrive starts afresh.
Reboot ==
  /\ modrive' = "broken"
  /\ axes' = "idle" /\ setpoint' = Still /\ error' = FALSE

\* The calls of the handler of event e.
DeviceCalls(e) ==
  /\ UNCHANGED plugged
  /\ \/ /\ state = "DisconnectedState" /\ e = "arm cmd"    \* disarm(); arm()
        /\ Arm /\ setpoint' = Still
        /\ UNCHANGED <<modrive, error>>
     \/ /\ state \in {"DisarmedState", "CalibrateState"} /\ e = "arm cmd"
        /\ Arm
        /\ UNCHANGED <<modrive, error, setpoint>>
     \/ /\ state = "ArmedState" /\ e = "disarm cmd"
        /\ Disarm
        /\ UNCHANGED <<modrive, error>>
     \/ /\ state = "ErrorState" /\ e = "odrive error"
        /\ Reboot
     \/ /\ \/ state = "CalibrateState" /\ e # "arm cmd"
           \/ state = "ErrorState" /\ e # "odrive error"
        /\ error' = FALSE                                  \* dump_errors( .., True )
        /\ UNCHANGED <<modrive, axes, setpoint>>
     \/ /\ \/ state = "ArmedState" /\ e = "calibrating cmd"   \* reset(): settings only
           \/ ~UsesDevice(e)
        /\ UNCHANGED <<modrive, axes, error, setpoint>>

-----------------------------------------------------------------------------
(* OdriveBridge.on_event, in either thread *)

\* Mutant: the lock is taken while another thread holds it.
TakeAnyway(t) == lock' = t

TakeLock(t) == lock = "free" /\ lock' = t

Enter(t) ==
  /\ pc[t] = "lock"
  /\ TakeLock(t)
  /\ Goto(t, "event")
  /\ UNCHANGED <<eventVars, speedlock, speedVars, expired, device>>

\* The name odrive_bridge, the name modrive or the channel is missing.
Raises(t) ==
  \/ t = "lcm" /\ pc["main"] = "start"
  \/ UsesDevice(event[t]) /\ modrive # "ok"

\* An exception ends the LCM thread, and in the except clause of main the
\* process; in update it leads to the except clause. The lock stays locked.
Raise(t) ==
  \/ /\ t = "main" /\ event[t] # "disconnected odrive"
     /\ AwaitLock(t, "disconnected odrive")
  \/ /\ t = "lcm" \/ event[t] = "disconnected odrive"
     /\ Goto(t, "dead")
     /\ UNCHANGED event

OnEvent(t) ==
  /\ pc[t] = "event"
  /\ UNCHANGED <<state, locks, speedVars, expired>>
  /\ \/ Raises(t) /\ Raise(t) /\ UNCHANGED <<result, device>>
     \/ /\ ~Raises(t)
        /\ DeviceCalls(event[t])
        /\ \E s \in Returned(event[t]) : result' = [result EXCEPT ![t] = s]
        /\ Goto(t, "assign")
        /\ UNCHANGED event

\* Where a thread goes on after the event: main after arming goes on with update.
AfterEvent(t) ==
  CASE t = "lcm" -> "touch"
    [] t = "main" /\ event[t] = "arm cmd" -> "errors"
    [] OTHER -> "watch"

Assign(t) ==
  /\ pc[t] = "assign"
  /\ state' = result[t]
  /\ lock' = "free"
  /\ Goto(t, AfterEvent(t))
  /\ UNCHANGED <<event, result, speedlock, speedVars, expired, device>>

-----------------------------------------------------------------------------
(* The main thread *)

Start ==
  /\ pc["main"] = "start"
  /\ Goto("main", "watch")
  /\ UNCHANGED <<eventVars, locks, speedVars, expired, device>>

\* Mutant: the right side is forgotten.
ZeroLeftOnly == right' = right

ZeroRight == right' = 0

\* The watchdog zeroes one speed after the other, without the speed lock.
Watch ==
  /\ UNCHANGED <<eventVars, locks, request, expired, device>>
  /\ \/ /\ pc["main"] = "watch" /\ expired
        /\ left' = 0
        /\ Goto("main", "watchRight")
        /\ UNCHANGED right
     \/ /\ pc["main"] = "watch" /\ ~expired
        /\ Goto("main", "ifArmed")
        /\ UNCHANGED <<left, right>>
     \/ /\ pc["main"] = "watchRight"
        /\ ZeroRight
        /\ Goto("main", "ifArmed")
        /\ UNCHANGED left

\* update asks for the state once for each branch, without the lock.
Branch ==
  /\ UNCHANGED <<eventVars, locks, speedVars, expired, device>>
  /\ \/ /\ pc["main"] = "ifArmed"
        /\ Goto("main", IF state = "ArmedState" THEN "speedlock" ELSE "ifDisconnected")
     \/ /\ pc["main"] = "ifDisconnected"
        /\ Goto("main", IF state = "DisconnectedState" THEN "connect" ELSE "ifCalibrate")
     \/ /\ pc["main"] = "ifCalibrate"
        /\ Goto("main", IF state = "CalibrateState" THEN "calConnect" ELSE "errors")

TakeSpeedlock(t) ==
  /\ pc[t] = "speedlock"
  /\ speedlock = "free"
  /\ speedlock' = t
  /\ Goto(t, "setLeft")
  /\ UNCHANGED <<eventVars, lock, speedVars, expired, device>>

\* A broken channel: the except clause of main, the speed lock stays as it is.
BrokenChannel ==
  /\ modrive # "ok"
  /\ AwaitLock("main", "disconnected odrive")
  /\ UNCHANGED <<state, result, locks, speedVars, expired, device>>

SetVel ==
  \/ /\ pc["main"] \in {"setLeft", "setRight"}
     /\ BrokenChannel
  \/ /\ modrive = "ok"
     /\ UNCHANGED <<eventVars, lock, speedVars, expired, modrive, plugged, axes, error>>
     /\ \/ /\ pc["main"] = "setLeft"
           /\ setpoint' = [setpoint EXCEPT !.left = left]
           /\ Goto("main", "setRight")
           /\ UNCHANGED speedlock
        \/ /\ pc["main"] = "setRight"
           /\ setpoint' = [setpoint EXCEPT !.right = right]
           /\ speedlock' = "free"
           /\ Goto("main", "errors")

\* Mutant: the drive is only disarmed.
DisarmOnceFound == AwaitLock("main", "disarm cmd")

\* "start up sequence is called, disconnected-->disarm-->arm"
ArmOnceFound == AwaitLock("main", "arm cmd")

\* connect waits until the ODrive is found. It may be lost again on the way,
\* before or after the global is assigned.
Connect ==
  /\ pc["main"] \in {"connect", "calConnect", "calReconnect"}
  /\ plugged
  /\ UNCHANGED <<state, result, locks, speedVars, expired, axes, error, setpoint>>
  /\ \/ /\ modrive' = "ok"
        /\ UNCHANGED plugged
        /\ \/ /\ pc["main"] = "calConnect"
              /\ Goto("main", "calibrate")
              /\ UNCHANGED event
           \/ /\ pc["main"] # "calConnect"
              /\ ArmOnceFound
     \/ /\ "unplug" \in Faults
        /\ plugged' = FALSE
        /\ modrive' \in {IF modrive = "none" THEN "none" ELSE "broken", "broken"}
        /\ AwaitLock("main", "disconnected odrive")

\* Modrive.calibrate: clear the errors, calibrate, wait until the axes are idle.
Calibrate ==
  \/ pc["main"] \in {"calibrate", "calWait"} /\ BrokenChannel
  \/ /\ modrive = "ok"
     /\ UNCHANGED <<eventVars, locks, speedVars, expired, modrive, plugged, setpoint>>
     /\ \/ /\ pc["main"] = "calibrate"
           /\ error' = FALSE /\ axes' = "calibrating"
           /\ Goto("main", "calWait")
        \/ /\ pc["main"] = "calWait" /\ axes = "idle"
           /\ Goto("main", "calReconnect")
           /\ UNCHANGED <<axes, error>>

CheckErrors ==
  \/ pc["main"] = "errors" /\ BrokenChannel
  \/ /\ pc["main"] = "errors" /\ modrive = "ok"
     /\ UNCHANGED <<state, result, locks, speedVars, expired, device>>
     /\ \/ error /\ AwaitLock("main", "odrive error")
        \/ ~error /\ Goto("main", "watch") /\ UNCHANGED event

Main ==
  \/ Start \/ Watch \/ Branch \/ SetVel \/ Connect \/ Calibrate \/ CheckErrors
  \/ OnEvent("main") \/ Assign("main")

-----------------------------------------------------------------------------
(* The LCM thread *)

\* drive_state_cmd_callback, for this controller
ReceiveState ==
  /\ pc["lcm"] = "handle"
  /\ \E c \in Commands : AwaitLock("lcm", c)
  /\ UNCHANGED <<state, result, locks, speedVars, expired, device>>

\* drive_vel_cmd_callback asks for the state without the lock; before there is
\* an odrive_bridge the NameError is caught.
ReceiveVelocity ==
  /\ pc["lcm"] = "handle"
  /\ \/ /\ pc["main"] # "start" /\ state = "ArmedState"
        /\ request' \in Speeds
        /\ Goto("lcm", "speedlock")
     \/ /\ pc["main"] = "start" \/ state # "ArmedState"
        /\ UNCHANGED request
        /\ Goto("lcm", "touch")
  /\ UNCHANGED <<eventVars, locks, left, right, expired, device>>

SetSpeeds ==
  /\ UNCHANGED <<eventVars, lock, request, expired, device>>
  /\ \/ /\ pc["lcm"] = "setLeft"
        /\ left' = request
        /\ Goto("lcm", "setRight")
        /\ UNCHANGED <<right, speedlock>>
     \/ /\ pc["lcm"] = "setRight"
        /\ right' = request
        /\ speedlock' = "free"
        /\ Goto("lcm", "touch")
        /\ UNCHANGED left

\* start_time is set; what publish_encoder_msg raises is caught.
Touch ==
  /\ pc["lcm"] = "touch"
  /\ expired' = FALSE
  /\ Goto("lcm", "handle")
  /\ UNCHANGED <<eventVars, locks, speedVars, device>>

Callback == SetSpeeds \/ Touch \/ OnEvent("lcm") \/ Assign("lcm")

-----------------------------------------------------------------------------
(* Time and the ODrive *)

Expire ==
  /\ ~expired
  /\ expired' = TRUE
  /\ UNCHANGED <<pc, eventVars, locks, speedVars, device>>

\* What nothing in the bridge does: the cable, the axes' errors, the end of a
\* calibration.
Unplug ==
  /\ "unplug" \in Faults
  /\ plugged
  /\ plugged' = FALSE
  /\ modrive' = IF modrive = "none" THEN "none" ELSE "broken"
  /\ UNCHANGED <<axes, error, setpoint>>

Plug ==
  /\ ~plugged
  /\ plugged' = TRUE
  /\ UNCHANGED <<modrive, axes, error, setpoint>>

Err ==
  /\ "error" \in Faults
  /\ ~error
  /\ error' = TRUE /\ axes' = "idle"
  /\ UNCHANGED <<modrive, plugged, setpoint>>

CalibrationEnds ==
  /\ axes = "calibrating"
  /\ axes' = "idle"
  /\ UNCHANGED <<modrive, plugged, error, setpoint>>

Odrive ==
  /\ Unplug \/ Plug \/ Err \/ CalibrationEnds
  /\ UNCHANGED <<pc, eventVars, locks, speedVars, expired>>

-----------------------------------------------------------------------------
\* The process lives on without the LCM thread, not without the main thread.
Next ==
  /\ pc["main"] # "dead"
  /\ \/ Main
     \/ Callback \/ ReceiveState \/ ReceiveVelocity
     \/ \E t \in Threads : Enter(t) \/ TakeSpeedlock(t)
     \/ Expire
     \/ Odrive

Spec == Init /\ [][Next]_vars

Alive(A) == pc["main"] # "dead" /\ A

\* Both threads run, a lock that is free again and again is got, the watchdog
\* expires unless it is touched, a calibration ends. No message needs to arrive.
Fairness ==
  /\ WF_vars(Alive(Main))
  /\ WF_vars(Alive(Callback))
  /\ \A t \in Threads : SF_vars(Alive(Enter(t))) /\ SF_vars(Alive(TakeSpeedlock(t)))
  /\ WF_vars(Alive(Expire))
  /\ WF_vars(Alive(CalibrationEnds /\ Odrive))

FairSpec == Spec /\ Fairness
=============================================================================
