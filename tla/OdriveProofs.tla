----------------------------- MODULE OdriveProofs -----------------------------
(***************************************************************************)
(* The ODrive bridge, for all commands, speeds and faults: the lock makes  *)
(* each event a transition of the README's diagram, and a disarmed drive   *)
(* is idle; only exceptions lose the locks, and a lost one is never found. *)
(***************************************************************************)
EXTENDS OdriveProperties, TLAPS

\* A thread works on an event only with the lock.
EventsAreLocked == \A t \in Threads : Changing(t) => lock = t

\* What a thread is about to assign is what the present state returns.
ResultsAreCurrent == \A t \in Threads : pc[t] = "assign" => result[t] \in Returned(event[t])

\* It is about to assign DisarmedState only when the axes have been disarmed.
DisarmedBefore ==
  \A t \in Threads : pc[t] = "assign" /\ result[t] = "DisarmedState" => axes # "closed_loop"

EventsOk == EventsAreLocked /\ ResultsAreCurrent /\ DisarmedBefore /\ DisarmedIsIdle

\* The inductive invariant.
OInv == TypeOK /\ EventsOk

-----------------------------------------------------------------------------
\* A thread goes where it is sent, the other stays where it is.
LEMMA GotoType ==
  ASSUME TypeOK, NEW t \in Threads, NEW there,
         t = "main" => there \in MainPlaces,
         t = "lcm" => there \in LcmPlaces,
         Goto(t, there)
  PROVE  /\ pc' \in [Threads -> MainPlaces \cup LcmPlaces]
         /\ pc'["main"] \in MainPlaces /\ pc'["lcm"] \in LcmPlaces
         /\ pc'[t] = there
         /\ \A u \in Threads \ {t} : pc'[u] = pc[u]
BY DEF Goto, Threads, TypeOK

\* What an event returns depends on the state alone.
LEMMA ReturnedSame ==
  ASSUME UNCHANGED state PROVE \A e : Returned(e)' = Returned(e)
BY DEF Returned, Moves

\* A step that leaves the threads that work on events where they are, and puts
\* no axis under control, keeps it.
LEMMA Quiet ==
  ASSUME EventsOk, UNCHANGED <<state, result, lock>>,
         \A u \in Threads : Changing(u) \/ Changing(u)' => pc'[u] = pc[u] /\ event'[u] = event[u],
         axes' = "closed_loop" => axes = "closed_loop"
  PROVE  EventsOk'
<1>1. \A e : Returned(e)' = Returned(e)
  BY ReturnedSame
<1>2. EventsAreLocked'
  BY DEF EventsOk, EventsAreLocked, Changing
<1>3. ResultsAreCurrent'
  BY <1>1 DEF EventsOk, ResultsAreCurrent, Changing
<1>4. DisarmedBefore'
  BY DEF EventsOk, DisarmedBefore, Changing
<1>5. DisarmedIsIdle'
  BY DEF EventsOk, DisarmedIsIdle, Changing
<1>. QED BY <1>2, <1>3, <1>4, <1>5 DEF EventsOk

\* At first no thread works on an event, and every variable has its type.
LEMMA InitOk == ASSUME Init PROVE TypeOK /\ EventsOk
<1>. USE DEF Init
<1>1. pc["main"] = "start" /\ pc["lcm"] = "handle" /\ pc \in [Threads -> MainPlaces \cup LcmPlaces]
  BY DEF Threads, MainPlaces, LcmPlaces
<1>2. TypeOK
  <2>1. event \in [Threads -> Events \cup {"none"}] /\ result \in [Threads -> States]
    BY DEF States
  <2>2. setpoint \in [left : Nat, right : Nat]
    BY DEF Still
  <2>3. expired \in BOOLEAN /\ error \in BOOLEAN /\ plugged \in BOOLEAN
    OBVIOUS
  <2>. QED BY <1>1, <2>1, <2>2, <2>3 DEF TypeOK, MainPlaces, LcmPlaces, States
<1>3. \A t \in Threads : ~Changing(t)
  BY <1>1 DEF Changing, Threads
<1>. QED BY <1>2, <1>3 DEF EventsOk, EventsAreLocked, ResultsAreCurrent, DisarmedBefore,
     DisarmedIsIdle, Changing

-----------------------------------------------------------------------------
(* on_event, in either thread *)

\* A thread that gets the lock is the only one to work on an event.
LEMMA EnterKeeps ==
  ASSUME TypeOK, EventsOk, NEW t \in Threads, Enter(t)
  PROVE  TypeOK' /\ EventsOk'
<1>. USE DEF Enter, TakeLock
<1>1. /\ pc' \in [Threads -> MainPlaces \cup LcmPlaces]
      /\ pc'["main"] \in MainPlaces /\ pc'["lcm"] \in LcmPlaces
      /\ pc'[t] = "event"
      /\ \A u \in Threads \ {t} : pc'[u] = pc[u]
  BY GotoType DEF MainPlaces, LcmPlaces
<1>2. TypeOK'
  BY <1>1 DEF TypeOK, eventVars, speedVars, device, Threads
<1>3. \A u \in Threads : ~Changing(u)
  BY DEF EventsOk, EventsAreLocked, Threads
<1>4. \A u \in Threads : Changing(u)' => u = t /\ pc'[u] = "event"
  BY <1>1, <1>3 DEF Changing
<1>5. EventsAreLocked' /\ ResultsAreCurrent' /\ DisarmedBefore'
  BY <1>4 DEF EventsAreLocked, ResultsAreCurrent, DisarmedBefore, Changing
<1>6. DisarmedIsIdle'
  BY <1>3 DEF EventsOk, DisarmedIsIdle, Changing, eventVars, device
<1>. QED BY <1>2, <1>5, <1>6 DEF EventsOk

\* An exception takes a thread away from its event; the lock stays as it is.
LEMMA RaiseKeeps ==
  ASSUME TypeOK, EventsOk, NEW t \in Threads, pc[t] = "event", Raise(t),
         UNCHANGED <<state, locks, speedVars, expired, result, device>>
  PROVE  TypeOK' /\ EventsOk'
<1>. USE DEF locks, speedVars, device
<1>1. PICK there \in {"lock", "dead"} : Goto(t, there)
  BY DEF Raise, AwaitLock
<1>2. /\ pc' \in [Threads -> MainPlaces \cup LcmPlaces]
      /\ pc'["main"] \in MainPlaces /\ pc'["lcm"] \in LcmPlaces
      /\ pc'[t] = there
      /\ \A u \in Threads \ {t} : pc'[u] = pc[u]
  BY <1>1, GotoType DEF MainPlaces, LcmPlaces
<1>3. /\ event' \in [Threads -> Events \cup {"none"}]
      /\ \A u \in Threads \ {t} : event'[u] = event[u]
  BY DEF Raise, AwaitLock, TypeOK, Events
<1>4. TypeOK'
  BY <1>2, <1>3 DEF TypeOK
<1>5. \A u \in Threads \ {t} : ~Changing(u)
  BY DEF EventsOk, EventsAreLocked, Changing, Threads
<1>6. \A u \in Threads : ~Changing(u)' /\ pc[u] # "assign"
  BY <1>2, <1>5 DEF Changing
<1>. QED BY <1>4, <1>6 DEF EventsOk, EventsAreLocked, ResultsAreCurrent, DisarmedBefore,
     DisarmedIsIdle, Changing

\* The calls to the drive keep its variables' types.
LEMMA CallsType ==
  ASSUME TypeOK, NEW e, DeviceCalls(e)
  PROVE  /\ modrive' \in {"none", "ok", "broken"} /\ plugged' \in BOOLEAN
         /\ axes' \in {"idle", "closed_loop", "calibrating"} /\ error' \in BOOLEAN
         /\ setpoint' \in [left : Nat, right : Nat]
<1>1. Still \in [left : Nat, right : Nat]
  BY DEF Still
<1>. QED BY <1>1 DEF TypeOK, DeviceCalls, Arm, Disarm, Reboot

\* The axes are put under control only on the way to ArmedState, and are not on
\* the way to DisarmedState.
LEMMA CallsFit ==
  ASSUME NEW e, DeviceCalls(e), NEW s \in Returned(e),
         state = "DisarmedState" => axes # "closed_loop"
  PROVE  /\ s = "DisarmedState" => axes' # "closed_loop"
         /\ state = "DisarmedState" /\ axes' = "closed_loop" => e = "arm cmd"
<1>1. CASE state = "DisarmedState"
  BY <1>1 DEF DeviceCalls, UsesDevice, Returned, Moves, States, Arm
<1>2. CASE state # "DisarmedState"
  <2>1. s = "DisarmedState" => state = "ArmedState" /\ e = "disarm cmd"
    BY <1>2 DEF Returned, Moves
  <2>2. state = "ArmedState" /\ e = "disarm cmd" => axes' = "idle"
    BY DEF DeviceCalls, UsesDevice, Disarm
  <2>. QED BY <1>2, <2>1, <2>2
<1>. QED BY <1>1, <1>2

\* A handler that returns leaves its thread with the result.
LEMMA ReturnKeeps ==
  ASSUME TypeOK, EventsOk, NEW t \in Threads, OnEvent(t), ~Raises(t)
  PROVE  TypeOK' /\ EventsOk'
<1>. USE DEF OnEvent, locks, speedVars
<1>1. PICK s \in Returned(event[t]) : result' = [result EXCEPT ![t] = s]
  OBVIOUS
<1>2. /\ pc' \in [Threads -> MainPlaces \cup LcmPlaces]
      /\ pc'["main"] \in MainPlaces /\ pc'["lcm"] \in LcmPlaces
      /\ pc'[t] = "assign"
      /\ \A u \in Threads \ {t} : pc'[u] = pc[u]
  BY GotoType DEF MainPlaces, LcmPlaces
<1>3. pc[t] = "event" /\ UNCHANGED <<event, state, lock>>
  OBVIOUS
<1>4. TypeOK'
  <2>1. result' \in [Threads -> States]
    BY <1>1 DEF TypeOK, Returned
  <2>. QED BY <1>2, <2>1, CallsType DEF TypeOK
<1>5. \A u \in Threads \ {t} : ~Changing(u)
  BY DEF EventsOk, EventsAreLocked, Changing, Threads
<1>6. \A u \in Threads : Changing(u)' => u = t
  BY <1>2, <1>5 DEF Changing
<1>7. state = "DisarmedState" => axes # "closed_loop"
  BY <1>3, <1>5 DEF EventsOk, DisarmedIsIdle, Changing
<1>8. /\ s = "DisarmedState" => axes' # "closed_loop"
      /\ state = "DisarmedState" /\ axes' = "closed_loop" => event[t] = "arm cmd"
  BY <1>3, <1>7, CallsFit
<1>9. result'[t] = s
  BY <1>1 DEF TypeOK
<1>10. EventsAreLocked'
  BY <1>3, <1>6 DEF EventsOk, EventsAreLocked, Changing
<1>11. ResultsAreCurrent'
  <2>1. \A e : Returned(e)' = Returned(e)
    BY <1>3, ReturnedSame
  <2>. QED BY <1>3, <1>6, <1>9, <2>1 DEF ResultsAreCurrent, Changing
<1>12. DisarmedBefore'
  BY <1>6, <1>8, <1>9 DEF DisarmedBefore, Changing
<1>13. DisarmedIsIdle'
  BY <1>2, <1>3, <1>8 DEF DisarmedIsIdle
<1>. QED BY <1>4, <1>10, <1>11, <1>12, <1>13 DEF EventsOk

\* The assignment of the result ends the event.
LEMMA AssignKeeps ==
  ASSUME TypeOK, EventsOk, NEW t \in Threads, Assign(t)
  PROVE  TypeOK' /\ EventsOk'
<1>. USE DEF Assign, speedVars, device
<1>1. AfterEvent(t) \in {"errors", "watch"} \/ (t = "lcm" /\ AfterEvent(t) = "touch")
  BY DEF AfterEvent, Threads
<1>2. /\ pc' \in [Threads -> MainPlaces \cup LcmPlaces]
      /\ pc'["main"] \in MainPlaces /\ pc'["lcm"] \in LcmPlaces
      /\ pc'[t] = AfterEvent(t)
      /\ \A u \in Threads \ {t} : pc'[u] = pc[u]
  <2>1. t = "main" => AfterEvent(t) \in MainPlaces
    BY DEF AfterEvent, MainPlaces
  <2>2. t = "lcm" => AfterEvent(t) \in LcmPlaces
    BY DEF AfterEvent, LcmPlaces
  <2>. QED BY <2>1, <2>2, GotoType
<1>3. TypeOK'
  BY <1>2 DEF TypeOK
<1>4. \A u \in Threads \ {t} : ~Changing(u)
  BY DEF EventsOk, EventsAreLocked, Changing, Threads
<1>5. \A u \in Threads : ~Changing(u)'
  BY <1>1, <1>2, <1>4 DEF Changing
<1>6. state' = "DisarmedState" => axes' # "closed_loop"
  BY DEF EventsOk, DisarmedBefore
<1>. QED BY <1>3, <1>5, <1>6 DEF EventsOk, EventsAreLocked, ResultsAreCurrent,
     DisarmedBefore, DisarmedIsIdle, Changing

-----------------------------------------------------------------------------
(* The other steps of the two threads *)

\* A thread that works on no event and starts none keeps what is true of events.
LEMMA ThreadGoes ==
  ASSUME TypeOK, EventsOk, NEW t \in Threads, NEW there,
         t = "main" => there \in MainPlaces,
         t = "lcm" => there \in LcmPlaces,
         there \notin {"event", "assign"},
         Goto(t, there), ~Changing(t),
         UNCHANGED <<state, result, lock>>,
         \A u \in Threads \ {t} : event'[u] = event[u],
         axes' = "closed_loop" => axes = "closed_loop"
  PROVE  /\ EventsOk'
         /\ pc' \in [Threads -> MainPlaces \cup LcmPlaces]
         /\ pc'["main"] \in MainPlaces /\ pc'["lcm"] \in LcmPlaces
<1>1. /\ pc' \in [Threads -> MainPlaces \cup LcmPlaces]
      /\ pc'["main"] \in MainPlaces /\ pc'["lcm"] \in LcmPlaces
      /\ pc'[t] = there
      /\ \A u \in Threads \ {t} : pc'[u] = pc[u]
  BY GotoType
<1>2. \A u \in Threads : Changing(u) \/ Changing(u)' => pc'[u] = pc[u] /\ event'[u] = event[u]
  BY <1>1 DEF Changing
<1>. QED BY <1>1, <1>2, Quiet

\* So does one that goes to wait for the lock; its event is one of the five.
LEMMA AwaitKeeps ==
  ASSUME TypeOK, EventsOk, NEW t \in Threads, NEW e \in Events, AwaitLock(t, e),
         ~Changing(t), UNCHANGED <<state, result, lock>>,
         axes' = "closed_loop" => axes = "closed_loop"
  PROVE  /\ EventsOk'
         /\ pc' \in [Threads -> MainPlaces \cup LcmPlaces]
         /\ pc'["main"] \in MainPlaces /\ pc'["lcm"] \in LcmPlaces
         /\ event' \in [Threads -> Events \cup {"none"}]
<1>1. /\ event' \in [Threads -> Events \cup {"none"}]
      /\ \A u \in Threads \ {t} : event'[u] = event[u]
  BY DEF AwaitLock, TypeOK
<1>2. Goto(t, "lock") /\ "lock" \in MainPlaces \cap LcmPlaces
  BY DEF AwaitLock, MainPlaces, LcmPlaces
<1>. QED BY <1>1, <1>2, ThreadGoes

\* An exception in the main thread changes nothing but its place and event.
LEMMA BrokenKeeps ==
  ASSUME TypeOK, EventsOk, ~Changing("main"), BrokenChannel
  PROVE  TypeOK' /\ EventsOk'
<1>1. AwaitLock("main", "disconnected odrive")
      /\ UNCHANGED <<state, result, locks, speedVars, expired, device>>
  BY DEF BrokenChannel
<1>2. "main" \in Threads /\ "disconnected odrive" \in Events
  BY DEF Threads, Events
<1>3. /\ EventsOk'
      /\ pc' \in [Threads -> MainPlaces \cup LcmPlaces]
      /\ pc'["main"] \in MainPlaces /\ pc'["lcm"] \in LcmPlaces
      /\ event' \in [Threads -> Events \cup {"none"}]
  BY <1>1, <1>2, AwaitKeeps DEF locks, device
<1>. QED BY <1>1, <1>3 DEF TypeOK, locks, speedVars, device

\* The main thread starts, stops the wheels, asks for the state.
LEMMA LoopKeeps ==
  ASSUME TypeOK, EventsOk, Start \/ Watch \/ Branch
  PROVE  TypeOK' /\ EventsOk'
<1>. DEFINE there == pc'["main"]
<1>1. /\ there \in MainPlaces \ {"event", "assign"}
      /\ Goto("main", there)
      /\ ~Changing("main")
      /\ UNCHANGED <<eventVars, locks, request, expired, device>>
  BY DEF Start, Watch, Branch, Goto, Changing, MainPlaces, TypeOK, Threads, speedVars
<1>2. left' \in Nat /\ right' \in Nat
  BY DEF Start, Watch, Branch, TypeOK, ZeroRight, speedVars
<1>. HIDE DEF there
<1>3. /\ EventsOk'
      /\ pc' \in [Threads -> MainPlaces \cup LcmPlaces]
      /\ pc'["main"] \in MainPlaces /\ pc'["lcm"] \in LcmPlaces
  BY <1>1, ThreadGoes DEF Threads, eventVars, locks, device
<1>. QED BY <1>1, <1>2, <1>3 DEF TypeOK, eventVars, locks, device

\* Sending the speeds changes the set points; both threads queue for the lock.
LEMMA SetVelKeeps ==
  ASSUME TypeOK, EventsOk, SetVel
  PROVE  TypeOK' /\ EventsOk'
<1>1. CASE pc["main"] \in {"setLeft", "setRight"} /\ BrokenChannel
  BY <1>1, BrokenKeeps DEF Changing
<1>2. CASE ~(pc["main"] \in {"setLeft", "setRight"} /\ BrokenChannel)
  <2>1. PICK there \in {"setRight", "errors"} :
          /\ Goto("main", there)
          /\ ~Changing("main")
          /\ UNCHANGED <<eventVars, lock, speedVars, expired, modrive, plugged, axes, error>>
          /\ speedlock' \in {"free", speedlock}
    BY <1>2 DEF SetVel, Changing
  <2>2. setpoint' \in [left : Nat, right : Nat]
    BY <1>2 DEF SetVel, TypeOK
  <2>3. /\ EventsOk'
        /\ pc' \in [Threads -> MainPlaces \cup LcmPlaces]
        /\ pc'["main"] \in MainPlaces /\ pc'["lcm"] \in LcmPlaces
    BY <2>1, ThreadGoes DEF Threads, MainPlaces, eventVars
  <2>. QED BY <2>1, <2>2, <2>3 DEF TypeOK, eventVars, speedVars
<1>. QED BY <1>1, <1>2

\* Once found, the drive is a device with a channel, or one with a broken one.
LEMMA ConnectKeeps ==
  ASSUME TypeOK, EventsOk, Connect
  PROVE  TypeOK' /\ EventsOk'
<1>1. /\ ~Changing("main")
      /\ UNCHANGED <<state, result, locks, speedVars, expired, axes, error, setpoint>>
  BY DEF Connect, Changing
<1>2. modrive' \in {"none", "ok", "broken"} /\ plugged' \in BOOLEAN
  BY DEF Connect, TypeOK
<1>3. /\ EventsOk'
      /\ pc' \in [Threads -> MainPlaces \cup LcmPlaces]
      /\ pc'["main"] \in MainPlaces /\ pc'["lcm"] \in LcmPlaces
      /\ event' \in [Threads -> Events \cup {"none"}]
  <2>1. CASE Goto("main", "calibrate") /\ UNCHANGED event
    BY <1>1, <2>1, ThreadGoes DEF Threads, MainPlaces, TypeOK, locks
  <2>2. CASE \E e \in {"arm cmd", "disconnected odrive"} : AwaitLock("main", e)
    BY <1>1, <2>2, AwaitKeeps DEF Threads, Events, locks
  <2>. QED BY <2>1, <2>2 DEF Connect, ArmOnceFound
<1>. QED BY <1>1, <1>2, <1>3 DEF TypeOK, locks, speedVars

\* A calibration takes the axes out of velocity control.
LEMMA CalibrateKeeps ==
  ASSUME TypeOK, EventsOk, Calibrate
  PROVE  TypeOK' /\ EventsOk'
<1>1. CASE pc["main"] \in {"calibrate", "calWait"} /\ BrokenChannel
  BY <1>1, BrokenKeeps DEF Changing
<1>2. CASE ~(pc["main"] \in {"calibrate", "calWait"} /\ BrokenChannel)
  <2>1. PICK there \in {"calWait", "calReconnect"} :
          /\ Goto("main", there)
          /\ ~Changing("main")
          /\ UNCHANGED <<eventVars, locks, speedVars, expired, modrive, plugged, setpoint>>
          /\ axes' \in {"calibrating", axes}
          /\ error' \in BOOLEAN
    BY <1>2 DEF Calibrate, Changing, TypeOK
  <2>2. /\ EventsOk'
        /\ pc' \in [Threads -> MainPlaces \cup LcmPlaces]
        /\ pc'["main"] \in MainPlaces /\ pc'["lcm"] \in LcmPlaces
    BY <2>1, ThreadGoes DEF Threads, MainPlaces, eventVars, locks
  <2>. QED BY <2>1, <2>2 DEF TypeOK, eventVars, locks, speedVars
<1>. QED BY <1>1, <1>2

\* The error flags are read, and an event or the next round follows.
LEMMA ErrorsKeep ==
  ASSUME TypeOK, EventsOk, CheckErrors
  PROVE  TypeOK' /\ EventsOk'
<1>1. CASE pc["main"] = "errors" /\ BrokenChannel
  BY <1>1, BrokenKeeps DEF Changing
<1>2. CASE ~(pc["main"] = "errors" /\ BrokenChannel)
  <2>1. /\ ~Changing("main")
        /\ UNCHANGED <<state, result, locks, speedVars, expired, device>>
    BY <1>2 DEF CheckErrors, Changing
  <2>2. /\ EventsOk'
        /\ pc' \in [Threads -> MainPlaces \cup LcmPlaces]
        /\ pc'["main"] \in MainPlaces /\ pc'["lcm"] \in LcmPlaces
        /\ event' \in [Threads -> Events \cup {"none"}]
    <3>1. CASE Goto("main", "watch") /\ UNCHANGED event
      BY <2>1, <3>1, ThreadGoes DEF Threads, MainPlaces, TypeOK, locks, device
    <3>2. CASE AwaitLock("main", "odrive error")
      BY <2>1, <3>2, AwaitKeeps DEF Threads, Events, locks, device
    <3>. QED BY <1>2, <3>1, <3>2 DEF CheckErrors
  <2>. QED BY <2>1, <2>2 DEF TypeOK, locks, speedVars, device
<1>. QED BY <1>1, <1>2

\* Either thread gets the speed lock without an event.
LEMMA SpeedlockKeeps ==
  ASSUME TypeOK, EventsOk, NEW t \in Threads, TakeSpeedlock(t)
  PROVE  TypeOK' /\ EventsOk'
<1>1. /\ Goto(t, "setLeft") /\ ~Changing(t) /\ speedlock' = t
      /\ UNCHANGED <<eventVars, lock, speedVars, expired, device>>
      /\ "setLeft" \in MainPlaces \cap LcmPlaces
  BY DEF TakeSpeedlock, Changing, MainPlaces, LcmPlaces
<1>2. /\ EventsOk'
      /\ pc' \in [Threads -> MainPlaces \cup LcmPlaces]
      /\ pc'["main"] \in MainPlaces /\ pc'["lcm"] \in LcmPlaces
  BY <1>1, ThreadGoes DEF eventVars, device
<1>. QED BY <1>1, <1>2 DEF TypeOK, eventVars, speedVars, device

\* The callbacks take commands and speeds.
LEMMA ReceiveKeeps ==
  ASSUME TypeOK, EventsOk, ReceiveState \/ ReceiveVelocity
  PROVE  TypeOK' /\ EventsOk'
<1>1. CASE ReceiveState
  <2>1. PICK c \in Commands : AwaitLock("lcm", c)
    BY <1>1 DEF ReceiveState
  <2>2. /\ c \in Events /\ ~Changing("lcm")
        /\ UNCHANGED <<state, result, locks, speedVars, expired, device>>
    BY <1>1, OdriveConstants DEF ReceiveState, Changing, Events
  <2>3. /\ EventsOk'
        /\ pc' \in [Threads -> MainPlaces \cup LcmPlaces]
        /\ pc'["main"] \in MainPlaces /\ pc'["lcm"] \in LcmPlaces
        /\ event' \in [Threads -> Events \cup {"none"}]
    BY <2>1, <2>2, AwaitKeeps DEF Threads, locks, device
  <2>. QED BY <2>2, <2>3 DEF TypeOK, locks, speedVars, device
<1>2. CASE ReceiveVelocity
  <2>1. PICK there \in {"speedlock", "touch"} : Goto("lcm", there)
    BY <1>2 DEF ReceiveVelocity
  <2>2. /\ ~Changing("lcm") /\ request' \in Nat
        /\ UNCHANGED <<eventVars, locks, left, right, expired, device>>
    BY <1>2, OdriveConstants DEF ReceiveVelocity, Changing, TypeOK
  <2>3. /\ EventsOk'
        /\ pc' \in [Threads -> MainPlaces \cup LcmPlaces]
        /\ pc'["main"] \in MainPlaces /\ pc'["lcm"] \in LcmPlaces
    BY <2>1, <2>2, ThreadGoes DEF Threads, LcmPlaces, eventVars, locks, device
  <2>. QED BY <2>2, <2>3 DEF TypeOK, eventVars, locks, device
<1>. QED BY <1>1, <1>2

\* So do setting the speeds and the start of the time.
LEMMA HandleKeeps ==
  ASSUME TypeOK, EventsOk, SetSpeeds \/ Touch
  PROVE  TypeOK' /\ EventsOk'
<1>1. PICK there \in {"setRight", "touch", "handle"} : Goto("lcm", there)
  BY DEF SetSpeeds, Touch
<1>2. /\ ~Changing("lcm")
      /\ UNCHANGED <<eventVars, lock, request, device>>
      /\ left' \in Nat /\ right' \in Nat
      /\ speedlock' \in {speedlock, "free"} /\ expired' \in BOOLEAN
  BY DEF SetSpeeds, Touch, Changing, TypeOK, speedVars, locks
<1>3. /\ EventsOk'
      /\ pc' \in [Threads -> MainPlaces \cup LcmPlaces]
      /\ pc'["main"] \in MainPlaces /\ pc'["lcm"] \in LcmPlaces
  BY <1>1, <1>2, ThreadGoes DEF Threads, LcmPlaces, eventVars, device
<1>. QED BY <1>2, <1>3 DEF TypeOK, eventVars, device

\* Neither time nor the drive itself puts axes under control.
LEMMA OutsideKeeps ==
  ASSUME TypeOK, EventsOk, Expire \/ Odrive
  PROVE  TypeOK' /\ EventsOk'
<1>1. /\ UNCHANGED <<pc, eventVars, locks, speedVars>>
      /\ axes' \in {axes, "idle"}
      /\ expired' \in BOOLEAN /\ error' \in BOOLEAN /\ plugged' \in BOOLEAN
      /\ modrive' \in {"none", "ok", "broken"} /\ UNCHANGED setpoint
  BY DEF Expire, Odrive, Unplug, Plug, Err, CalibrationEnds, TypeOK, device
<1>2. EventsOk'
  BY <1>1, Quiet DEF eventVars, locks
<1>. QED BY <1>1, <1>2 DEF TypeOK, eventVars, locks, speedVars

-----------------------------------------------------------------------------
\* Every step keeps the invariant.
LEMMA NextKeeps == ASSUME OInv, [Next]_vars PROVE OInv'
<1>. USE DEF OInv
<1>1. CASE Next
  <2>1. CASE \E t \in Threads : OnEvent(t)
    <3>1. PICK t \in Threads : OnEvent(t)
      BY <2>1
    <3>2. CASE Raises(t)
      BY <3>1, <3>2, RaiseKeeps DEF OnEvent
    <3>3. CASE ~Raises(t)
      BY <3>1, <3>3, ReturnKeeps
    <3>. QED BY <3>2, <3>3
  <2>2. CASE \E t \in Threads : Assign(t) \/ Enter(t) \/ TakeSpeedlock(t)
    BY <2>2, AssignKeeps, EnterKeeps, SpeedlockKeeps
  <2>3. CASE Start \/ Watch \/ Branch \/ SetVel \/ Connect \/ Calibrate \/ CheckErrors
    BY <2>3, LoopKeeps, SetVelKeeps, ConnectKeeps, CalibrateKeeps, ErrorsKeep
  <2>4. CASE ReceiveState \/ ReceiveVelocity \/ SetSpeeds \/ Touch
    BY <2>4, ReceiveKeeps, HandleKeeps
  <2>5. CASE Expire \/ Odrive
    BY <2>5, OutsideKeeps
  <2>. QED BY <1>1, <2>1, <2>2, <2>3, <2>4, <2>5 DEF Next, Main, Callback, Threads
<1>2. CASE UNCHANGED vars
  <2>1. UNCHANGED <<pc, eventVars, locks, speedVars, expired, device>>
    BY <1>2 DEF vars
  <2>2. EventsOk'
    BY <2>1, Quiet DEF eventVars, locks, device
  <2>. QED BY <2>1, <2>2 DEF TypeOK, eventVars, locks, speedVars, device
<1>. QED BY <1>1, <1>2

\* The invariant holds of both threads' every interleaving.
THEOREM Invariant == Spec => []OInv
<1>1. Init => OInv
  BY InitOk DEF OInv
<1>. QED BY <1>1, NextKeeps, PTL DEF Spec

\* Every variable keeps its type.
THEOREM TypeCorrect == Spec => []TypeOK
<1>1. OInv => TypeOK
  BY DEF OInv
<1>. QED BY <1>1, Invariant, PTL

\* A disarmed drive is idle (OdriveBridge.on_event and the states' on_event),
\* whatever commands, errors and unplugging come in between.
THEOREM DisarmedStaysIdle == Spec => []DisarmedIsIdle
<1>1. OInv => DisarmedIsIdle
  BY DEF OInv, EventsOk
<1>. QED BY <1>1, Invariant, PTL

-----------------------------------------------------------------------------
\* Every way that a handler moves is one of the diagram.
LEMMA MovesOnDiagram ==
  ASSUME NEW e, NEW s \in Returned(e), state' = s
  PROVE  [FollowsDiagram!DiagramNext]_state
BY DEF Returned, Moves, FollowsDiagram!DiagramNext, FollowsDiagram!Found,
   FollowsDiagram!Commanded, FollowsDiagram!Errs, FollowsDiagram!Reboots, FollowsDiagram!Lost

\* Only the end of an event changes the state.
LEMMA OnlyAssign ==
  ASSUME [Next]_vars, ~\E t \in Threads : Assign(t)
  PROVE  UNCHANGED state
BY DEF Next, Main, Callback, Threads, Start, Watch, Branch, SetVel, Connect, Calibrate,
   CheckErrors, BrokenChannel, OnEvent, Enter, TakeSpeedlock, ReceiveState,
   ReceiveVelocity, SetSpeeds, Touch, Expire, Odrive, vars, eventVars

\* The bridge implements the README's diagram: although both threads decide and
\* assign in separate steps, no transition is lost or made from a stale state.
THEOREM StatesFollowDiagram == Spec => OnDiagram
<1>1. Init => state = "DisconnectedState"
  BY DEF Init
<1>2. ASSUME OInv, [Next]_vars PROVE [FollowsDiagram!DiagramNext]_state
  <2>1. CASE \E t \in Threads : Assign(t)
    <3>1. PICK t \in Threads : Assign(t)
      BY <2>1
    <3>2. result[t] \in Returned(event[t]) /\ state' = result[t]
      BY <1>2, <3>1 DEF OInv, EventsOk, ResultsAreCurrent, Assign
    <3>. QED BY <3>2, MovesOnDiagram
  <2>2. CASE ~\E t \in Threads : Assign(t)
    BY <1>2, <2>2, OnlyAssign
  <2>. QED BY <2>1, <2>2
<1>. QED BY <1>1, <1>2, Invariant, PTL DEF Spec, OnDiagram, FollowsDiagram!Diagram

-----------------------------------------------------------------------------
(* What an exception leaves behind: a lock that nobody releases             *)

Driving(t) == pc[t] \in {"setLeft", "setRight"}

\* The speed lock is held by a thread that has left what it guards (see LockLost).
SpeedlockLost == \E t \in Threads : speedlock = t /\ ~Driving(t)

\* A thread uses the speeds only with their lock, and dies only with the state's.
SpeedsAreLocked == \A t \in Threads : Driving(t) => speedlock = t
DeadHoldLock == \A t \in Threads : pc[t] = "dead" => lock = t

\* The main thread's places before it has found the drive
EarlyPlaces == {"watch", "watchRight", "ifArmed", "ifDisconnected", "connect"}

\* As long as nothing happens to the drive, all that can go wrong is a command that
\* comes before the drive is connected.
FaultFree ==
  /\ ~error /\ modrive # "broken" /\ state # "ErrorState"
  /\ \A t \in Threads : /\ event[t] \notin {"odrive error", "disconnected odrive"}
                        /\ pc[t] = "assign" => result[t] # "ErrorState"
  /\ modrive = "none" =>
       /\ state = "DisconnectedState"
       /\ pc["main"] \in EarlyPlaces \cup {"start"}
       /\ \A t \in Threads : pc[t] = "assign" => result[t] = "DisconnectedState"
  /\ pc["main"] = "start" => modrive = "none"
  /\ ~SpeedlockLost
  /\ LockLost => state = "DisconnectedState" /\ pc["lcm"] = "dead"

LostInv == SpeedsAreLocked /\ DeadHoldLock /\ (Faults = {} => FaultFree)

LEMMA LostInit == ASSUME Init PROVE LostInv
BY DEF Init, LostInv, SpeedsAreLocked, DeadHoldLock, FaultFree, Driving, SpeedlockLost,
   LockLost, Changing, Threads

\* A thread that works on no event keeps this when it drives only with the speed lock, and,
\* as long as nothing happens to the drive, leaves it when it stops driving.
LEMMA OneGoes ==
  ASSUME OInv, LostInv, NEW t \in Threads, NEW there, Goto(t, there),
         there \notin {"event", "assign", "dead", "start"}, ~Changing(t), pc[t] # "dead",
         UNCHANGED <<state, result, lock>>,
         \A u \in Threads \ {t} : event'[u] = event[u] /\ (speedlock' = u <=> speedlock = u),
         there \in {"setLeft", "setRight"} => speedlock' = t,
         Faults = {} =>
           /\ speedlock' = t => there \in {"setLeft", "setRight"}
           /\ ~error' /\ modrive' # "broken"
           /\ event'[t] \notin {"odrive error", "disconnected odrive"}
           /\ modrive' = "none" => modrive = "none" /\ (t = "main" => there \in EarlyPlaces)
           /\ t = "lcm" => modrive' = modrive
  PROVE  LostInv'
<1>1. pc'[t] = there /\ \A u \in Threads \ {t} : pc'[u] = pc[u]
  BY DEF Goto, OInv, TypeOK
<1>2. \A u \in Threads : Changing(u)' => u # t /\ Changing(u)
  BY <1>1 DEF Changing
<1>3. \A u \in Threads : Driving(u)' => speedlock' = u
  BY <1>1 DEF Driving, LostInv, SpeedsAreLocked
<1>4. \A u \in Threads : pc'[u] = "dead" => lock' = u
  BY <1>1 DEF LostInv, DeadHoldLock
<1>5. ASSUME Faults = {} PROVE FaultFree'
  <2>. USE <1>5 DEF LostInv
  <2>1. FaultFree
    OBVIOUS
  <2>2. /\ ~error' /\ modrive' # "broken" /\ state' # "ErrorState"
        /\ \A u \in Threads : /\ event'[u] \notin {"odrive error", "disconnected odrive"}
                              /\ pc'[u] = "assign" => result'[u] # "ErrorState"
    BY <1>1, <2>1 DEF FaultFree
  <2>3. modrive' = "none" =>
          /\ state' = "DisconnectedState"
          /\ pc'["main"] \in EarlyPlaces \cup {"start"}
          /\ \A u \in Threads : pc'[u] = "assign" => result'[u] = "DisconnectedState"
    BY <1>1, <2>1 DEF FaultFree, EarlyPlaces, Threads
  <2>4. pc'["main"] = "start" => modrive' = "none"
    <3>1. pc'["main"] = "start" => t # "main" /\ pc["main"] = "start"
      BY <1>1 DEF Threads
    <3>. QED BY <3>1, <2>1 DEF FaultFree, Threads
  <2>5. ~SpeedlockLost'
    BY <1>1, <2>1 DEF FaultFree, SpeedlockLost, Driving
  <2>6. LockLost' => state' = "DisconnectedState" /\ pc'["lcm"] = "dead"
    <3>1. LockLost' => LockLost
      BY <1>1 DEF LockLost, Changing
    <3>2. pc["lcm"] = "dead" => pc'["lcm"] = "dead"
      BY <1>1 DEF Threads
    <3>. QED BY <2>1, <3>1, <3>2 DEF FaultFree
  <2>. QED BY <2>2, <2>3, <2>4, <2>5, <2>6 DEF FaultFree
<1>. QED BY <1>3, <1>4, <1>5 DEF LostInv, SpeedsAreLocked, DeadHoldLock

\* The main thread at a place it reaches only with a drive can find that broken only when
\* something happens to the drive; it leaves a lock that it holds.
LEMMA BrokenGoes ==
  ASSUME OInv, LostInv, BrokenChannel, ~Changing("main"), pc["main"] # "dead",
         pc["main"] \notin EarlyPlaces \cup {"start"}
  PROVE  LostInv'
<1>1. Faults # {}
  BY DEF BrokenChannel, LostInv, FaultFree, EarlyPlaces, OInv, TypeOK
<1>2. /\ Goto("main", "lock") /\ event' = [event EXCEPT !["main"] = "disconnected odrive"]
      /\ UNCHANGED <<state, result, lock, speedlock>>
  BY DEF BrokenChannel, AwaitLock, locks
<1>3. \A u \in Threads \ {"main"} : event'[u] = event[u] /\ (speedlock' = u <=> speedlock = u)
  BY <1>2 DEF OInv, TypeOK
<1>. QED BY <1>1, <1>2, <1>3, OneGoes DEF Threads

\* The steps of the main thread outside on_event
LEMMA MainLost ==
  ASSUME OInv, LostInv, Start \/ Watch \/ Branch \/ SetVel \/ Connect \/ Calibrate \/ CheckErrors
  PROVE  LostInv'
<1>. USE DEF OInv, TypeOK, EarlyPlaces
<1>1. CASE Start \/ Watch \/ Branch
  <2>. DEFINE there == pc'["main"]
  <2>1. /\ Goto("main", there)
        /\ pc["main"] \in EarlyPlaces \cup {"start", "ifCalibrate"}
        /\ there \in EarlyPlaces \cup {"speedlock", "calConnect", "ifCalibrate", "errors"}
        /\ UNCHANGED <<state, event, result, lock, speedlock, error, modrive>>
    BY <1>1 DEF Start, Watch, Branch, Goto, Threads, eventVars, locks, device
  <2>2. there \in EarlyPlaces \/ state # "DisconnectedState" \/ pc["main"] = "ifCalibrate"
    BY <1>1 DEF Start, Watch, Branch, Goto, Threads
  <2>. HIDE DEF there
  <2>3. Faults = {} => FaultFree
    BY DEF LostInv
  <2>4. Faults = {} => speedlock # "main"
    BY <2>1, <2>3 DEF FaultFree, SpeedlockLost, Driving, Threads
  <2>5. "main" \in Threads /\ ~Changing("main") /\ pc["main"] # "dead"
    BY <2>1 DEF Changing, Threads
  <2>. QED BY <2>1, <2>2, <2>3, <2>4, <2>5, OneGoes DEF FaultFree
<1>2. CASE SetVel
  <2>1. CASE pc["main"] \in {"setLeft", "setRight"} /\ BrokenChannel
    BY <2>1, BrokenGoes DEF Changing
  <2>2. CASE ~(pc["main"] \in {"setLeft", "setRight"} /\ BrokenChannel)
    <3>1. /\ Goto("main", pc'["main"]) /\ pc["main"] \in {"setLeft", "setRight"}
          /\ \/ pc'["main"] = "setRight" /\ speedlock' = speedlock
             \/ pc'["main"] = "errors" /\ speedlock' = "free"
          /\ UNCHANGED <<state, event, result, lock, error, modrive>> /\ modrive = "ok"
      BY <1>2, <2>2 DEF SetVel, Goto, Threads, eventVars
    <3>2. speedlock = "main"
      BY <3>1 DEF LostInv, SpeedsAreLocked, Driving, Threads
    <3>3. Faults = {} => FaultFree
      BY DEF LostInv
    <3>4. "main" \in Threads /\ ~Changing("main") /\ pc["main"] # "dead"
      BY <3>1 DEF Changing, Threads
    <3>5. \A u \in Threads \ {"main"} : event'[u] = event[u] /\ (speedlock' = u <=> speedlock = u)
      BY <3>1, <3>2 DEF Threads
    <3>. QED BY <3>1, <3>2, <3>3, <3>4, <3>5, OneGoes DEF FaultFree, Threads
  <2>. QED BY <2>1, <2>2
<1>3. CASE Connect
  <2>1. pc["main"] \in {"connect", "calConnect", "calReconnect"}
    BY <1>3 DEF Connect
  <2>2. /\ UNCHANGED <<state, result, lock, speedlock, error>> /\ event'["lcm"] = event["lcm"]
        /\ \/ Goto("main", "calibrate") /\ UNCHANGED event /\ modrive' = "ok"
           \/ Goto("main", "lock") /\ event'["main"] = "arm cmd" /\ modrive' = "ok"
           \/ Goto("main", "lock") /\ Faults # {}
    BY <1>3 DEF Connect, ArmOnceFound, AwaitLock, Threads, locks
  <2>3. Faults = {} => FaultFree
    BY DEF LostInv
  <2>4. Faults = {} => speedlock # "main"
    BY <2>1, <2>3 DEF FaultFree, SpeedlockLost, Driving, Threads
  <2>5. /\ "main" \in Threads /\ ~Changing("main") /\ pc["main"] # "dead"
        /\ \A u \in Threads \ {"main"} : u = "lcm"
    BY <2>1 DEF Changing, Threads
  <2>. QED BY <2>2, <2>3, <2>4, <2>5, OneGoes DEF FaultFree
<1>4. CASE Calibrate
  <2>1. CASE pc["main"] \in {"calibrate", "calWait"} /\ BrokenChannel
    BY <2>1, BrokenGoes DEF Changing
  <2>2. CASE ~(pc["main"] \in {"calibrate", "calWait"} /\ BrokenChannel)
    <3>1. /\ Goto("main", pc'["main"]) /\ pc["main"] \in {"calibrate", "calWait"}
          /\ pc'["main"] \in {"calWait", "calReconnect"}
          /\ UNCHANGED <<state, event, result, lock, speedlock, modrive>> /\ modrive = "ok"
          /\ error' \in {FALSE, error}
      BY <1>4, <2>2 DEF Calibrate, Goto, Threads, eventVars, locks
    <3>2. Faults = {} => FaultFree
      BY DEF LostInv
    <3>3. Faults = {} => speedlock # "main"
      BY <3>1, <3>2 DEF FaultFree, SpeedlockLost, Driving, Threads
    <3>4. "main" \in Threads /\ ~Changing("main") /\ pc["main"] # "dead"
      BY <3>1 DEF Changing, Threads
    <3>5. Faults = {} => ~error' /\ event["main"] \notin {"odrive error", "disconnected odrive"}
      BY <3>1, <3>2, <3>4 DEF FaultFree
    <3>. QED BY <3>1, <3>3, <3>4, <3>5, OneGoes
  <2>. QED BY <2>1, <2>2
<1>5. CASE CheckErrors
  <2>1. CASE pc["main"] = "errors" /\ BrokenChannel
    BY <2>1, BrokenGoes DEF Changing
  <2>2. CASE ~(pc["main"] = "errors" /\ BrokenChannel)
    <3>1. /\ pc["main"] = "errors" /\ UNCHANGED <<state, result, lock, speedlock, modrive, error>>
          /\ modrive = "ok" /\ event'["lcm"] = event["lcm"]
          /\ \/ Goto("main", "watch") /\ UNCHANGED event
             \/ Goto("main", "lock") /\ error
      BY <1>5, <2>2 DEF CheckErrors, AwaitLock, Threads, locks, device
    <3>2. Faults = {} => FaultFree
      BY DEF LostInv
    <3>3. Faults = {} => speedlock # "main"
      BY <3>1, <3>2 DEF FaultFree, SpeedlockLost, Driving, Threads
    <3>4. /\ "main" \in Threads /\ ~Changing("main") /\ pc["main"] # "dead"
          /\ \A u \in Threads \ {"main"} : u = "lcm"
      BY <3>1 DEF Changing, Threads
    <3>5. CASE Goto("main", "watch") /\ UNCHANGED event
      BY <3>1, <3>2, <3>3, <3>4, <3>5, OneGoes DEF FaultFree
    <3>6. CASE Goto("main", "lock") /\ error
      <4>1. Faults # {}
        BY <3>2, <3>6 DEF FaultFree
      <4>. QED BY <3>1, <3>4, <3>6, <4>1, OneGoes
    <3>. QED BY <3>1, <3>5, <3>6
  <2>. QED BY <2>1, <2>2
<1>. QED BY <1>1, <1>2, <1>3, <1>4, <1>5

\* The steps of the LCM thread outside on_event
LEMMA LcmLost ==
  ASSUME OInv, LostInv, SetSpeeds \/ Touch \/ ReceiveState \/ ReceiveVelocity
  PROVE  LostInv'
<1>. USE DEF OInv, TypeOK
<1>1. /\ "lcm" \in Threads /\ \A u \in Threads \ {"lcm"} : u = "main"
      /\ Faults = {} => FaultFree
  BY DEF Threads, LostInv
<1>2. CASE SetSpeeds
  <2>1. /\ Goto("lcm", pc'["lcm"]) /\ pc["lcm"] \in {"setLeft", "setRight"}
        /\ \/ pc'["lcm"] = "setRight" /\ speedlock' = speedlock
           \/ pc'["lcm"] = "touch" /\ speedlock' = "free"
        /\ UNCHANGED <<state, event, result, lock, error, modrive>>
    BY <1>2 DEF SetSpeeds, Goto, Threads, eventVars, device
  <2>2. speedlock = "lcm" /\ ~Changing("lcm") /\ pc["lcm"] # "dead"
    BY <1>1, <2>1 DEF LostInv, SpeedsAreLocked, Driving, Changing
  <2>. QED BY <1>1, <2>1, <2>2, OneGoes DEF FaultFree
<1>3. CASE Touch \/ ReceiveState \/ ReceiveVelocity
  <2>1. /\ Goto("lcm", pc'["lcm"]) /\ pc["lcm"] \in {"touch", "handle"}
        /\ pc'["lcm"] \in {"handle", "lock", "speedlock", "touch"}
        /\ UNCHANGED <<state, result, lock, speedlock, error, modrive>>
        /\ event'["main"] = event["main"]
        /\ event'["lcm"] \in {event["lcm"]} \cup Commands
    BY <1>3 DEF Touch, ReceiveState, ReceiveVelocity, AwaitLock, Goto, Threads, eventVars, locks, device
  <2>2. ~Changing("lcm") /\ pc["lcm"] # "dead" /\ ~Driving("lcm")
    BY <2>1 DEF Driving, Changing
  <2>3. Faults = {} => speedlock # "lcm"
    BY <1>1, <2>2 DEF FaultFree, SpeedlockLost
  <2>4. Faults = {} => event'["lcm"] \notin {"odrive error", "disconnected odrive"}
    BY <1>1, <2>1, OdriveConstants DEF FaultFree
  <2>. QED BY <1>1, <2>1, <2>2, <2>3, <2>4, OneGoes DEF FaultFree
<1>. QED BY <1>2, <1>3

\* A thread gets a lock that is free.
LEMMA TakeLost ==
  ASSUME OInv, LostInv, NEW t \in Threads, Enter(t) \/ TakeSpeedlock(t)
  PROVE  LostInv'
<1>. USE DEF OInv, TypeOK
<1>1. Faults = {} => FaultFree
  BY DEF LostInv
<1>2. CASE Enter(t)
  <2>1. /\ pc'[t] = "event" /\ pc[t] = "lock" /\ \A u \in Threads \ {t} : pc'[u] = pc[u]
        /\ lock = "free" /\ lock' = t
        /\ UNCHANGED <<state, event, result, speedlock, error, modrive>>
    BY <1>2 DEF Enter, TakeLock, Goto, eventVars, device
  <2>2. \A u \in Threads : Driving(u)' <=> Driving(u)
    BY <2>1 DEF Driving
  <2>3. \A u \in Threads : pc'[u] # "dead"
    BY <2>1 DEF LostInv, DeadHoldLock, Threads
  <2>4. ~LockLost'
    BY <2>1 DEF LockLost, Changing, Threads
  <2>5. SpeedlockLost' = SpeedlockLost
    BY <2>1, <2>2 DEF SpeedlockLost
  <2>6. ASSUME Faults = {} PROVE FaultFree'
    <3>1. modrive = "none" => t = "lcm"
      BY <1>1, <2>1, <2>6 DEF FaultFree, EarlyPlaces, Threads
    <3>. QED BY <1>1, <2>1, <2>4, <2>5, <2>6, <3>1 DEF FaultFree, Threads
  <2>. QED BY <2>1, <2>2, <2>3, <2>6 DEF LostInv, SpeedsAreLocked, DeadHoldLock
<1>3. CASE TakeSpeedlock(t)
  <2>1. /\ Goto(t, "setLeft") /\ pc[t] = "speedlock" /\ speedlock = "free" /\ speedlock' = t
        /\ UNCHANGED <<state, event, result, lock, error, modrive>>
    BY <1>3 DEF TakeSpeedlock, eventVars, device
  <2>2. ~Changing(t) /\ pc[t] # "dead"
    BY <2>1 DEF Changing
  <2>3. \A u \in Threads \ {t} : event'[u] = event[u] /\ (speedlock' = u <=> speedlock = u)
    BY <2>1 DEF Threads
  <2>4. Faults = {} /\ modrive = "none" => t = "lcm"
    BY <1>1, <2>1 DEF FaultFree, EarlyPlaces, Threads
  <2>. QED BY <1>1, <2>1, <2>2, <2>3, <2>4, OneGoes DEF FaultFree
<1>. QED BY <1>2, <1>3

\* A handler raises or returns.  As long as nothing happens to the drive, it raises only in
\* the LCM thread, before there is a drive.
LEMMA OnEventLost ==
  ASSUME OInv, LostInv, NEW t \in Threads, OnEvent(t)
  PROVE  LostInv'
<1>. USE DEF OInv, TypeOK
<1>1. Faults = {} => FaultFree
  BY DEF LostInv
<1>2. pc[t] = "event" /\ lock = t /\ UNCHANGED <<state, lock, speedlock>>
  BY DEF OnEvent, EventsOk, EventsAreLocked, Changing, locks
<1>3. CASE Raises(t)
  <2>1. /\ Raise(t) /\ UNCHANGED <<result, error, modrive>>
    BY <1>3 DEF OnEvent, device
  <2>2. /\ pc'[t] \in {"lock", "dead"} /\ \A u \in Threads \ {t} : pc'[u] = pc[u]
        /\ t = "lcm" => pc'[t] = "dead" /\ UNCHANGED event
    BY <2>1 DEF Raise, AwaitLock, Goto, Threads
  <2>3. \A u \in Threads : Driving(u)' <=> Driving(u)
    BY <1>2, <2>2 DEF Driving
  <2>4. ASSUME Faults = {} PROVE FaultFree'
    <3>1. modrive = "none"
      BY <1>1, <1>3, <2>4 DEF FaultFree, Raises
    <3>2. t = "lcm" /\ state = "DisconnectedState"
      BY <1>1, <1>2, <2>4, <3>1 DEF FaultFree, EarlyPlaces, Threads
    <3>3. ~SpeedlockLost'
      BY <1>1, <1>2, <2>3, <2>4 DEF FaultFree, SpeedlockLost
    <3>4. pc'["lcm"] = "dead" /\ pc'["main"] = pc["main"] /\ UNCHANGED event
      BY <2>2, <3>2 DEF Threads
    <3>. QED BY <1>1, <1>2, <2>1, <2>4, <3>1, <3>2, <3>3, <3>4 DEF FaultFree, Threads
  <2>5. \A u \in Threads : pc'[u] = "dead" => lock' = u
    BY <1>2, <2>2 DEF LostInv, DeadHoldLock
  <2>. QED BY <1>2, <2>3, <2>4, <2>5 DEF LostInv, SpeedsAreLocked, DeadHoldLock
<1>4. CASE ~Raises(t)
  <2>1. PICK s \in Returned(event[t]) : result' = [result EXCEPT ![t] = s]
    BY <1>4 DEF OnEvent
  <2>2. /\ DeviceCalls(event[t]) /\ UNCHANGED event
        /\ pc'[t] = "assign" /\ \A u \in Threads \ {t} : pc'[u] = pc[u]
    BY <1>4 DEF OnEvent, Goto
  <2>3. /\ \A u \in Threads : Driving(u)' <=> Driving(u)
        /\ \A u \in Threads : pc'[u] = "dead" => pc[u] = "dead"
    BY <1>2, <2>2 DEF Driving
  <2>4. result'[t] = s /\ \A u \in Threads \ {t} : result'[u] = result[u]
    BY <2>1
  <2>5. ASSUME Faults = {} PROVE FaultFree'
    <3>1. FaultFree
      BY <1>1, <2>5
    <3>2. ~error' /\ modrive' # "broken" /\ state # "ErrorState" /\ modrive' = modrive
      <4>1. state # "ErrorState" /\ ~error /\ modrive # "broken"
        BY <3>1 DEF FaultFree
      <4>2. modrive' = modrive /\ (error' = error \/ ~error')
        BY <2>2, <4>1 DEF DeviceCalls
      <4>. QED BY <4>1, <4>2
    <3>3. s # "ErrorState"
      BY <3>1 DEF FaultFree, Returned, Moves
    <3>4. modrive = "none" => s = "DisconnectedState"
      BY <1>4, <3>1 DEF FaultFree, Raises, UsesDevice, Returned, Moves
    <3>5. ~SpeedlockLost'
      BY <1>2, <2>3, <3>1 DEF FaultFree, SpeedlockLost
    <3>6. ~LockLost'
      BY <1>2, <2>2 DEF LockLost, Changing
    <3>7. pc["main"] # "start" => pc'["main"] # "start"
      BY <2>2 DEF Threads
    <3>8. modrive = "none" => t = "lcm"
      BY <1>2, <3>1 DEF FaultFree, EarlyPlaces, Threads
    <3>9. \A u \in Threads : /\ event'[u] \notin {"odrive error", "disconnected odrive"}
                             /\ pc'[u] = "assign" => result'[u] # "ErrorState"
      BY <2>2, <2>4, <3>1, <3>3 DEF FaultFree
    <3>10. modrive = "none" => \A u \in Threads : pc'[u] = "assign" => result'[u] = "DisconnectedState"
      BY <2>2, <2>4, <3>1, <3>4 DEF FaultFree
    <3>11. t = "lcm" => pc'["main"] = pc["main"]
      BY <2>2 DEF Threads
    <3>. QED BY <1>2, <3>1, <3>2, <3>5, <3>6, <3>7, <3>8, <3>9, <3>10, <3>11 DEF FaultFree
  <2>. QED BY <1>2, <2>3, <2>5 DEF LostInv, SpeedsAreLocked, DeadHoldLock
<1>. QED BY <1>3, <1>4

\* The result is assigned, and the lock is free.
LEMMA AssignLost ==
  ASSUME OInv, LostInv, NEW t \in Threads, Assign(t)
  PROVE  LostInv'
<1>. USE DEF OInv, TypeOK
<1>1. /\ pc[t] = "assign" /\ pc'[t] = AfterEvent(t) /\ \A u \in Threads \ {t} : pc'[u] = pc[u]
      /\ state' = result[t] /\ lock' = "free" /\ lock = t
      /\ UNCHANGED <<event, result, speedlock, error, modrive>>
  BY DEF Assign, Goto, device, EventsOk, EventsAreLocked, Changing
<1>2. AfterEvent(t) \in {"errors", "watch", "touch"} /\ (t = "lcm" => AfterEvent(t) = "touch")
  BY DEF AfterEvent, Threads
<1>3. /\ \A u \in Threads : Driving(u)' <=> Driving(u)
      /\ \A u \in Threads : pc'[u] # "dead" /\ (pc'[u] = "assign" => pc[u] = "assign")
  BY <1>1, <1>2 DEF Driving, LostInv, DeadHoldLock
<1>4. ~LockLost'
  BY <1>1 DEF LockLost, Threads
<1>5. ASSUME Faults = {} PROVE FaultFree'
  <2>1. FaultFree
    BY <1>5 DEF LostInv
  <2>2. ~SpeedlockLost'
    BY <1>1, <1>3, <2>1 DEF FaultFree, SpeedlockLost
  <2>3. modrive = "none" => t = "lcm" /\ result[t] = "DisconnectedState"
    BY <1>1, <2>1 DEF FaultFree, EarlyPlaces, Threads
  <2>4. /\ t = "lcm" => pc'["main"] = pc["main"]
        /\ pc'["main"] = "start" => pc["main"] = "start"
    BY <1>1, <1>2 DEF Threads
  <2>. QED BY <1>1, <1>3, <1>4, <2>1, <2>2, <2>3, <2>4 DEF FaultFree
<1>. QED BY <1>1, <1>3, <1>5 DEF LostInv, SpeedsAreLocked, DeadHoldLock

\* Every step keeps this.
LEMMA LostNext == ASSUME OInv, LostInv, [Next]_vars PROVE LostInv'
<1>1. CASE Expire \/ Odrive \/ UNCHANGED vars
  <2>1. UNCHANGED <<pc, state, event, result, lock, speedlock>>
    BY <1>1 DEF Expire, Odrive, vars, eventVars, locks
  <2>2. Faults = {} => /\ error' \in {FALSE, error} /\ modrive' \in {"none", "ok", modrive}
                       /\ modrive' = "none" <=> modrive = "none"
    BY <1>1 DEF Expire, Odrive, Unplug, Plug, Err, CalibrationEnds, vars, device
  <2>3. Faults = {} => FaultFree'
    BY <2>1, <2>2 DEF LostInv, FaultFree, LockLost, SpeedlockLost, Changing, Driving
  <2>. QED BY <2>1, <2>3 DEF LostInv, SpeedsAreLocked, DeadHoldLock, Driving
<1>2. CASE Start \/ Watch \/ Branch \/ SetVel \/ Connect \/ Calibrate \/ CheckErrors
  BY <1>2, MainLost
<1>3. CASE \E t \in Threads : OnEvent(t) \/ Assign(t) \/ Enter(t) \/ TakeSpeedlock(t)
  BY <1>3, OnEventLost, AssignLost, TakeLost
<1>4. CASE SetSpeeds \/ Touch \/ ReceiveState \/ ReceiveVelocity
  BY <1>4, LcmLost
<1>. QED BY <1>1, <1>2, <1>3, <1>4 DEF Next, Main, Callback, Threads

\* It holds of both threads' every interleaving.
THEOREM LostInvariant == Spec => [](OInv /\ LostInv)
<1>1. OInv /\ LostInv /\ [Next]_vars => (OInv /\ LostInv)'
  BY NextKeeps, LostNext
<1>2. Init => OInv /\ LostInv
  BY InitOk, LostInit DEF OInv
<1>. QED BY <1>1, <1>2, PTL DEF Spec

\* A thread that has ended, or waits for a lock that somebody holds
Stuck(t) ==
  \/ pc[t] = "dead"
  \/ pc[t] = "lock" /\ lock # "free"
  \/ pc[t] = "speedlock" /\ speedlock # "free"

\* The threads never wait for one another, or one for itself, unless a lock was lost: what
\* holds the bridge up is the missing release after an exception, not the order of the locks
\* (on_event, update and drive_vel_cmd_callback in __main__.py).
THEOREM StuckOnlyWithLostLock == Spec => []((\A t \in Threads : Stuck(t)) => LockLost \/ SpeedlockLost)
<1>1. OInv /\ LostInv => ((\A t \in Threads : Stuck(t)) => LockLost \/ SpeedlockLost)
  <2>. SUFFICES ASSUME OInv, LostInv, \A t \in Threads : Stuck(t), ~LockLost PROVE SpeedlockLost
    OBVIOUS
  <2>1. PICK t \in Threads : TRUE
    BY DEF Threads
  <2>2. \A u \in Threads : ~Changing(u) /\ ~Driving(u)
    BY DEF Stuck, Changing, Driving
  <2>3. lock = "free"
    BY <2>2 DEF LockLost, OInv, TypeOK
  <2>4. pc[t] # "dead"
    BY <2>3 DEF LostInv, DeadHoldLock, Threads
  <2>5. speedlock \in Threads
    BY <2>1, <2>3, <2>4 DEF Stuck, OInv, TypeOK
  <2>. QED BY <2>2, <2>5 DEF SpeedlockLost
<1>. QED BY <1>1, LostInvariant, PTL

\* Only an exception loses a lock: one in a handler that holds the state's, or a broken
\* channel between the two calls of set_vel.
Thrown == \E t \in Threads : pc[t] = "event" /\ Raises(t)
ThrownDriving == pc["main"] \in {"setLeft", "setRight"} /\ modrive # "ok"

THEOREM ExceptionsLoseLocks ==
  Spec => [][/\ ~LockLost /\ LockLost' => Thrown
             /\ ~SpeedlockLost /\ SpeedlockLost' => ThrownDriving]_vars
<1>1. ASSUME OInv, LostInv, [Next]_vars, ~Thrown PROVE LockLost' => LockLost
  <2>. USE <1>1 DEF OInv, TypeOK
  <2>1. CASE \E t \in Threads : OnEvent(t) \/ Assign(t) \/ Enter(t)
    <3>1. PICK t \in Threads : OnEvent(t) \/ Assign(t) \/ Enter(t)
      BY <2>1
    <3>2. CASE Assign(t)
      BY <3>2 DEF Assign, LockLost, Threads
    <3>3. CASE Enter(t)
      BY <3>3 DEF Enter, TakeLock, Goto, LockLost, Changing, Threads
    <3>4. CASE OnEvent(t)
      <4>1. pc[t] = "event" /\ lock' = t /\ pc'[t] = "assign"
        BY <3>4 DEF OnEvent, Thrown, Goto, EventsOk, EventsAreLocked, Changing, locks
      <4>. QED BY <4>1 DEF LockLost, Changing, Threads
    <3>. QED BY <3>1, <3>2, <3>3, <3>4
  <2>2. CASE ~\E t \in Threads : OnEvent(t) \/ Assign(t) \/ Enter(t)
    <3>1. UNCHANGED lock /\ \A t \in Threads : Changing(t) => Changing(t)'
      <4>1. CASE Start \/ Watch \/ Branch \/ SetVel \/ Connect \/ Calibrate \/ CheckErrors
        BY <4>1 DEF Start, Watch, Branch, SetVel, Connect, Calibrate, CheckErrors,
           BrokenChannel, ArmOnceFound, AwaitLock, Goto, Changing, Threads, locks
      <4>2. CASE \E t \in Threads : TakeSpeedlock(t)
        BY <4>2 DEF TakeSpeedlock, Goto, Changing, Threads
      <4>3. CASE ReceiveState \/ ReceiveVelocity \/ SetSpeeds \/ Touch
        BY <4>3 DEF ReceiveState, ReceiveVelocity, SetSpeeds, Touch, AwaitLock,
           Goto, Changing, Threads, locks
      <4>4. CASE Expire \/ Odrive \/ UNCHANGED vars
        BY <4>4 DEF Expire, Odrive, vars, Changing, locks
      <4>. QED BY <2>2, <4>1, <4>2, <4>3, <4>4 DEF Next, Main, Callback, Threads
    <3>. QED BY <3>1 DEF LockLost
  <2>. QED BY <2>1, <2>2
<1>2. ASSUME OInv, LostInv, [Next]_vars, ~ThrownDriving PROVE SpeedlockLost' => SpeedlockLost
  <2>. USE <1>2 DEF OInv, TypeOK
  <2>1. CASE SetVel \/ SetSpeeds
    BY <2>1 DEF SetVel, SetSpeeds, BrokenChannel, ThrownDriving, Goto, SpeedlockLost, Driving, Threads
  <2>2. CASE \E t \in Threads : TakeSpeedlock(t)
    BY <2>2 DEF TakeSpeedlock, Goto, SpeedlockLost, Driving, Threads
  <2>3. CASE ~(SetVel \/ SetSpeeds \/ \E t \in Threads : TakeSpeedlock(t))
    <3>1. UNCHANGED speedlock /\ \A t \in Threads : Driving(t) => Driving(t)'
      <4>1. CASE Start \/ Watch \/ Branch \/ Connect \/ Calibrate \/ CheckErrors
        BY <4>1 DEF Start, Watch, Branch, Connect, Calibrate, CheckErrors,
           BrokenChannel, ArmOnceFound, AwaitLock, Goto, Driving, Threads, locks
      <4>2. CASE \E t \in Threads : OnEvent(t) \/ Assign(t) \/ Enter(t)
        BY <4>2 DEF OnEvent, Raise, Assign, Enter, AwaitLock, Goto, Driving, Threads, locks
      <4>3. CASE ReceiveState \/ ReceiveVelocity \/ Touch
        BY <4>3 DEF ReceiveState, ReceiveVelocity, Touch, AwaitLock, Goto, Driving, Threads, locks
      <4>4. CASE Expire \/ Odrive \/ UNCHANGED vars
        BY <4>4 DEF Expire, Odrive, vars, Driving, locks
      <4>. QED BY <2>3, <4>1, <4>2, <4>3, <4>4 DEF Next, Main, Callback, Threads
    <3>. QED BY <3>1 DEF SpeedlockLost
  <2>. QED BY <2>1, <2>2, <2>3
<1>. QED BY <1>1, <1>2, LostInvariant, PTL DEF Spec

\* A lost lock is lost for ever, and with it every change of the state: no later command,
\* connection or reboot helps.
THEOREM LostLockFreezesState == Spec => [][LockLost => LockLost' /\ UNCHANGED state]_vars
<1>1. ASSUME OInv, LockLost, [Next]_vars PROVE LockLost' /\ UNCHANGED state
  <2>1. lock # "free" /\ \A t \in Threads : ~Changing(t)
    BY <1>1 DEF OInv, EventsOk, EventsAreLocked, LockLost, Threads
  <2>2. ~\E t \in Threads : Assign(t) \/ OnEvent(t) \/ Enter(t)
    BY <2>1 DEF Assign, OnEvent, Enter, TakeLock, Changing
  <2>3. UNCHANGED state
    BY <1>1, <2>2, OnlyAssign
  <2>4. UNCHANGED lock /\ \A t \in Threads : ~Changing(t)'
    <3>1. CASE Start \/ Watch \/ Branch \/ SetVel \/ Connect \/ Calibrate \/ CheckErrors
      BY <1>1, <2>1, <3>1 DEF OInv, TypeOK, Start, Watch, Branch, SetVel, Connect, Calibrate, CheckErrors,
         BrokenChannel, ArmOnceFound, AwaitLock, Goto, Changing, Threads, locks
    <3>2. CASE \E t \in Threads : TakeSpeedlock(t)
      BY <1>1, <2>1, <3>2 DEF OInv, TypeOK, TakeSpeedlock, Goto, Changing, Threads
    <3>3. CASE ReceiveState \/ ReceiveVelocity \/ SetSpeeds \/ Touch
      BY <1>1, <2>1, <3>3 DEF OInv, TypeOK, ReceiveState, ReceiveVelocity, SetSpeeds, Touch, AwaitLock,
         Goto, Changing, Threads, locks
    <3>4. CASE Expire \/ Odrive \/ UNCHANGED vars
      BY <2>1, <3>4 DEF Expire, Odrive, vars, Changing, locks
    <3>. QED BY <1>1, <2>2, <3>1, <3>2, <3>3, <3>4 DEF Next, Main, Callback, Threads
  <2>. QED BY <1>1, <2>3, <2>4 DEF LockLost
<1>. QED BY <1>1, Invariant, PTL DEF Spec

\* A lost speed lock is lost for ever, and with it the way from a velocity command to the
\* wheels: the speeds and the set points can only be zeroed, by the watchdog and by disarming
\* ("Suddenly No Resposne" in the README of the bridge).
THEOREM LostSpeedlockStopsDriving ==
  Spec => [][SpeedlockLost => /\ SpeedlockLost'
                              /\ left' \in {left, 0} /\ right' \in {right, 0}
                              /\ setpoint' \in {setpoint, Still}]_vars
<1>1. ASSUME OInv, LostInv, SpeedlockLost, [Next]_vars
      PROVE  /\ SpeedlockLost'
             /\ left' \in {left, 0} /\ right' \in {right, 0}
             /\ setpoint' \in {setpoint, Still}
  <2>. USE <1>1 DEF OInv, TypeOK
  <2>1. speedlock # "free" /\ \A t \in Threads : ~Driving(t)
    BY DEF LostInv, SpeedsAreLocked, SpeedlockLost, Threads
  <2>3. ~SetVel /\ ~SetSpeeds /\ ~\E t \in Threads : TakeSpeedlock(t)
    BY <2>1 DEF SetVel, SetSpeeds, TakeSpeedlock, Driving, Threads
  <2>4. CASE Start \/ Watch \/ Branch \/ Connect \/ Calibrate \/ CheckErrors
    BY <2>1, <2>4 DEF Start, Watch, Branch, Connect, Calibrate, CheckErrors, BrokenChannel, ArmOnceFound,
       AwaitLock, Goto, Driving, SpeedlockLost, Threads, ZeroRight, locks, speedVars, device
  <2>5. CASE \E t \in Threads : OnEvent(t) \/ Assign(t) \/ Enter(t)
    <3>1. PICK t \in Threads : OnEvent(t) \/ Assign(t) \/ Enter(t)
      BY <2>5
    <3>2. UNCHANGED <<speedlock, left, right>> /\ \A u \in Threads : ~Driving(u)'
      BY <2>1, <3>1 DEF OnEvent, Raise, Assign, AfterEvent, Enter, AwaitLock, Goto, Driving, Threads,
         locks, speedVars
    <3>3. setpoint' \in {setpoint, Still}
      BY <3>1 DEF OnEvent, DeviceCalls, Disarm, Reboot, Assign, Enter, device
    <3>. QED BY <3>2, <3>3 DEF SpeedlockLost
  <2>6. CASE ReceiveState \/ ReceiveVelocity \/ Touch
    BY <2>1, <2>6 DEF ReceiveState, ReceiveVelocity, Touch, AwaitLock, Goto, Driving, SpeedlockLost,
       Threads, locks, speedVars, device
  <2>7. CASE Expire \/ Odrive \/ UNCHANGED vars
    BY <2>1, <2>7 DEF Expire, Odrive, Unplug, Plug, Err, CalibrationEnds, vars, Driving, SpeedlockLost,
       locks, speedVars, device
  <2>. QED BY <2>3, <2>4, <2>5, <2>6, <2>7 DEF Next, Main, Callback, Threads
<1>. QED BY <1>1, LostInvariant, PTL DEF Spec

\* Both locks survive as long as nothing happens to the drive, but for one case: a command
\* that comes before the drive is connected ends the LCM thread with the state's lock, and
\* the bridge stays in DisconnectedState.
THEOREM SoundDriveKeepsLocks ==
  Spec => [](Faults = {} => /\ ~SpeedlockLost
                            /\ LockLost => state = "DisconnectedState" /\ pc["lcm"] = "dead")
<1>1. LostInv => (Faults = {} => /\ ~SpeedlockLost
                                 /\ LockLost => state = "DisconnectedState" /\ pc["lcm"] = "dead")
  BY DEF LostInv, FaultFree
<1>. QED BY <1>1, LostInvariant, PTL
=============================================================================
