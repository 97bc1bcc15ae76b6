--------------------------- MODULE OdriveProperties ---------------------------
(***************************************************************************)
(* What is checked and proved of the ODrive bridge.                        *)
(***************************************************************************)
EXTENDS OdriveBridge

MainPlaces ==
  {"start", "watch", "watchRight", "ifArmed", "ifDisconnected", "ifCalibrate",
   "speedlock", "setLeft", "setRight", "connect", "calConnect", "calibrate",
   "calWait", "calReconnect", "errors", "lock", "event", "assign", "dead"}

LcmPlaces ==
  {"handle", "speedlock", "setLeft", "setRight", "lock", "event", "assign", "touch", "dead"}

\* Every variable has its type.
TypeOK ==
  /\ pc \in [Threads -> MainPlaces \cup LcmPlaces]
  /\ pc["main"] \in MainPlaces /\ pc["lcm"] \in LcmPlaces
  /\ state \in States
  /\ event \in [Threads -> Events \cup {"none"}]
  /\ result \in [Threads -> States]
  /\ lock \in Threads \cup {"free"} /\ speedlock \in Threads \cup {"free"}
  /\ left \in Nat /\ right \in Nat /\ request \in Nat
  /\ expired \in BOOLEAN
  /\ modrive \in {"none", "ok", "broken"} /\ plugged \in BOOLEAN
  /\ axes \in {"idle", "closed_loop", "calibrating"} /\ error \in BOOLEAN
  /\ setpoint \in [left : Nat, right : Nat]

-----------------------------------------------------------------------------
Changing(t) == pc[t] \in {"event", "assign"}

\* The drive does what its state says: in DisarmedState its axes are under no
\* velocity control, unless a thread is just arming it again; a channel may
\* break and set_vel may come late from update, which read the state earlier.
DisarmedIsIdle ==
  state = "DisarmedState" /\ axes = "closed_loop"
    => \E t \in Threads : pc[t] = "assign" /\ event[t] = "arm cmd"

\* The states follow one another as in the README, however the two threads'
\* events interleave: no event is computed from a state that is no longer so.
FollowsDiagram == INSTANCE OdriveDiagram
OnDiagram == FollowsDiagram!Diagram

\* A drive that is disarmed stays so until instructed otherwise (README,
\* DisarmedState): only a command arms it.
DisarmHolds ==
  [][state = "DisarmedState" /\ state' = "ArmedState"
       => pc["lcm"] = "assign" /\ event["lcm"] = "arm cmd"]_vars

-----------------------------------------------------------------------------
\* The lock is held by a thread that will never release it.
LockLost == \E t \in Threads : lock = t /\ ~Changing(t)

\* A drive that can be found gets armed (README, DisconnectedState), unless it
\* is lost again or an exception has taken the lock or the process with it.
FoundIsArmed ==
  state = "DisconnectedState" /\ plugged
    ~> \/ state = "ArmedState" \/ ~plugged
       \/ LockLost \/ pc["main"] = "dead"

Turning == axes = "closed_loop" /\ setpoint # Still

\* The watchdog: when no message arrives any more, the wheels of an armed drive
\* are stopped.
WatchdogStops ==
  <>[](pc["lcm"] = "handle" /\ state = "ArmedState" /\ modrive = "ok"
       /\ pc["main"] # "calWait")
    => <>[]~Turning

\* An armed drive responds to velocity commands "until instructed otherwise or
\* errors out" (README, ArmedState): a command that waits for the speed lock is
\* taken, as long as the drive is armed and its channel in order.
RespondsToVelocity ==
  pc["lcm"] = "speedlock"
    ~> \/ pc["lcm"] # "speedlock" \/ pc["main"] = "dead"
       \/ state # "ArmedState" \/ modrive # "ok"
=============================================================================
