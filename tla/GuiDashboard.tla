----------------------------- MODULE GuiDashboard -----------------------------
(***************************************************************************)
(* base_station/gui: the task pages of the base station.  The router shows *)
(* one page at a time.  Opening one creates its components, which start    *)
(* timers and a connection to the LCM bridge, and then destroys those of   *)
(* the page before.  What a component keeps is lost with it; the Vuex      *)
(* store, timers that are not cleared and connections are not.             *)
(*                                                                         *)
(* A timer's handle is kept in a variable of the component's FILE, which   *)
(* all instances of the component share.  A visit is the opening of a task *)
(* page; a timer is a pair of a file and a visit.  The developers' pages   *)
(* have no timers: they are like the menu.                                 *)
(*                                                                         *)
(* A step is one task of the browser's event loop: a click, a key, a       *)
(* message or a timer, with the Vue watchers it sets off.                  *)
(***************************************************************************)
EXTENDS Integers, SequencesExt, TLC

CONSTANTS
  Indices,        \* cameras: the indices of the buttons, 0 is the microscope
  Keys,           \* those that have a key and a joystick button
  MaxVisits,      \* bound: task pages opened
  Sessions        \* bound: [uses: a set of Features; visits, items: how many visits there
                  \*   are, and waypoints added on one and in a list of it]

Features == {"course", "mode", "arm", "science", "cameras"}

ASSUME DashboardConstants ==
  /\ MaxVisits \in Nat /\ Keys \subseteq Indices /\ Indices \subseteq Nat
  /\ Sessions \subseteq [uses : SUBSET Features, visits : 0 .. MaxVisits, items : Nat]

Tasks == {"RATask", "SATask", "AutonTask"}
Pages == Tasks \cup {"Menu"}
Files == Tasks \cup {"Cameras", "WaypointEditor", "WaypointEditor_Auton", "ArmControls",
                     "DriveControls", "SAControls"}

\* The components of a page that have a timer
FilesOf(p) ==
  CASE p = "RATask" -> {p, "Cameras", "WaypointEditor", "ArmControls", "DriveControls"}
    [] p = "SATask" -> {p, "Cameras", "WaypointEditor", "SAControls"}
    [] p = "AutonTask" -> {p, "Cameras", "WaypointEditor_Auton"}
    [] p = "Menu" -> {}
\* Mutants: WaypointEditor, or Cameras, has no beforeDestroy.
ClearedButEditor(p) == FilesOf(p) \ {"RATask", "AutonTask", "WaypointEditor"}
ClearedButCameras(p) == FilesOf(p) \ {"RATask", "AutonTask", "Cameras"}
\* and those of them that clear it in beforeDestroy
ClearedFiles(p) == FilesOf(p) \ {"RATask", "AutonTask"}
EditorOf(p) == IF p = "AutonTask" THEN "WaypointEditor_Auton" ELSE "WaypointEditor"

VARIABLES
  session, page, visits,
  direct,       \* history: a task page was left for another one
  interval,     \* of each file: the visit whose timer `interval' names
  timers,       \* that run
  online,       \* visits whose LCM bridge client is connected
  vacuum_2,     \* the second /esc_toggle of a tick: under way, told or lost
  autonEnabled, storeRoute, waypointList,   \* store/modules/autonomy.js
  controlMode,                              \* store/modules/controls.js
  editor,       \* of the open page: the waypoint editor,
  arm,          \*   ArmControls,
  science,      \*   SAControls,
  dual_stream,  \*   Cameras ...
  cams,         \* ... and what Cameras shows, of every visit that it outlived
  ghosts,       \* waypoint editors whose timer outlived them, by visit
  told          \* what the rover was told last

store == <<autonEnabled, storeRoute, waypointList, controlMode>>
routing == <<session, page, visits, direct, interval, timers>>
parts == <<editor, arm, science, dual_stream, cams, ghosts>>
link == <<online, vacuum_2>>
vars == <<routing, link, store, parts, told>>

Uses(feature) == feature \in session.uses
OnTask == page \in Tasks

\* A checkbox of the autonomy mode (box), the lists of waypoints, the waypoints
\* themselves (items), the last /nav_status; history: the lists changed on this
\* visit (edited), autonomy was on as it began and the box is not clicked since (stale).
FreshEditor(auton) ==
  [box |-> FALSE, stored |-> <<>>, route |-> <<>>, items |-> <<>>, done |-> FALSE,
   edited |-> {}, stale |-> auton]
\* Checked boxes; history: the mode was set as the page was opened (stale), the last
\* /ik_enabled was not sent (lost).
FreshArm(mode, lost) == [boxes |-> {}, stale |-> mode # "", lost |-> lost]
\* Toggles of the two vacuums that are on, and buttons that were down.
FreshScience == [on |-> {}, held |-> {}]
\* pi_index_1 and pi_index_2
FreshCameras == [one |-> -1, two |-> -1]

\* What the editor publishes to /course.
Course(ed) == [i \in DOMAIN ed.route |-> ed.items[ed.route[i]]]

Init ==
  /\ session \in Sessions
  /\ page = "Menu" /\ visits = 0 /\ direct = FALSE
  /\ interval = [f \in Files |-> 0] /\ timers = {} /\ online = {}
  /\ vacuum_2 = [by |-> 0, is |-> "told"]
  /\ autonEnabled = FALSE /\ storeRoute = <<>> /\ waypointList = <<>> /\ controlMode = ""
  /\ editor = FreshEditor(FALSE) /\ arm = FreshArm("", FALSE) /\ science = FreshScience
  /\ dual_stream = FALSE /\ cams = [v \in 1 .. MaxVisits |-> FreshCameras]
  /\ ghosts = <<>>
  /\ told = [auton |-> FALSE, course |-> <<>>, ik |-> FALSE, talon |-> "none",
             vacuums |-> {}, cameras |-> <<-1, -1>>]

-------------------------------------------------------------------------------
(* The router and the LCM bridge client.                                   *)

\* The new page's components are created, with their timers, before those of the old
\* one are destroyed: a file that both pages use clears the timer of the new one.
\* An editor whose timer goes on publishes the values it last read from the store.
Open(p) ==
  LET v == visits + 1
      interval2 == [f \in Files |-> IF f \in FilesOf(p) THEN v ELSE interval[f]]
  IN  /\ p # page
      /\ p \in Tasks => visits < session.visits
      /\ page' = p
      /\ visits' = IF p \in Tasks THEN v ELSE visits
      /\ direct' = (direct \/ (OnTask /\ p \in Tasks))
      /\ interval' = interval2
      /\ timers' = (timers \cup (FilesOf(p) \X {v}))
                     \ {<<f, interval2[f]>> : f \in ClearedFiles(page)}
      /\ ghosts' = IF <<EditorOf(page), visits>> \in timers'
                   THEN [u \in {visits} \cup DOMAIN ghosts |->
                           IF u \in DOMAIN ghosts THEN ghosts[u]
                           ELSE [course |-> Course(editor), auton |-> autonEnabled,
                                 done |-> editor.done]]
                   ELSE ghosts
      /\ editor' = FreshEditor(autonEnabled) /\ arm' = FreshArm(controlMode, arm.lost)
      /\ science' = FreshScience /\ dual_stream' = FALSE
      /\ cams' = [u \in DOMAIN cams |->
                    IF <<"Cameras", u>> \in timers' THEN cams[u] ELSE FreshCameras]
      /\ UNCHANGED <<session, link, store, told>>

\* ws.onopen, of this visit's client or of one that outlived its page
SocketOpens(v) ==
  /\ v \notin online /\ online' = online \cup {v}
  /\ UNCHANGED <<routing, vacuum_2, store, parts, told>>

\* Its second message is neither told nor lost yet.
UnderWay == vacuum_2.is \in {"on", "off"}

\* ws.onclose: what is under way is lost.
SocketCloses(v) ==
  /\ v \in online /\ online' = online \ {v}
  /\ vacuum_2' = IF UnderWay /\ vacuum_2.by = v THEN [vacuum_2 EXCEPT !.is = "lost"]
                 ELSE vacuum_2
  /\ UNCHANGED <<routing, store, parts, told>>

\* publish: dropped when the client is not connected
Publish(v, message) == told' = IF v \in online THEN message ELSE told

-------------------------------------------------------------------------------
(* WaypointEditor and WaypointEditor_Auton: the lists.                     *)

Lists == {"stored", "route"}
Other(list) == IF list = "stored" THEN "route" ELSE "stored"

\* The watchers put a changed list into the store, for the map to show.
SetLists(ed, changed) ==
  /\ OnTask /\ Uses("course")
  /\ \A list \in Lists : Len(ed[list]) <= session.items
  /\ editor' = [ed EXCEPT !.edited = @ \cup changed]
  /\ storeRoute' = IF "route" \in changed THEN ed.route ELSE storeRoute
  /\ waypointList' = IF "stored" \in changed THEN ed.stored ELSE waypointList
  /\ UNCHANGED <<routing, link, autonEnabled, controlMode, arm, science, dual_stream,
                 cams, ghosts, told>>

\* addWaypoint, parseWaypoint, dropWaypoint
AddWaypoint ==
  /\ Len(editor.items) < session.items
  /\ SetLists([editor EXCEPT !.items = Append(@, [search |-> FALSE, gate |-> FALSE]),
                             !.stored = Append(@, Len(editor.items) + 1)], {"stored"})

\* addItem, of AutonTask: the same waypoint, in the other list as well
AddItem(list, i) ==
  /\ page = "AutonTask"
  /\ SetLists([editor EXCEPT ![Other(list)] = Append(@, editor[list][i])], {Other(list)})

\* draggable, of WaypointEditor: within a list and between the two (group).  The
\* selector of WaypointEditor_Auton's, ".item'", matches nothing.
Drag(list, i, to, j) ==
  /\ page # "AutonTask"
  /\ LET taken == [editor EXCEPT ![list] = RemoveAt(@, i)]
     IN  /\ j <= Len(taken[to]) + 1
         /\ SetLists([taken EXCEPT ![to] = InsertAt(@, j, editor[list][i])], {list, to})

\* Mutant: the watcher does not see the change.
DeleteUnwatched(list, i) ==
  SetLists([editor EXCEPT ![list] = RemoveAt(@, i)], {})
DeleteItem(list, i) ==
  SetLists([editor EXCEPT ![list] = RemoveAt(@, i)], {list})

\* toggleSearch, and toggleGate of AutonTask: no list changes
ToggleSearch(list, i) ==
  SetLists([editor EXCEPT !.items[editor[list][i]].search = ~@], {})
ToggleGate(list, i) ==
  page = "AutonTask" /\ SetLists([editor EXCEPT !.items[editor[list][i]].gate = ~@], {})

EditLists ==
  \/ AddWaypoint
  \/ \E list \in Lists : \E i \in DOMAIN editor[list] :
       \/ AddItem(list, i)
       \/ DeleteItem(list, i)
       \/ ToggleSearch(list, i)
       \/ ToggleGate(list, i)
       \/ \E to \in Lists, j \in 1 .. session.items : Drag(list, i, to, j)

-------------------------------------------------------------------------------
(* The autonomy mode.                                                      *)

\* toggleAndEmit of the box, and toggleAutonMode, which it calls
ToggleAutonMode ==
  /\ OnTask /\ Uses("mode")
  /\ editor' = [editor EXCEPT !.box = ~@, !.stale = FALSE]
  /\ autonEnabled' = ~editor.box
  /\ UNCHANGED <<routing, link, storeRoute, waypointList, controlMode, arm, science,
                 dual_stream, cams, ghosts, told>>

\* /nav_status, to the editor of the visit whose client receives it
OnNavStatus(v, done) ==
  /\ Uses("mode") /\ v \in online
  /\ \/ /\ OnTask /\ v = visits /\ editor' = [editor EXCEPT !.done = done]
        /\ UNCHANGED ghosts
     \/ /\ v \in DOMAIN ghosts /\ ghosts' = [ghosts EXCEPT ![v].done = done]
        /\ UNCHANGED editor
  /\ UNCHANGED <<routing, link, store, arm, science, dual_stream, cams, told>>

\* The timer toggles the box of a course that is done: what becomes of box and mode.
Finished == autonEnabled /\ editor.done
\* Mutants: the mode is set but not the box; toggle() does not emit.
BoxKept == editor
BoxAfter == IF Finished THEN [editor EXCEPT !.box = ~@, !.stale = FALSE] ELSE editor
ModeKept == autonEnabled
ModeAfter == IF Finished THEN ~editor.box ELSE autonEnabled

\* The editor's timer
EditorTick ==
  /\ OnTask /\ <<EditorOf(page), visits>> \in timers
  /\ editor' = BoxAfter /\ autonEnabled' = ModeAfter
  /\ Publish(visits, [told EXCEPT !.auton = ModeAfter, !.course = Course(editor)])
  /\ UNCHANGED <<routing, link, storeRoute, waypointList, controlMode, arm, science,
                 dual_stream, cams, ghosts>>

\* The timer of an editor that is gone.  Its box is gone too: when it should toggle
\* the box the callback throws.
GhostTick(v) ==
  /\ v \in DOMAIN ghosts /\ ~(ghosts[v].auton /\ ghosts[v].done)
  /\ Publish(v, [told EXCEPT !.auton = ghosts[v].auton, !.course = ghosts[v].course])
  /\ UNCHANGED <<routing, link, store, parts>>

-------------------------------------------------------------------------------
(* ArmControls and SAControls.                                             *)

Toggle(boxes, box) == IF box \in boxes THEN boxes \ {box} ELSE boxes \cup {box}
\* Mutant: the box of the mode so far is left checked.
LeftChecked(boxes) == boxes
\* The box of the mode so far is toggled, whatever it shows.
Unchecked(boxes) == IF controlMode # "" THEN Toggle(boxes, controlMode) ELSE boxes
\* Mutant: unchecking inverse kinematics does not disable them.
IkOfBox(mode, checked) == mode = "arm_ik"
IkEnabled(mode, checked) == checked /\ mode = "arm_ik"

\* A click on a box (toggleAndEmit) and updateControlMode
UpdateControlMode(mode) ==
  LET checked == mode \notin arm.boxes
      clicked == Toggle(arm.boxes, mode)
  IN  /\ page = "RATask" /\ Uses("arm")
      /\ arm' = [arm EXCEPT !.boxes = IF checked THEN Unchecked(clicked) ELSE clicked,
                            !.lost = visits \notin online]
      /\ controlMode' = IF checked THEN mode ELSE ""
      /\ Publish(visits, [told EXCEPT !.ik = IkEnabled(mode, checked)])
      /\ UNCHANGED <<routing, link, autonEnabled, storeRoute, waypointList, editor, science,
                     dual_stream, cams, ghosts>>

\* ArmControls' timer
ArmTick(v) ==
  /\ Uses("arm") /\ <<"ArmControls", v>> \in timers
  /\ Publish(v, [told EXCEPT !.talon = "arm"])
  /\ UNCHANGED <<routing, link, store, parts>>

\* Toggle.new_reading: the vacuum's toggle changes as its button goes down.
NewReading(on, v, pressed) ==
  IF v \in pressed \ science.held THEN Toggle(on, v) ELSE on

\* Mutant: only the first button switches the other vacuum off.
ToggledOneWay(pressed) ==
  LET first == NewReading(science.on, 1, pressed)
  IN  NewReading(IF first = {1, 2} THEN {1} ELSE first, 2, pressed)
\* The first vacuum's button switches the second off, then the second's the first.
Toggled(pressed) ==
  LET first == NewReading(science.on, 1, pressed)
      only1 == IF first = {1, 2} THEN {1} ELSE first
      second == NewReading(only1, 2, pressed)
  IN  IF second = {1, 2} THEN {2} ELSE second

\* SAControls' timer: with an Xbox controller, and without.  The controller's toggles are
\* two messages, vacuum_1's and vacuum_2's: the rover gets the second one later than the
\* first, if the connection lasts (bound: before the next tick, 50 ms later).
SATimer(v) == Uses("science") /\ <<"SAControls", v>> \in timers /\ ~UnderWay

SATick(v, pressed) ==
  /\ SATimer(v)
  /\ science' = [on |-> Toggled(pressed), held |-> pressed]
  /\ Publish(v, [told EXCEPT !.vacuums = (@ \ {1}) \cup (science'.on \cap {1})])
  /\ vacuum_2' = IF v \in online
                 THEN [by |-> v, is |-> IF 2 \in science'.on THEN "on" ELSE "off"]
                 ELSE vacuum_2
  /\ UNCHANGED <<routing, online, store, editor, arm, dual_stream, cams, ghosts>>

\* The second message arrives, and the /talon_config after it.
SecondToggle ==
  /\ UnderWay
  /\ told' = [told EXCEPT !.vacuums = IF vacuum_2.is = "on" THEN @ \cup {2} ELSE @ \ {2},
                           !.talon = "sa"]
  /\ vacuum_2' = [vacuum_2 EXCEPT !.is = "told"]
  /\ UNCHANGED <<routing, online, store, parts>>

SATickNoPad(v) ==
  /\ SATimer(v)
  /\ Publish(v, [told EXCEPT !.talon = "sa"])
  /\ UNCHANGED <<routing, link, store, parts>>

-------------------------------------------------------------------------------
(* Cameras.                                                                *)

\* Not the camera of the other stream
Free(index, stream) ==
  index # IF stream = "one" THEN cams[visits].two ELSE cams[visits].one

\* setPiIndex, of a button that is shown and not disabled
SetPiIndex(index, stream) ==
  /\ OnTask /\ Uses("cameras")
  /\ stream = "two" => dual_stream
  /\ index # cams[visits][stream]
  /\ Free(index, stream)
  /\ cams' = [cams EXCEPT ![visits][stream] = index]
  /\ UNCHANGED <<routing, link, store, editor, arm, science, dual_stream, ghosts, told>>

\* The keydown listeners, which are never removed, and the joystick's buttons, which
\* the timers read: every instance that has a timer obeys.
PressKey(index) ==
  /\ Uses("cameras")
  /\ \E v \in 1 .. visits : <<"Cameras", v>> \in timers \/ (OnTask /\ v = visits)
  /\ cams' = [v \in DOMAIN cams |->
                IF <<"Cameras", v>> \in timers \/ (OnTask /\ v = visits)
                THEN [cams[v] EXCEPT !.one = index] ELSE cams[v]]
  /\ UNCHANGED <<routing, link, store, editor, arm, science, dual_stream, ghosts, told>>

ToggleDualStream ==
  /\ OnTask /\ Uses("cameras")
  /\ dual_stream' = ~dual_stream
  /\ cams' = IF dual_stream THEN [cams EXCEPT ![visits].two = -1] ELSE cams
  /\ UNCHANGED <<routing, link, store, editor, arm, science, ghosts, told>>

\* Cameras' timer
CamerasTick(v) ==
  /\ Uses("cameras") /\ <<"Cameras", v>> \in timers
  /\ Publish(v, [told EXCEPT !.cameras = <<cams[v].one, cams[v].two>>])
  /\ UNCHANGED <<routing, link, store, parts>>

-------------------------------------------------------------------------------

Tick(v) ==
  \/ GhostTick(v)
  \/ ArmTick(v)
  \/ SATickNoPad(v) \/ \E pressed \in SUBSET {1, 2} : SATick(v, pressed)
  \/ CamerasTick(v)

Next ==
  \/ \E p \in Pages : Open(p)
  \/ \E v \in 1 .. visits :
       \/ SocketOpens(v) \/ SocketCloses(v) \/ Tick(v)
       \/ \E done \in BOOLEAN : OnNavStatus(v, done)
  \/ SecondToggle
  \/ EditLists
  \/ ToggleAutonMode \/ EditorTick
  \/ \E mode \in {"arm", "arm_ik"} : UpdateControlMode(mode)
  \/ \E index \in Indices, stream \in {"one", "two"} : SetPiIndex(index, stream)
  \/ \E index \in Keys : PressKey(index)
  \/ ToggleDualStream

Spec == Init /\ [][Next]_vars

\* setInterval: a timer that is not cleared keeps firing.  What is under way arrives,
\* unless the connection is lost.
Fairness ==
  /\ WF_vars(EditorTick) /\ WF_vars(SecondToggle)
  /\ \A v \in 1 .. MaxVisits :
       /\ WF_vars(GhostTick(v)) /\ WF_vars(ArmTick(v)) /\ WF_vars(CamerasTick(v))
       /\ WF_vars(SATickNoPad(v) \/ \E pressed \in SUBSET {1, 2} : SATick(v, pressed))
FairSpec == Spec /\ Fairness
===============================================================================
