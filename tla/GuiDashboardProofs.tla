-------------------------- MODULE GuiDashboardProofs --------------------------
(***************************************************************************)
(* The task pages, for any cameras, keys and number of visits: the boxes   *)
(* tell the modes, the map shows the lists, the vacuums exclude one        *)
(* another, and the timers that run are those of the open page.            *)
(***************************************************************************)
EXTENDS GuiDashboardProperties, TLAPS

EditorFields == {"box", "stored", "route", "items", "done", "edited", "stale"}
ToldFields == {"auton", "course", "ik", "talon", "vacuums", "cameras"}

\* What the invariants need of the types.
FieldsOk ==
  /\ autonEnabled \in BOOLEAN /\ controlMode \in {"", "arm", "arm_ik"}
  /\ DOMAIN editor = EditorFields /\ editor.box \in BOOLEAN /\ editor.stale \in BOOLEAN
  /\ editor.edited \subseteq Lists
  /\ arm \in [boxes : SUBSET {"arm", "arm_ik"}, stale : BOOLEAN, lost : BOOLEAN]
  /\ science \in [on : SUBSET {1, 2}, held : SUBSET {1, 2}]
  /\ DOMAIN told = ToldFields /\ told.ik \in BOOLEAN /\ told.vacuums \subseteq {1, 2}
  /\ DOMAIN vacuum_2 = {"by", "is"}

\* What is kept of the box and the lists of the open page's editor
EditorTrue == BoxTellsMode /\ MapShowsLists

\* The toggles exclude one another, and with "on" under way the first is told off.
VacuumsTrue ==
  /\ science.on # {1, 2} /\ VacuumsTakeTurns
  /\ vacuum_2.is = "on" => 1 \notin told.vacuums

\* What is kept of the arm's and the science page's controls
ControlsTrue == BoxesShowMode /\ IkMatchesMode /\ VacuumsTrue

\* The inductive invariant.
GInv == FieldsOk /\ EditorTrue /\ ControlsTrue

-------------------------------------------------------------------------------
\* At first nothing is on, nothing is checked and nothing was told.
LEMMA InitOk == ASSUME Init PROVE GInv
<1>. USE DEF Init
<1>1. FieldsOk
  BY DEF FieldsOk, FreshEditor, FreshArm, FreshScience, EditorFields, ToldFields
<1>2. EditorTrue
  BY DEF EditorTrue, BoxTellsMode, MapShowsLists, OnTask, Tasks
<1>3. ControlsTrue
  BY DEF ControlsTrue, BoxesShowMode, IkMatchesMode, VacuumsTrue, VacuumsTakeTurns,
     FreshScience
<1>. QED BY <1>1, <1>2, <1>3 DEF GInv

\* What a message says of inverse kinematics and the vacuums, it says whether it was
\* sent or dropped.
LEMMA PublishTells ==
  ASSUME NEW v, NEW message, Publish(v, message) PROVE told' \in {told, message}
BY DEF Publish

\* A page is opened with fresh components.
LEMMA OpenKeeps == ASSUME GInv, NEW p \in Pages, Open(p) PROVE GInv'
<1>1. /\ editor' = FreshEditor(autonEnabled) /\ arm' = FreshArm(controlMode, arm.lost)
      /\ science' = FreshScience
      /\ UNCHANGED <<autonEnabled, storeRoute, waypointList, controlMode, vacuum_2, told>>
  BY DEF Open, store, link
<1>2. FieldsOk'
  BY <1>1 DEF GInv, FieldsOk, FreshEditor, FreshArm, FreshScience, EditorFields
<1>3. EditorTrue'
  BY <1>1 DEF GInv, FieldsOk, EditorTrue, BoxTellsMode, MapShowsLists, FreshEditor
<1>4. ControlsTrue'
  BY <1>1 DEF GInv, FieldsOk, ControlsTrue, BoxesShowMode, IkMatchesMode, VacuumsTrue,
     VacuumsTakeTurns, FreshArm, FreshScience
<1>. QED BY <1>2, <1>3, <1>4 DEF GInv

\* A step that leaves the store, the page and its components alone, and says nothing
\* of inverse kinematics and vacuums, keeps the invariant.
LEMMA Apart ==
  ASSUME GInv, UNCHANGED <<page, visits, vacuum_2, store, editor, arm, science>>,
         DOMAIN told' = ToldFields, told'.ik = told.ik, told'.vacuums = told.vacuums
  PROVE  GInv'
<1>1. FieldsOk'
  BY DEF GInv, FieldsOk, store
<1>2. EditorTrue'
  BY DEF GInv, EditorTrue, BoxTellsMode, MapShowsLists, OnTask, store
<1>3. ControlsTrue'
  BY DEF GInv, ControlsTrue, BoxesShowMode, IkMatchesMode, VacuumsTrue, VacuumsTakeTurns, store
<1>. QED BY <1>1, <1>2, <1>3 DEF GInv

-------------------------------------------------------------------------------
(* The editor.                                                             *)

\* A changed list is put into the store as it is.
LEMMA SetListsKeeps ==
  ASSUME GInv, NEW ed, NEW changed \in SUBSET Lists, SetLists(ed, changed),
         DOMAIN ed = EditorFields, ed.box = editor.box, ed.stale = editor.stale,
         ed.edited = editor.edited, \A list \in Lists \ changed : ed[list] = editor[list]
  PROVE  GInv'
<1>1. /\ editor' = [ed EXCEPT !.edited = ed.edited \cup changed]
      /\ storeRoute' = IF "route" \in changed THEN ed.route ELSE storeRoute
      /\ waypointList' = IF "stored" \in changed THEN ed.stored ELSE waypointList
      /\ UNCHANGED <<page, visits, vacuum_2, autonEnabled, controlMode, arm, science, told>>
  BY DEF SetLists, routing, link
<1>2. /\ DOMAIN editor' = EditorFields /\ editor'.box = editor.box
      /\ editor'.stale = editor.stale /\ editor'.edited = editor.edited \cup changed
      /\ editor'.route = ed.route /\ editor'.stored = ed.stored
  BY <1>1 DEF EditorFields
<1>3. FieldsOk'
  BY <1>1, <1>2 DEF GInv, FieldsOk
<1>4. BoxTellsMode'
  BY <1>1, <1>2 DEF GInv, EditorTrue, BoxTellsMode, OnTask
<1>5. MapShowsLists'
  BY <1>1, <1>2 DEF GInv, EditorTrue, MapShowsLists, OnTask, Lists
<1>6. ControlsTrue'
  BY <1>1 DEF GInv, ControlsTrue, BoxesShowMode, IkMatchesMode, VacuumsTrue, VacuumsTakeTurns
<1>. QED BY <1>3, <1>4, <1>5, <1>6 DEF GInv, EditorTrue

\* The edits change the lists they say they change.
LEMMA EditListsKeeps == ASSUME GInv, EditLists PROVE GInv'
<1>. USE DEF Lists, EditorFields
<1>0. DOMAIN editor = EditorFields
  BY DEF GInv, FieldsOk
<1>1. CASE AddWaypoint
  <2>. DEFINE ed == [editor EXCEPT !.items = Append(@, [search |-> FALSE, gate |-> FALSE]),
                                   !.stored = Append(@, Len(editor.items) + 1)]
  <2>1. /\ DOMAIN ed = EditorFields /\ ed.box = editor.box /\ ed.stale = editor.stale
        /\ ed.edited = editor.edited /\ ed.route = editor.route
    BY <1>0
  <2>2. SetLists(ed, {"stored"})
    BY <1>1 DEF AddWaypoint
  <2>. HIDE DEF ed
  <2>. QED BY <2>1, <2>2, SetListsKeeps
<1>2. ASSUME NEW list \in Lists, NEW i, AddItem(list, i) PROVE GInv'
  <2>. DEFINE ed == [editor EXCEPT ![Other(list)] = Append(@, editor[list][i])]
  <2>1. Other(list) \in Lists
    BY DEF Other
  <2>2. /\ DOMAIN ed = EditorFields /\ ed.box = editor.box /\ ed.stale = editor.stale
        /\ ed.edited = editor.edited /\ \A l \in Lists \ {Other(list)} : ed[l] = editor[l]
    BY <1>0, <2>1
  <2>3. SetLists(ed, {Other(list)})
    BY <1>2 DEF AddItem
  <2>. HIDE DEF ed
  <2>. QED BY <2>1, <2>2, <2>3, SetListsKeeps
<1>3. ASSUME NEW list \in Lists, NEW i, DeleteItem(list, i) PROVE GInv'
  <2>. DEFINE ed == [editor EXCEPT ![list] = RemoveAt(@, i)]
  <2>1. /\ DOMAIN ed = EditorFields /\ ed.box = editor.box /\ ed.stale = editor.stale
        /\ ed.edited = editor.edited /\ \A l \in Lists \ {list} : ed[l] = editor[l]
    BY <1>0
  <2>2. SetLists(ed, {list})
    BY <1>3 DEF DeleteItem
  <2>. HIDE DEF ed
  <2>. QED BY <2>1, <2>2, SetListsKeeps
<1>4. ASSUME NEW list \in Lists, NEW i, ToggleSearch(list, i) PROVE GInv'
  <2>. DEFINE ed == [editor EXCEPT !.items[editor[list][i]].search = ~@]
  <2>1. /\ DOMAIN ed = EditorFields /\ ed.box = editor.box /\ ed.stale = editor.stale
        /\ ed.edited = editor.edited /\ \A l \in Lists : ed[l] = editor[l]
    BY <1>0
  <2>2. SetLists(ed, {})
    BY <1>4 DEF ToggleSearch
  <2>. HIDE DEF ed
  <2>. QED BY <2>1, <2>2, SetListsKeeps
<1>5. ASSUME NEW list \in Lists, NEW i, ToggleGate(list, i) PROVE GInv'
  <2>. DEFINE ed == [editor EXCEPT !.items[editor[list][i]].gate = ~@]
  <2>1. /\ DOMAIN ed = EditorFields /\ ed.box = editor.box /\ ed.stale = editor.stale
        /\ ed.edited = editor.edited /\ \A l \in Lists : ed[l] = editor[l]
    BY <1>0
  <2>2. SetLists(ed, {})
    BY <1>5 DEF ToggleGate
  <2>. HIDE DEF ed
  <2>. QED BY <2>1, <2>2, SetListsKeeps
<1>6. ASSUME NEW list \in Lists, NEW i, NEW to \in Lists, NEW j, Drag(list, i, to, j)
      PROVE  GInv'
  <2>. DEFINE taken == [editor EXCEPT ![list] = RemoveAt(@, i)]
              ed == [taken EXCEPT ![to] = InsertAt(@, j, editor[list][i])]
  <2>1. /\ DOMAIN taken = EditorFields /\ taken.box = editor.box /\ taken.stale = editor.stale
        /\ taken.edited = editor.edited /\ \A l \in Lists \ {list} : taken[l] = editor[l]
    BY <1>0
  <2>2. SetLists(ed, {list, to})
    BY <1>6 DEF Drag
  <2>. HIDE DEF taken
  <2>3. /\ DOMAIN ed = EditorFields /\ ed.box = editor.box /\ ed.stale = editor.stale
        /\ ed.edited = editor.edited /\ \A l \in Lists \ {list, to} : ed[l] = editor[l]
    BY <2>1
  <2>. HIDE DEF ed
  <2>. QED BY <2>2, <2>3, SetListsKeeps
<1>. QED BY <1>1, <1>2, <1>3, <1>4, <1>5, <1>6 DEF EditLists

\* Clicks and finished courses change box and mode together.
LEMMA ModeKeeps == ASSUME GInv, ToggleAutonMode \/ EditorTick PROVE GInv'
<1>1. CASE ToggleAutonMode
  <2>1. /\ editor' = [editor EXCEPT !.box = ~editor.box, !.stale = FALSE]
        /\ autonEnabled' = ~editor.box
        /\ UNCHANGED <<page, visits, vacuum_2, storeRoute, waypointList, controlMode, arm,
                       science, told>>
    BY <1>1 DEF ToggleAutonMode, routing, link
  <2>2. /\ DOMAIN editor' = EditorFields /\ editor'.box = ~editor.box
        /\ editor'.stale = FALSE /\ editor'.edited = editor.edited
        /\ editor'.route = editor.route /\ editor'.stored = editor.stored
    BY <2>1 DEF GInv, FieldsOk, EditorFields
  <2>. QED BY <2>1, <2>2 DEF GInv, FieldsOk, EditorTrue, ControlsTrue, BoxTellsMode,
       MapShowsLists, BoxesShowMode, IkMatchesMode, VacuumsTrue, VacuumsTakeTurns, OnTask
<1>2. CASE EditorTick
  <2>1. /\ editor' = BoxAfter /\ autonEnabled' = ModeAfter
        /\ UNCHANGED <<page, visits, vacuum_2, storeRoute, waypointList, controlMode, arm,
                       science>>
        /\ told' \in {told, [told EXCEPT !.auton = ModeAfter, !.course = Course(editor)]}
    BY <1>2, PublishTells DEF EditorTick, routing, link
  <2>2. DOMAIN told' = ToldFields /\ told'.ik = told.ik /\ told'.vacuums = told.vacuums
    BY <2>1 DEF GInv, FieldsOk, ToldFields
  <2>3. /\ DOMAIN editor' = EditorFields /\ editor'.edited = editor.edited
        /\ editor'.route = editor.route /\ editor'.stored = editor.stored
        /\ editor'.box \in BOOLEAN /\ editor'.stale \in BOOLEAN /\ autonEnabled' \in BOOLEAN
        /\ ~editor'.stale => editor'.box = autonEnabled' \/ (editor' = editor /\ UNCHANGED autonEnabled)
    <3>1. CASE Finished
      <4>1. editor' = [editor EXCEPT !.box = ~editor.box, !.stale = FALSE]
            /\ autonEnabled' = ~editor.box
        BY <2>1, <3>1 DEF BoxAfter, ModeAfter
      <4>. QED BY <4>1 DEF GInv, FieldsOk, EditorFields
    <3>2. CASE ~Finished
      BY <2>1, <3>2 DEF BoxAfter, ModeAfter, GInv, FieldsOk
    <3>. QED BY <3>1, <3>2
  <2>. QED BY <2>1, <2>2, <2>3 DEF GInv, FieldsOk, EditorTrue, ControlsTrue, BoxTellsMode,
       MapShowsLists, BoxesShowMode, IkMatchesMode, VacuumsTrue, VacuumsTakeTurns, OnTask
<1>. QED BY <1>1, <1>2

-------------------------------------------------------------------------------
(* The arm and the science page's controls.                                *)

\* A click on a box, and what updateControlMode makes of it: when the boxes show the
\* mode, unchecking that of the mode so far leaves the one that was clicked.
LEMMA UpdateControlModeKeeps ==
  ASSUME GInv, NEW mode \in {"arm", "arm_ik"}, UpdateControlMode(mode) PROVE GInv'
<1>. DEFINE checked == mode \notin arm.boxes
            clicked == Toggle(arm.boxes, mode)
            boxes == IF checked THEN Unchecked(clicked) ELSE clicked
<1>1. /\ arm' = [arm EXCEPT !.boxes = boxes, !.lost = visits \notin online]
      /\ controlMode' = IF checked THEN mode ELSE ""
      /\ Publish(visits, [told EXCEPT !.ik = IkEnabled(mode, checked)])
      /\ page = "RATask"
      /\ UNCHANGED <<page, visits, vacuum_2, autonEnabled, storeRoute, waypointList, editor,
                     science>>
  BY DEF UpdateControlMode, routing, link
<1>2. arm \in [boxes : SUBSET {"arm", "arm_ik"}, stale : BOOLEAN, lost : BOOLEAN]
      /\ controlMode \in {"", "arm", "arm_ik"} /\ DOMAIN told = ToldFields
  BY DEF GInv, FieldsOk
<1>3. boxes \in SUBSET {"arm", "arm_ik"}
  BY <1>2 DEF Toggle, Unchecked
<1>4. arm.boxes = {controlMode} \ {""} => boxes = {controlMode'} \ {""}
  BY <1>1, <1>2 DEF Toggle, Unchecked
<1>5. controlMode' \in {"", "arm", "arm_ik"}
      /\ IkEnabled(mode, checked) = (controlMode' = "arm_ik")
  BY <1>1 DEF IkEnabled
<1>. HIDE DEF boxes
<1>6. /\ arm'.boxes = boxes /\ arm'.stale = arm.stale /\ arm'.lost = (visits \notin online)
      /\ arm' \in [boxes : SUBSET {"arm", "arm_ik"}, stale : BOOLEAN, lost : BOOLEAN]
  BY <1>1, <1>2, <1>3
<1>7. /\ told' = IF visits \in online THEN [told EXCEPT !.ik = IkEnabled(mode, checked)]
                 ELSE told
      /\ IkEnabled(mode, checked) \in BOOLEAN
  BY <1>1 DEF Publish, IkEnabled
<1>. HIDE DEF checked
<1>8. /\ DOMAIN told' = ToldFields /\ told'.ik \in BOOLEAN /\ told'.vacuums = told.vacuums
      /\ visits \in online => told'.ik = IkEnabled(mode, checked)
  BY <1>2, <1>7 DEF GInv, FieldsOk, ToldFields
<1>9. FieldsOk'
  BY <1>1, <1>5, <1>6, <1>8 DEF GInv, FieldsOk
<1>10. EditorTrue'
  BY <1>1 DEF GInv, EditorTrue, BoxTellsMode, MapShowsLists, OnTask
<1>11. BoxesShowMode'
  BY <1>1, <1>4, <1>6 DEF GInv, ControlsTrue, BoxesShowMode
<1>12. IkMatchesMode'
  BY <1>5, <1>6, <1>8 DEF IkMatchesMode
<1>13. VacuumsTrue'
  BY <1>1, <1>8 DEF GInv, ControlsTrue, VacuumsTrue, VacuumsTakeTurns
<1>. QED BY <1>9, <1>10, <1>11, <1>12, <1>13 DEF GInv, ControlsTrue

\* Whatever buttons are down, the second's reset leaves one toggle on at most.
LEMMA OneVacuum ==
  ASSUME GInv, NEW pressed \in SUBSET {1, 2}
  PROVE  Toggled(pressed) \in SUBSET {1, 2} /\ Toggled(pressed) # {1, 2}
<1>1. science.on \in SUBSET {1, 2}
  BY DEF GInv, FieldsOk
<1>2. \A on \in SUBSET {1, 2} : \A v \in {1, 2} : NewReading(on, v, pressed) \in SUBSET {1, 2}
  BY DEF NewReading, Toggle
<1>3. /\ NewReading(science.on, 1, pressed) \in SUBSET {1, 2}
      /\ NewReading({1}, 2, pressed) \in SUBSET {1, 2}
      /\ NewReading(NewReading(science.on, 1, pressed), 2, pressed) \in SUBSET {1, 2}
  BY <1>1, <1>2
<1>4. {2} \in SUBSET {1, 2} /\ {2} # {1, 2}
  OBVIOUS
<1>. QED BY <1>3, <1>4, Zenon DEF Toggled

\* The first message of a tick switches its vacuum off if the second is to switch on.
LEMMA SATickKeeps ==
  ASSUME GInv, NEW v, NEW pressed \in SUBSET {1, 2}, SATick(v, pressed) PROVE GInv'
<1>. DEFINE on == Toggled(pressed)
            first == (told.vacuums \ {1}) \cup (on \cap {1})
<1>1. /\ science' = [on |-> on, held |-> pressed]
      /\ UNCHANGED <<page, visits, autonEnabled, storeRoute, waypointList, controlMode, editor,
                     arm>>
      /\ told' = IF v \in online THEN [told EXCEPT !.vacuums = first] ELSE told
      /\ vacuum_2' = IF v \in online THEN [by |-> v, is |-> IF 2 \in on THEN "on" ELSE "off"]
                     ELSE vacuum_2
  BY DEF SATick, Publish, routing, store
<1>2. on \in SUBSET {1, 2} /\ on # {1, 2}
  BY OneVacuum
<1>. HIDE DEF on
<1>3. /\ DOMAIN told' = ToldFields /\ told'.ik = told.ik
      /\ told'.vacuums = IF v \in online THEN first ELSE told.vacuums
      /\ told.vacuums \subseteq {1, 2} /\ DOMAIN vacuum_2 = {"by", "is"}
  BY <1>1 DEF GInv, FieldsOk, ToldFields
<1>4. DOMAIN vacuum_2' = {"by", "is"} /\ told'.vacuums \subseteq {1, 2}
  BY <1>1, <1>2, <1>3
<1>5. FieldsOk'
  BY <1>1, <1>2, <1>3, <1>4 DEF GInv, FieldsOk
<1>6. EditorTrue'
  BY <1>1 DEF GInv, EditorTrue, BoxTellsMode, MapShowsLists, OnTask
<1>7. BoxesShowMode' /\ IkMatchesMode'
  BY <1>1, <1>3 DEF GInv, ControlsTrue, BoxesShowMode, IkMatchesMode
<1>8. VacuumsTrue'
  <2>1. CASE v \in online
    BY <1>1, <1>2, <1>3, <2>1 DEF VacuumsTrue, VacuumsTakeTurns
  <2>2. CASE v \notin online
    BY <1>1, <1>2, <1>3, <2>2 DEF GInv, ControlsTrue, VacuumsTrue, VacuumsTakeTurns
  <2>. QED BY <2>1, <2>2
<1>. QED BY <1>5, <1>6, <1>7, <1>8 DEF GInv, ControlsTrue

\* With the second message the rover is told what the toggles were at the tick: one on
\* at most.
LEMMA SecondToggleKeeps == ASSUME GInv, SecondToggle PROVE GInv'
<1>. DEFINE second == IF vacuum_2.is = "on" THEN told.vacuums \cup {2} ELSE told.vacuums \ {2}
<1>1. /\ UNCHANGED <<page, visits, autonEnabled, storeRoute, waypointList, controlMode, editor,
                     arm, science>>
      /\ told' = [told EXCEPT !.vacuums = second, !.talon = "sa"]
      /\ vacuum_2' = [vacuum_2 EXCEPT !.is = "told"]
  BY DEF SecondToggle, routing, store, parts
<1>2. DOMAIN told = ToldFields /\ DOMAIN vacuum_2 = {"by", "is"}
      /\ told.vacuums \subseteq {1, 2}
  BY DEF GInv, FieldsOk
<1>3. /\ DOMAIN told' = ToldFields /\ told'.ik = told.ik /\ told'.vacuums = second
      /\ DOMAIN vacuum_2' = {"by", "is"} /\ vacuum_2'.is = "told"
  BY <1>1, <1>2 DEF ToldFields
<1>4. second \subseteq {1, 2} /\ second # {1, 2}
  BY <1>2 DEF GInv, ControlsTrue, VacuumsTrue
<1>. HIDE DEF second
<1>5. FieldsOk'
  BY <1>1, <1>3, <1>4 DEF GInv, FieldsOk
<1>6. EditorTrue'
  BY <1>1 DEF GInv, EditorTrue, BoxTellsMode, MapShowsLists, OnTask
<1>7. BoxesShowMode' /\ IkMatchesMode'
  BY <1>1, <1>3 DEF GInv, ControlsTrue, BoxesShowMode, IkMatchesMode
<1>8. VacuumsTrue'
  BY <1>1, <1>3, <1>4 DEF GInv, ControlsTrue, VacuumsTrue, VacuumsTakeTurns
<1>. QED BY <1>5, <1>6, <1>7, <1>8 DEF GInv, ControlsTrue

\* A message that is lost changes nothing that was told.
LEMMA SocketClosesKeeps == ASSUME GInv, NEW v, SocketCloses(v) PROVE GInv'
<1>1. /\ UNCHANGED <<page, visits, autonEnabled, storeRoute, waypointList, controlMode, editor,
                     arm, science, told>>
      /\ vacuum_2' \in {vacuum_2, [vacuum_2 EXCEPT !.is = "lost"]}
  BY DEF SocketCloses, routing, store, parts
<1>2. /\ DOMAIN vacuum_2' = {"by", "is"} /\ vacuum_2'.is \in {vacuum_2.is, "lost"}
  BY <1>1 DEF GInv, FieldsOk
<1>3. FieldsOk'
  BY <1>1, <1>2 DEF GInv, FieldsOk
<1>4. EditorTrue'
  BY <1>1 DEF GInv, EditorTrue, BoxTellsMode, MapShowsLists, OnTask
<1>5. ControlsTrue'
  BY <1>1, <1>2 DEF GInv, ControlsTrue, BoxesShowMode, IkMatchesMode, VacuumsTrue,
     VacuumsTakeTurns
<1>. QED BY <1>3, <1>4, <1>5 DEF GInv

-------------------------------------------------------------------------------
(* The other timers, the connections and the cameras.                      *)

\* No other message is about inverse kinematics or the vacuums.
LEMMA TickKeeps == ASSUME GInv, NEW v, Tick(v) PROVE GInv'
<1>0. DOMAIN told = ToldFields
  BY DEF GInv, FieldsOk
<1>1. CASE GhostTick(v)
  <2>1. /\ UNCHANGED <<page, visits, vacuum_2, store, editor, arm, science>>
        /\ told' \in {told, [told EXCEPT !.auton = ghosts[v].auton, !.course = ghosts[v].course]}
    BY <1>1, PublishTells DEF GhostTick, routing, link, parts
  <2>2. DOMAIN told' = ToldFields /\ told'.ik = told.ik /\ told'.vacuums = told.vacuums
    BY <1>0, <2>1 DEF ToldFields
  <2>. QED BY <2>1, <2>2, Apart
<1>2. CASE ArmTick(v)
  <2>1. /\ UNCHANGED <<page, visits, vacuum_2, store, editor, arm, science>>
        /\ told' \in {told, [told EXCEPT !.talon = "arm"]}
    BY <1>2, PublishTells DEF ArmTick, routing, link, parts
  <2>2. DOMAIN told' = ToldFields /\ told'.ik = told.ik /\ told'.vacuums = told.vacuums
    BY <1>0, <2>1 DEF ToldFields
  <2>. QED BY <2>1, <2>2, Apart
<1>3. CASE SATickNoPad(v)
  <2>1. /\ UNCHANGED <<page, visits, vacuum_2, store, editor, arm, science>>
        /\ told' \in {told, [told EXCEPT !.talon = "sa"]}
    BY <1>3, PublishTells DEF SATickNoPad, routing, link, parts
  <2>2. DOMAIN told' = ToldFields /\ told'.ik = told.ik /\ told'.vacuums = told.vacuums
    BY <1>0, <2>1 DEF ToldFields
  <2>. QED BY <2>1, <2>2, Apart
<1>4. CASE CamerasTick(v)
  <2>1. /\ UNCHANGED <<page, visits, vacuum_2, store, editor, arm, science>>
        /\ told' \in {told, [told EXCEPT !.cameras = <<cams[v].one, cams[v].two>>]}
    BY <1>4, PublishTells DEF CamerasTick, routing, link, parts
  <2>2. DOMAIN told' = ToldFields /\ told'.ik = told.ik /\ told'.vacuums = told.vacuums
    BY <1>0, <2>1 DEF ToldFields
  <2>. QED BY <2>1, <2>2, Apart
<1>5. CASE \E pressed \in SUBSET {1, 2} : SATick(v, pressed)
  BY <1>5, SATickKeeps
<1>. QED BY <1>1, <1>2, <1>3, <1>4, <1>5 DEF Tick

\* The last /nav_status is no part of what the invariant says of the editor.
LEMMA OnNavStatusKeeps ==
  ASSUME GInv, NEW v, NEW done \in BOOLEAN, OnNavStatus(v, done) PROVE GInv'
<1>1. /\ editor' \in {editor, [editor EXCEPT !.done = done]}
      /\ UNCHANGED <<page, visits, vacuum_2, autonEnabled, storeRoute, waypointList,
                     controlMode, arm, science, told>>
  BY DEF OnNavStatus, routing, link, store
<1>2. /\ DOMAIN editor' = EditorFields /\ editor'.box = editor.box
      /\ editor'.stale = editor.stale /\ editor'.edited = editor.edited
      /\ editor'.route = editor.route /\ editor'.stored = editor.stored
  BY <1>1 DEF GInv, FieldsOk, EditorFields
<1>3. FieldsOk'
  BY <1>1, <1>2 DEF GInv, FieldsOk
<1>4. EditorTrue'
  BY <1>1, <1>2 DEF GInv, EditorTrue, BoxTellsMode, MapShowsLists, OnTask
<1>5. ControlsTrue'
  BY <1>1 DEF GInv, ControlsTrue, BoxesShowMode, IkMatchesMode, VacuumsTrue, VacuumsTakeTurns
<1>. QED BY <1>3, <1>4, <1>5 DEF GInv

\* Connections and the choice of cameras are apart from it as well.
LEMMA OthersKeep ==
  ASSUME GInv,
         \/ \E v : SocketOpens(v)
         \/ \E index, stream : SetPiIndex(index, stream)
         \/ \E index : PressKey(index)
         \/ ToggleDualStream
         \/ UNCHANGED vars
  PROVE  GInv'
<1>1. UNCHANGED <<page, visits, vacuum_2, store, editor, arm, science, told>>
  BY DEF SocketOpens, SetPiIndex, PressKey, ToggleDualStream, vars, routing, link, parts
<1>. QED BY <1>1, Apart DEF GInv, FieldsOk

LEMMA NextKeeps == ASSUME GInv, [Next]_vars PROVE GInv'
<1>1. ASSUME NEW p \in Pages, Open(p) PROVE GInv'
  BY <1>1, OpenKeeps
<1>2. ASSUME NEW v \in 1 .. visits, SocketOpens(v) \/ SocketCloses(v) PROVE GInv'
  BY <1>2, OthersKeep, SocketClosesKeeps
<1>3. ASSUME NEW v \in 1 .. visits, Tick(v) PROVE GInv'
  BY <1>3, TickKeeps
<1>4. ASSUME NEW v \in 1 .. visits, NEW done \in BOOLEAN, OnNavStatus(v, done) PROVE GInv'
  BY <1>4, OnNavStatusKeeps
<1>5. CASE EditLists
  BY <1>5, EditListsKeeps
<1>6. CASE ToggleAutonMode \/ EditorTick
  BY <1>6, ModeKeeps
<1>7. ASSUME NEW mode \in {"arm", "arm_ik"}, UpdateControlMode(mode) PROVE GInv'
  BY <1>7, UpdateControlModeKeeps
<1>8. ASSUME NEW index, NEW stream, SetPiIndex(index, stream) PROVE GInv'
  BY <1>8, OthersKeep
<1>9. ASSUME NEW index, PressKey(index) PROVE GInv'
  BY <1>9, OthersKeep
<1>10. CASE ToggleDualStream \/ UNCHANGED vars
  BY <1>10, OthersKeep
<1>11. CASE SecondToggle
  BY <1>11, SecondToggleKeeps
<1>. QED BY <1>1, <1>2, <1>3, <1>4, <1>5, <1>6, <1>7, <1>8, <1>9, <1>10, <1>11 DEF Next

-------------------------------------------------------------------------------
\* The inductive invariant holds, however pages are visited and messages are dropped.
THEOREM Invariant == Spec => []GInv
<1>1. Init => GInv
  BY InitOk
<1>2. GInv /\ [Next]_vars => GInv'
  BY NextKeeps
<1>. QED BY <1>1, <1>2, PTL DEF Spec

\* The box of the autonomy mode shows the mode, whatever the order of clicks and of
\* finished courses, once it was clicked or if the page was opened with autonomy off.
THEOREM BoxesTellMode == Spec => []BoxTellsMode
<1>1. GInv => BoxTellsMode
  BY DEF GInv, EditorTrue
<1>. QED BY <1>1, Invariant, PTL

\* The map's lists are those of the editor once they were changed: no edit escapes the
\* watchers.
THEOREM MapsShowLists == Spec => []MapShowsLists
<1>1. GInv => MapShowsLists
  BY DEF GInv, EditorTrue
<1>. QED BY <1>1, Invariant, PTL

\* The arm's boxes show its control mode, one at most, on every page opened without one.
THEOREM ArmBoxesShowMode == Spec => []BoxesShowMode
<1>1. GInv => BoxesShowMode
  BY DEF GInv, ControlsTrue
<1>. QED BY <1>1, Invariant, PTL

\* The rover's inverse kinematics follow the control mode unless a message is dropped.
THEOREM IkAlwaysMatches == Spec => []IkMatchesMode
<1>1. GInv => IkMatchesMode
  BY DEF GInv, ControlsTrue
<1>. QED BY <1>1, Invariant, PTL

\* Whatever buttons are pressed together and whichever messages are lost, the rover is
\* told that both vacuums are on only in the course of a switch, or after a loss in it.
THEOREM VacuumsExclude == Spec => []VacuumsTakeTurns
<1>1. GInv => VacuumsTakeTurns
  BY DEF GInv, ControlsTrue, VacuumsTrue
<1>. QED BY <1>1, Invariant, PTL

-------------------------------------------------------------------------------
(* The timers.  A file's `interval' names the timer of the open page, which *)
(* is the one that leaving the page clears.                                *)

\* The files whose timers are cleared as their page is left.
CleanedUp(f) == f \in {"Cameras", "WaypointEditor"} => ~direct

\* The inductive invariant of the router: timers are those of visits so far, `interval'
\* names the open page's, and a file that is cleaned up has no other.
RoutingOk ==
  /\ page \in Pages /\ visits \in Nat /\ visits <= session.visits
  /\ session.visits \in Nat
  /\ OnTask => visits >= 1
  /\ direct \in BOOLEAN
  /\ DOMAIN interval = Files
  /\ timers \subseteq Files \X (1 .. visits)
  /\ \A f \in FilesOf(page) : interval[f] = visits
  /\ \A f \in FilesOf(page) : CleanedUp(f) => <<f, visits>> \in timers
  /\ \A f \in Files \ {"RATask", "AutonTask"}, v \in 1 .. visits :
       CleanedUp(f) /\ <<f, v>> \in timers => v = visits /\ f \in FilesOf(page)

\* A waypoint editor outlives its page only if two task pages were opened one after
\* the other, and then its timer still runs.
GhostsHaveTimers ==
  /\ ~direct => ghosts = <<>>
  /\ OnTask => visits \notin DOMAIN ghosts
  /\ \A v \in DOMAIN ghosts :
       /\ v \in 1 .. visits
       /\ \E f \in {"WaypointEditor", "WaypointEditor_Auton"} : <<f, v>> \in timers

\* Of a ghost's data, its timer apart, only the last /nav_status changes.
Stays ==
  /\ UNCHANGED routing
  /\ \/ UNCHANGED ghosts
     \/ \E v \in DOMAIN ghosts, done \in BOOLEAN : ghosts' = [ghosts EXCEPT ![v].done = done]

\* Nothing but the router starts or clears a timer.
LEMMA OnlyOpenRoutes ==
  ASSUME [Next]_vars PROVE (\E p \in Pages : Open(p)) \/ Stays
<1>1. CASE EditLists
  <2>1. \E ed, changed : SetLists(ed, changed)
    BY <1>1, Zenon DEF EditLists, AddWaypoint, AddItem, DeleteItem, ToggleSearch, ToggleGate, Drag
  <2>. QED BY <2>1 DEF Stays, SetLists
<1>2. ASSUME NEW v, NEW done \in BOOLEAN, OnNavStatus(v, done) PROVE Stays
  BY <1>2 DEF Stays, OnNavStatus
<1>3. ASSUME NEW v, SocketOpens(v) \/ SocketCloses(v) PROVE Stays
  BY <1>3 DEF Stays, SocketOpens, SocketCloses, parts
<1>4. ASSUME NEW v, Tick(v) PROVE Stays
  BY <1>4 DEF Stays, Tick, GhostTick, ArmTick, SATickNoPad, SATick, CamerasTick, parts
<1>5. CASE ToggleAutonMode \/ EditorTick
  BY <1>5 DEF Stays, ToggleAutonMode, EditorTick
<1>6. ASSUME NEW mode, UpdateControlMode(mode) PROVE Stays
  BY <1>6 DEF Stays, UpdateControlMode
<1>7. ASSUME NEW index, NEW stream, SetPiIndex(index, stream)
      PROVE  Stays
  BY <1>7 DEF Stays, SetPiIndex
<1>8. ASSUME NEW index, PressKey(index) PROVE Stays
  BY <1>8 DEF Stays, PressKey
<1>9. CASE ToggleDualStream
  BY <1>9 DEF Stays, ToggleDualStream
<1>10. CASE UNCHANGED vars
  BY <1>10 DEF Stays, vars, parts
<1>11. CASE SecondToggle
  BY <1>11 DEF Stays, SecondToggle, parts
<1>. QED BY <1>1, <1>2, <1>3, <1>4, <1>5, <1>6, <1>7, <1>8, <1>9, <1>10, <1>11 DEF Next

\* Of the files that two task pages share, those that are cleared have no other page's
\* timer unless the pages were opened one after the other.
LEMMA SharedFiles ==
  ASSUME NEW p \in Tasks, NEW q \in Tasks, p # q,
         NEW f \in FilesOf(p) \cap FilesOf(q)
  PROVE  f \in {"Cameras", "WaypointEditor"}
BY DEF Tasks, FilesOf

LEMMA FilesAreFiles == \A p \in Pages : FilesOf(p) \subseteq Files
BY DEF Pages, Tasks, FilesOf, Files

\* The new page's timers start, and those of the old page's cleared files stop unless
\* the file is shared: then it is the new timer that stops.
LEMMA OpenRoutes ==
  ASSUME RoutingOk, NEW p \in Pages, Open(p)
  PROVE  RoutingOk'
<1>. DEFINE v == visits + 1
            interval2 == [f \in Files |-> IF f \in FilesOf(p) THEN v ELSE interval[f]]
<1>1. /\ p # page /\ page' = p /\ session' = session
      /\ p \in Tasks => visits < session.visits
      /\ visits' = IF p \in Tasks THEN v ELSE visits
      /\ direct' = (direct \/ (OnTask /\ p \in Tasks))
      /\ interval' = interval2
      /\ timers' = (timers \cup (FilesOf(p) \X {v}))
                      \ {<<f, interval2[f]>> : f \in ClearedFiles(page)}
  BY DEF Open
<1>2. /\ page \in Pages /\ visits \in Nat /\ visits <= session.visits
      /\ session.visits \in Nat /\ direct \in BOOLEAN
      /\ timers \subseteq Files \X (1 .. visits)
      /\ \A f \in FilesOf(page) : interval[f] = visits
      /\ \A f \in Files \ {"RATask", "AutonTask"}, u \in 1 .. visits :
           CleanedUp(f) /\ <<f, u>> \in timers => u = visits /\ f \in FilesOf(page)
  BY DEF RoutingOk
<1>3. FilesOf(page) \subseteq Files /\ FilesOf(p) \subseteq Files
      /\ ClearedFiles(page) = FilesOf(page) \ {"RATask", "AutonTask"}
  BY <1>2, FilesAreFiles DEF ClearedFiles
<1>4. p \notin Tasks => FilesOf(p) = {}
  BY DEF Pages, Tasks, FilesOf
<1>5. \A f \in Files : CleanedUp(f)' => CleanedUp(f)
  BY <1>1, <1>2 DEF CleanedUp
<1>6. \A f \in FilesOf(p) \cap ClearedFiles(page) : ~CleanedUp(f)'
  <2>. SUFFICES ASSUME NEW f \in FilesOf(p) \cap ClearedFiles(page) PROVE ~CleanedUp(f)'
    OBVIOUS
  <2>1. p \in Tasks /\ page \in Tasks
    BY <1>2, <1>3 DEF Pages, Tasks, FilesOf
  <2>2. f \in {"Cameras", "WaypointEditor"}
    BY <1>1, <1>3, <2>1, SharedFiles
  <2>. QED BY <1>1, <2>1, <2>2 DEF CleanedUp, OnTask
<1>7. timers' \subseteq Files \X (1 .. visits')
  BY <1>1, <1>2, <1>3, <1>4
<1>8. \A f \in FilesOf(page)' : interval'[f] = visits'
  BY <1>1, <1>3, <1>4
<1>9. \A f \in FilesOf(page)' : CleanedUp(f)' => <<f, visits'>> \in timers'
  <2>. SUFFICES ASSUME NEW f \in FilesOf(p), CleanedUp(f)' PROVE <<f, visits'>> \in timers'
    BY <1>1
  <2>1. f \notin ClearedFiles(page) /\ visits' = v
    BY <1>1, <1>4, <1>6
  <2>. QED BY <1>1, <2>1
<1>10. ASSUME NEW f \in Files \ {"RATask", "AutonTask"}, NEW u \in 1 .. visits',
              CleanedUp(f)', <<f, u>> \in timers'
       PROVE  u = visits' /\ f \in FilesOf(p)
  <2>1. CASE <<f, u>> \in timers
    <3>1. u = visits /\ f \in FilesOf(page)
      BY <1>2, <1>5, <1>10, <2>1
    <3>2. f \in ClearedFiles(page)
      BY <1>3, <3>1
    <3>3. f \notin FilesOf(p)
      BY <1>6, <1>10, <3>2
    <3>4. interval2[f] = u
      BY <1>2, <3>1, <3>3
    <3>. QED BY <1>1, <1>10, <3>2, <3>4
  <2>2. CASE <<f, u>> \in FilesOf(p) \X {v}
    BY <1>1, <1>4, <2>2
  <2>. QED BY <1>1, <1>10, <2>1, <2>2
<1>11. OnTask' => visits' >= 1
  BY <1>1, <1>2 DEF OnTask
<1>12. visits' \in Nat /\ visits' <= session.visits' /\ direct' \in BOOLEAN
  BY <1>1, <1>2
<1>. QED BY <1>1, <1>2, <1>7, <1>8, <1>9, <1>10, <1>11, <1>12 DEF RoutingOk

\* Leaving a page clears its editor's timer unless the next page has the same editor.
LEMMA OpenLeavesGhosts ==
  ASSUME RoutingOk, GhostsHaveTimers, NEW p \in Pages, Open(p), RoutingOk'
  PROVE  GhostsHaveTimers'
<1>. DEFINE v == visits + 1
            interval2 == [f \in Files |-> IF f \in FilesOf(p) THEN v ELSE interval[f]]
<1>1. /\ p # page /\ page' = p
      /\ visits' = IF p \in Tasks THEN v ELSE visits
      /\ direct' = (direct \/ (OnTask /\ p \in Tasks))
      /\ timers' = (timers \cup (FilesOf(p) \X {v}))
                      \ {<<f, interval2[f]>> : f \in ClearedFiles(page)}
      /\ DOMAIN ghosts' = IF <<EditorOf(page), visits>> \in timers'
                           THEN {visits} \cup DOMAIN ghosts ELSE DOMAIN ghosts
      /\ <<EditorOf(page), visits>> \notin timers' => ghosts' = ghosts
  BY DEF Open
<1>2. /\ page \in Pages /\ visits \in Nat /\ direct \in BOOLEAN
      /\ timers \subseteq Files \X (1 .. visits)
      /\ \A f \in FilesOf(page) : interval[f] = visits
      /\ timers' \subseteq Files \X (1 .. visits')
  BY DEF RoutingOk
<1>3. FilesOf(page) \subseteq Files
      /\ ClearedFiles(page) = FilesOf(page) \ {"RATask", "AutonTask"}
  BY <1>2, FilesAreFiles DEF ClearedFiles
<1>4. EditorOf(page) \in {"WaypointEditor", "WaypointEditor_Auton"}
  BY DEF EditorOf
<1>5. ~direct' => ghosts' = <<>>
  <2>. SUFFICES ASSUME ~direct' PROVE ghosts' = <<>>
    OBVIOUS
  <2>1. ~direct /\ ghosts = <<>> /\ ~(OnTask /\ p \in Tasks)
    BY <1>1, <1>2 DEF GhostsHaveTimers
  <2>2. <<EditorOf(page), visits>> \notin timers'
    <3>. SUFFICES ASSUME <<EditorOf(page), visits>> \in timers' PROVE FALSE
      OBVIOUS
    <3>1. <<EditorOf(page), visits>> \in timers
      BY <1>1, <1>2
    <3>2. EditorOf(page) \in FilesOf(page)
      BY <1>2, <1>4, <2>1, <3>1 DEF RoutingOk, CleanedUp
    <3>3. FilesOf(p) = {}
      BY <1>2, <2>1, <3>2 DEF OnTask, Pages, Tasks, FilesOf
    <3>4. EditorOf(page) \in ClearedFiles(page) /\ interval2[EditorOf(page)] = visits
      BY <1>2, <1>3, <1>4, <3>2, <3>3
    <3>. QED BY <1>1, <3>4
  <2>. QED BY <1>1, <2>1, <2>2
<1>. HIDE DEF interval2
<1>6. ASSUME NEW u \in DOMAIN ghosts'
      PROVE  /\ u \in 1 .. visits'
             /\ \E f \in {"WaypointEditor", "WaypointEditor_Auton"} : <<f, u>> \in timers'
  <2>1. CASE u = visits /\ <<EditorOf(page), visits>> \in timers'
    <3>1. u \in 1 .. visits'
      BY <1>2, <2>1
    <3>. QED BY <1>4, <2>1, <3>1
  <2>2. CASE u \in DOMAIN ghosts
    <3>1. PICK f \in {"WaypointEditor", "WaypointEditor_Auton"} : <<f, u>> \in timers
      BY <2>2 DEF GhostsHaveTimers
    <3>2. u \in 1 .. visits /\ (OnTask => u # visits)
      BY <2>2 DEF GhostsHaveTimers
    <3>3. \A g \in ClearedFiles(page) : interval2[g] # u
      <4>1. ClearedFiles(page) # {} => OnTask
        BY <1>2, <1>3 DEF OnTask, Pages, FilesOf
      <4>. QED BY <1>2, <1>3, <3>2, <4>1 DEF interval2
    <3>4. <<f, u>> \in timers' /\ u \in 1 .. visits'
      BY <1>1, <1>2, <3>1, <3>2, <3>3
    <3>. QED BY <3>4
  <2>. QED BY <1>1, <1>6, <2>1, <2>2
<1>7. OnTask' => visits' \notin DOMAIN ghosts'
  <2>1. ASSUME NEW u \in DOMAIN ghosts PROVE u # visits + 1
    <3>1. u \in 1 .. visits
      BY <2>1 DEF GhostsHaveTimers
    <3>. QED BY <1>2, <3>1
  <2>. QED BY <1>1, <1>2, <2>1 DEF OnTask
<1>. QED BY <1>5, <1>6, <1>7 DEF GhostsHaveTimers

\* Before the first page is opened there are no timers.
LEMMA InitRoutes == ASSUME Init PROVE RoutingOk /\ GhostsHaveTimers
<1>1. /\ session.visits \in 0 .. MaxVisits
      /\ page = "Menu" /\ visits = 0 /\ direct = FALSE /\ ghosts = <<>> /\ timers = {}
      /\ interval = [f \in Files |-> 0]
  BY DashboardConstants DEF Init
<1>2. FilesOf("Menu") = {} /\ "Menu" \in Pages /\ "Menu" \notin Tasks
  BY DEF FilesOf, Pages, Tasks
<1>3. RoutingOk
  <2>1. session.visits \in Nat
    BY <1>1, DashboardConstants
  <2>2. FilesOf(page) = {} /\ page \in Pages /\ ~OnTask
    BY <1>1, <1>2 DEF OnTask
  <2>3. visits \in Nat /\ visits <= session.visits
    BY <1>1, <2>1
  <2>4. direct \in BOOLEAN
    BY <1>1, Zenon
  <2>5. DOMAIN interval = Files /\ timers = {}
    BY <1>1
  <2>. QED BY <2>1, <2>2, <2>3, <2>4, <2>5 DEF RoutingOk
<1>4. GhostsHaveTimers
  BY <1>1, <1>2 DEF GhostsHaveTimers, OnTask
<1>. QED BY <1>3, <1>4

\* Any other step leaves the timers, and the set of editors that outlived their page, alone.
LEMMA RoutingKept ==
  ASSUME RoutingOk, GhostsHaveTimers, [Next]_vars PROVE RoutingOk' /\ GhostsHaveTimers'
<1>1. CASE \E p \in Pages : Open(p)
  BY <1>1, OpenRoutes, OpenLeavesGhosts
<1>2. CASE Stays
  <2>0. UNCHANGED routing /\ DOMAIN ghosts' = DOMAIN ghosts /\ (ghosts = <<>> => ghosts' = <<>>)
    BY <1>2 DEF Stays
  <2>1. RoutingOk'
    BY <2>0 DEF RoutingOk, routing, OnTask, CleanedUp
  <2>2. /\ \A v \in DOMAIN ghosts' :
             /\ v \in 1 .. visits'
             /\ \E f \in {"WaypointEditor", "WaypointEditor_Auton"} : <<f, v>> \in timers'
        /\ OnTask' => visits' \notin DOMAIN ghosts'
    BY <2>0 DEF GhostsHaveTimers, routing, OnTask
  <2>3. ~direct' => ghosts' = <<>>
    BY <2>0 DEF GhostsHaveTimers, routing
  <2>. QED BY <2>1, <2>2, <2>3 DEF GhostsHaveTimers
<1>. QED BY <1>1, <1>2, OnlyOpenRoutes

\* Of whatever pages are opened in whatever order, the router's invariant holds.
THEOREM RoutingInvariant == Spec => [](RoutingOk /\ GhostsHaveTimers)
<1>1. Init => RoutingOk /\ GhostsHaveTimers
  BY InitRoutes
<1>2. RoutingOk /\ GhostsHaveTimers /\ [Next]_vars => (RoutingOk /\ GhostsHaveTimers)'
  BY RoutingKept
<1>. QED BY <1>1, <1>2, PTL DEF Spec

\* The timers that run are those of the open page, unless a file that two pages share
\* was left for itself: what beforeDestroy clears is what created has started.
THEOREM TimersAlwaysStop == Spec => []TimersStop
<1>1. RoutingOk => TimersStop
  <2>. SUFFICES ASSUME RoutingOk, NEW f \in Files \ {"RATask", "AutonTask"}, CleanedUp(f)
                PROVE  {v \in 1 .. session.visits : <<f, v>> \in timers}
                         = IF f \in FilesOf(page) THEN {visits} ELSE {}
    BY DEF TimersStop, CleanedUp
  <2>1. ASSUME NEW v, <<f, v>> \in timers PROVE v = visits /\ f \in FilesOf(page)
    BY <2>1 DEF RoutingOk
  <2>2. ASSUME f \in FilesOf(page)
        PROVE  <<f, visits>> \in timers /\ visits \in 1 .. session.visits
    <3>1. OnTask
      BY <2>2 DEF RoutingOk, OnTask, Pages, FilesOf
    <3>. QED BY <2>2, <3>1 DEF RoutingOk
  <2>. QED BY <2>1, <2>2
<1>. QED BY <1>1, RoutingInvariant, PTL

\* What the open page has started keeps running, and no waypoint editor publishes beside
\* that of the open page, when pages are opened through the menu.
OnlyThisPageTalks ==
  ~direct => /\ \A f \in FilesOf(page) : <<f, visits>> \in timers
             /\ ghosts = <<>>

\* Opening pages through the menu, the open page's timers run and no editor outlives
\* its page, for any number of visits.
THEOREM MenuKeepsPagesApart == Spec => []OnlyThisPageTalks
<1>1. RoutingOk /\ GhostsHaveTimers => OnlyThisPageTalks
  BY DEF RoutingOk, GhostsHaveTimers, OnlyThisPageTalks, CleanedUp
<1>. QED BY <1>1, RoutingInvariant, PTL

\* A page that is opened from another one loses the timer of the editor they share.
DirectLosesEditor ==
  OnTask /\ OnTask' /\ page' # page /\ EditorOf(page') = EditorOf(page)
    => <<EditorOf(page'), visits'>> \notin timers'

\* Between RATask and SATask the new page's waypoint editor never publishes: the old
\* one's beforeDestroy clears the `interval' that the new one has just set.
THEOREM DirectVisitsLoseEditor == Spec => [][DirectLosesEditor]_vars
<1>1. RoutingOk /\ [Next]_vars => DirectLosesEditor
  <2>. SUFFICES ASSUME RoutingOk, [Next]_vars, OnTask, OnTask', page' # page,
                       EditorOf(page') = EditorOf(page)
                PROVE  <<EditorOf(page'), visits'>> \notin timers'
    BY DEF DirectLosesEditor
  <2>1. PICK p \in Pages : Open(p)
    BY OnlyOpenRoutes DEF Stays, routing
  <2>. DEFINE f == EditorOf(page)
              interval2 == [g \in Files |-> IF g \in FilesOf(p) THEN visits + 1 ELSE interval[g]]
  <2>2. /\ page' = p /\ (p \in Tasks => visits' = visits + 1)
        /\ timers' = (timers \cup (FilesOf(p) \X {visits + 1}))
                        \ {<<g, interval2[g]>> : g \in ClearedFiles(page)}
    BY <2>1 DEF Open
  <2>3. f \in ClearedFiles(page) /\ f \in FilesOf(p) /\ f \in Files
    BY <2>2 DEF OnTask, Tasks, EditorOf, FilesOf, ClearedFiles, Files
  <2>4. visits' = visits + 1 /\ interval2[f] = visits + 1
    BY <2>2, <2>3 DEF OnTask
  <2>. QED BY <2>2, <2>3, <2>4
<1>. QED BY <1>1, RoutingInvariant, PTL DEF Spec

===============================================================================
