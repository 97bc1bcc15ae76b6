------------------------ MODULE GuiDashboardProperties ------------------------
(***************************************************************************)
(* What is checked and proved of the base station's task pages.            *)
(***************************************************************************)
EXTENDS GuiDashboard

\* The timers that run are those of the open page, whatever pages were visited:
\* for a file that two pages share, as long as they were not opened one after the
\* other.  (RATask and AutonTask never clear the timer of the camera servos.)
TimersStop ==
  \A f \in Files \ {"RATask", "AutonTask"} :
    (f \in {"Cameras", "WaypointEditor"} => ~direct)
      => {v \in 1 .. session.visits : <<f, v>> \in timers}
           = IF f \in FilesOf(page) THEN {visits} ELSE {}

\* The box of the autonomy mode shows the mode, through clicks and finished courses,
\* unless the page was opened with autonomy on and the box was not clicked since.
BoxTellsMode == OnTask /\ ~editor.stale => editor.box = autonEnabled

\* The map, which shows the store's lists, shows those of the editor once they were
\* changed on this visit.
MapShowsLists ==
  OnTask => /\ "route" \in editor.edited => storeRoute = editor.route
            /\ "stored" \in editor.edited => waypointList = editor.stored

\* The boxes of the arm show its control mode, one at most, unless the page was
\* opened with a mode set.
BoxesShowMode == page = "RATask" /\ ~arm.stale => arm.boxes = {controlMode} \ {""}

\* Inverse kinematics are enabled on the rover as the control mode says, however the
\* boxes are checked and pages visited, unless the last message of it was dropped.
IkMatchesMode == ~arm.lost => told.ik = (controlMode = "arm_ik")

\* Switching from one vacuum to the other never leaves both on: the rover is told that
\* both are only from the first message of a switch to the second, or to the next tick if
\* that one is lost.  Neither of the toggles' resets may be lost.
VacuumsTakeTurns == told.vacuums = {1, 2} => vacuum_2.is \in {"off", "lost"}

\* A finished course ends autonomy while its editor's timer runs, also when the box
\* showed the mode wrongly.
DoneEndsAutonomy ==
  \A v \in 1 .. MaxVisits :
    (/\ OnTask /\ visits = v /\ <<EditorOf(page), v>> \in timers
     /\ autonEnabled /\ editor.done)
      ~> (~autonEnabled \/ ~editor.done \/ ~OnTask \/ visits # v)

\* The page of a visit stays open and connected.
StaysOpen(v) == OnTask /\ visits = v /\ v \in online
\* After task pages were opened one from the other: its editor's timer runs all the same,
\* and no editor that outlived another page is connected;
EditorAlone ==
  direct => <<EditorOf(page), visits>> \in timers /\ DOMAIN ghosts \cap online = {}
\* and the same of its cameras.
CamerasAlone ==
  direct => /\ <<"Cameras", visits>> \in timers
            /\ \A u \in online : <<"Cameras", u>> \in timers => u = visits

\* What an open page stays at is what the rover is told last: nothing of a page that is
\* gone undoes it when pages are opened through the menu, and when they are opened one
\* from the other only what the code lets outlive its page while it is connected.  The
\* Talons are configured for the open page's task in whatever order pages were visited.
PageIsObeyed ==
  \A v \in 1 .. MaxVisits :
    /\ <>[](StaysOpen(v) /\ EditorAlone) /\ <>[][UNCHANGED <<editor, autonEnabled>>]_vars
         => <>[](told.auton = autonEnabled /\ told.course = Course(editor))
    /\ <>[](StaysOpen(v) /\ CamerasAlone /\ Uses("cameras")) /\ <>[][UNCHANGED cams]_vars
         => <>[](told.cameras = <<cams[v].one, cams[v].two>>)
    /\ <>[](StaysOpen(v) /\ page = "RATask" /\ Uses("arm")) => <>[](told.talon = "arm")
    /\ <>[](StaysOpen(v) /\ page = "SATask" /\ Uses("science")) => <>[](told.talon = "sa")
===============================================================================
