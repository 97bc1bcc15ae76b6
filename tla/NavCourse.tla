------------------------------- MODULE NavCourse ------------------------------
(***************************************************************************)
(* What the navigation promises the base station about a course, as        *)
(* NavStatus reports it: the waypoints are completed one by one, the       *)
(* course is finished when all of them are, and only switching autonomy    *)
(* off (or the end of the process) ends it before that.                    *)
(***************************************************************************)
EXTENDS Naturals

CONSTANT Lengths   \* how many waypoints a course may have: a subset of Nat

VARIABLES mode, done, all

courseVars == <<mode, done, all>>

CourseInit == mode = "idle" /\ done = 0 /\ all = 0

\* A course starts from its first waypoint; an empty one is finished.
Start ==
  /\ mode = "idle"
  /\ done' = 0
  /\ all' \in Lengths
  /\ mode' = IF all' = 0 THEN "finished" ELSE "running"

CompleteOne ==
  /\ mode = "running"
  /\ done < all
  /\ done' = done + 1
  /\ UNCHANGED <<mode, all>>

Finish ==
  /\ mode = "running"
  /\ done = all
  /\ mode' = "finished"
  /\ UNCHANGED <<done, all>>

GiveUp ==
  /\ mode # "idle"
  /\ mode' = "idle"
  /\ UNCHANGED <<done, all>>

CourseNext == Start \/ CompleteOne \/ Finish \/ GiveUp

CourseSpec == CourseInit /\ [][CourseNext]_courseVars
=============================================================================
