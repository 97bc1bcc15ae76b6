----------------------------- MODULE OdriveDiagram ----------------------------
(***************************************************************************)
(* The states of an ODrive as jetson/odrive_bridge/README.md lists them    *)
(* ("States", "Off Nominal Behavior Handling") and the ways between them.  *)
(***************************************************************************)
VARIABLE state

DriveStates ==
  {"DisconnectedState", "DisarmedState", "ArmedState", "CalibrateState", "ErrorState"}

\* Once found, the ODrive is armed.
Found == state = "DisconnectedState" /\ state' = "ArmedState"

\* Commands disarm, arm and calibrate it; a calibration ends in ArmedState.
Commanded ==
  \/ state = "ArmedState" /\ state' \in {"DisarmedState", "CalibrateState"}
  \/ state \in {"DisarmedState", "CalibrateState"} /\ state' = "ArmedState"

\* It errors out, and reboots from there.
Errs == state \in {"ArmedState", "DisarmedState"} /\ state' = "ErrorState"
Reboots == state = "ErrorState" /\ state' = "DisconnectedState"

\* Unplugged.
Lost == state \in {"ArmedState", "DisarmedState"} /\ state' = "DisconnectedState"

DiagramNext == Found \/ Commanded \/ Errs \/ Reboots \/ Lost

Diagram == state = "DisconnectedState" /\ [][DiagramNext]_state
=============================================================================
