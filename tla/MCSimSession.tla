----------------------------- MODULE MCSimSession -----------------------------
EXTENDS SimSessionProperties

\* Every feature is used, with those it interacts with.
SomeSessions ==
  {{"drive", "gimbal"}, {"drive", "localization"}, {"drive", "repeater"}, {"repeater", "bridge"},
   {"drive", "bridge"}, {"heartbeat", "localization", "perception"}, {"heartbeat", "bridge"}}
DriveSessions == {{"drive"}}
===============================================================================
