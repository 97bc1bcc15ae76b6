---------------------------- MODULE MCGuiDashboard ----------------------------
EXTENDS GuiDashboardProperties

Session(uses, n, m) == [uses |-> uses, visits |-> n, items |-> m]
\* Every feature is used; those that outlive a page over several visits.
SomeSessions ==
  {Session({"course"}, 1, 2), Session({"course"}, 2, 1), Session({"mode"}, 3, 0),
   Session({"arm", "science"}, 2, 0), Session({"cameras"}, 2, 0)}
===============================================================================
