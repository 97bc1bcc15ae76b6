SPECIFICATION FairSpec
CONSTANTS
  Indices = {0, 1}
  MaxVisits = 3
  Keys = {1}
  Sessions <- SomeSessions
INVARIANTS TimersStop BoxTellsMode MapShowsLists BoxesShowMode IkMatchesMode VacuumsTakeTurns
PROPERTIES DoneEndsAutonomy PageIsObeyed
