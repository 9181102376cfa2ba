\* Threads: two flows on one profile, whose lock is released when the window is open.
CONSTANTS
  Flows <- TwoFlows
  Viewers = {tab}
  WholeFlow = FALSE
  CanKill = TRUE
  SlowWork = TRUE
  MaxChromes = 2
  MaxWatches = 0
  MaxCrashes = 0
SPECIFICATION Spec
INVARIANTS
  KilledWasOrphaned
CHECK_DEADLOCK FALSE
