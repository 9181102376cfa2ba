\* Naver: two flows on one profile, three windows, a viewer, and
\* a server that dies once.
CONSTANTS
  Flows <- TwoFlows
  Viewers = {tab}
  WholeFlow = TRUE
  CanKill = TRUE
  SlowWork = TRUE
  MaxChromes = 3
  MaxWatches = 1
  MaxCrashes = 1
SPECIFICATION FairSpec
INVARIANTS
  TypeOK
  KilledWasOrphaned
  OneOwner
PROPERTIES
  UnwatchedIsClosed
CHECK_DEADLOCK FALSE
