\* One server, two titles, two requests, another choice of the title, a cancel, a
\* lease that lapses under its job, and a crash with the sweep of the restart.
CONSTANTS
  Servers = {api}
  t1 = t1
  t2 = t2
  Titles <- TwoTitles
  NoTitle = NoTitle
  MaxRequests = 2
  MaxSelects = 1
  MaxCancels = 1
  MaxCrashes = 1
  MaxStalls = 1
SPECIFICATION FairSpec
INVARIANTS
  TypeOK
  InflightIsLive
  StaleOnlyThroughTheGap

  
CHECK_DEADLOCK FALSE
