\* One server, three requests in two styles, three database faults, a stalled
\* heartbeat, a crash with a restart that may beat the lease.
CONSTANTS
  Servers = {api}
  Styles <- TwoStyles
  QuickRestart = TRUE
  MaxRequests = 3
  MaxEdits = 0
  MaxFaults = 3
  MaxStalls = 1
  MaxCrashes = 2
SPECIFICATION FairSpec
INVARIANTS
  TypeOK
  
  WrittenAsAsked
  FinishedIsNotDropped
PROPERTIES
  NotStoredTwice
  StuckIsRetriable
CHECK_DEADLOCK FALSE
