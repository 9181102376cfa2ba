\* Two jobs, one of them published, and one restart; the batch ends, so deadlock is off.
CONSTANTS
  j1 = j1
  j2 = j2
  Jobs = {j1, j2}
  Publishing = {j1}
  Publisher = publisher
  Worker = worker
  User = user
  None = none
  Requests = {}
  Stages = 1
  MaxAttempts = 2
  Uncertain = FALSE
  MaxRequests = 0
  MaxCrashes = 1
SPECIFICATION FairSpec
INVARIANTS NoDuplicatePost ClosedIsOver BlockedForAReason
 
CHECK_DEADLOCK FALSE
