\* One job and one request of any kind at any moment; the batch may end, so deadlock is off.
CONSTANTS
  j1 = j1
  j2 = j2
  Jobs = {j1}
  Publishing = {j1}
  Publisher = publisher
  Worker = worker
  User = user
  None = none
  Requests = {"pause", "resume", "stop", "discard", "retry", "reschedule", "cancel", "delete", "forget"}
  Stages = 2
  MaxAttempts = 2
  Uncertain = FALSE
  MaxRequests = 1
  MaxCrashes = 0
SPECIFICATION Spec
INVARIANTS TypeOK NoDuplicatePost CompletedIsLive 
PROPERTY DeletedStaysDeleted
CHECK_DEADLOCK FALSE
