\* One caller, one channel, crashes at any point: nothing is published twice.
CONSTANTS
  Publishers = {worker}
  Channels <- NaverOnly
  Uncertain = FALSE
  MaxRequests = 5
  MaxCrashes = 3
SPECIFICATION Spec
INVARIANTS
  NoDuplicatePost
  LiveIsLoggedOrPosting
CHECK_DEADLOCK FALSE
