\* Two callers, both channels, a publisher that may report FAIL for a live
\* article, one crash: the record never says more than what happened.
CONSTANTS
  Publishers = {manual, worker}
  Channels <- BothChannels
  Uncertain = TRUE
  MaxRequests = 3
  MaxCrashes = 1
SPECIFICATION FairSpec
INVARIANTS
  TypeOK
  LoggedSuccessIsReal
  PostedIsBackedByALog

  
CHECK_DEADLOCK FALSE
