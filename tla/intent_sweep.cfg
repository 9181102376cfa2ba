\* One analysis that finishes, its user slow to choose, and a restart: the sweep.
CONSTANTS
  Servers = {api}
  t1 = t1
  t2 = t2
  Titles <- TwoTitles
  NoTitle = NoTitle
  MaxRequests = 1
  MaxSelects = 0
  MaxCancels = 0
  MaxCrashes = 1
  MaxStalls = 0
SPECIFICATION Spec
PROPERTIES
  SweepSparesFinished
CHECK_DEADLOCK FALSE
