\* One generation, and an edit of the input that chooses another direction while
\* the generation runs; no faults.
CONSTANTS
  Servers = {api}
  Styles <- TwoStyles
  QuickRestart = TRUE
  MaxRequests = 1
  MaxEdits = 1
  MaxFaults = 0
  MaxStalls = 0
  MaxCrashes = 0
SPECIFICATION EditSpec
INVARIANTS
  ManuscriptIsOfItsDirection
CHECK_DEADLOCK FALSE
