\* Three workers; a lease of three ticks renewed after one, up to a tick late;
\* two faults, one death.
CONSTANTS
  Workers = {w1, w2, w3}
  t1 = t1
  t2 = t2
  t3 = t3
  t4 = t4
  t5 = t5
  t6 = t6
  t7 = t7
  t8 = t8
  Tokens <- EnoughTokens
  NoToken = NoToken
  Seconds = 3
  Interval = 1
  MaxLag = 1
  MaxFaults = 2
  MaxCrashes = 1
SPECIFICATION FairSpec
INVARIANTS
  TypeOK
  MutualExclusion
  NoLeaseMeansDead
PROPERTIES
  OnlyTheClockTakes
  DeadLeaseLapses
  LapsedIsRemarked
  Implements
