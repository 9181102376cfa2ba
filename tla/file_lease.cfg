\* Two processes, a lease of three ticks, one fault, one death.
CONSTANTS
  Workers = {w1, w2}
  t1 = t1
  t2 = t2
  t3 = t3
  t4 = t4
  t5 = t5
  Tokens <- EnoughTokens
  NoToken = NoToken
  i1 = i1
  i2 = i2
  i3 = i3
  i4 = i4
  Inodes <- EnoughInodes
  NoInode = NoInode
  Seconds = 3
  Interval = 1
  MaxLag = 1
  MaxFaults = 1
  MaxCrashes = 1
SPECIFICATION FairSpec
INVARIANTS
  TypeOK
  ExclusiveUnlessRemoved
  NoLeaseMeansDead
PROPERTIES
  LapsesUnlessTorn
