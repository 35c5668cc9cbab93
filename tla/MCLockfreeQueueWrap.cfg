SPECIFICATION FairSpec
CONSTANTS
  v1 = v1
  v2 = v2
  garbage = garbage
  c1 = c1
  Capacity = 5
  IndexMod = 8
  MaxPush = 9
  Values <- MCValues
  Garbage = garbage
  Words = {1}
  Consumers = {c1}
INVARIANTS
  PopExact
