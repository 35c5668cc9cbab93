SPECIFICATION FairSpec
CONSTANTS
  v1 = v1
  v2 = v2
  garbage = garbage
  c1 = c1
  c2 = c2
  Capacity = 3
  IndexMod = 8
  MaxPush = 4
  Values <- MCValues
  Garbage = garbage
  Words <- MCWords
  Consumers <- MCConsumers
INVARIANTS
  TypeOK
  PopExact
  NoTornWinner
PROPERTIES
  EmptyIsEmpty
  ImplementsFifo
  EventuallyPopped
