SPECIFICATION FairSpec
CONSTANTS
  h1 = h1
  h2 = h2
  Handles = {h1, h2}
  FdOf <- MCFdOf
  OtherFds = {0}
  Timeouts = {0}
  WriteSize = 2
  MaxAwaits = 2
  MaxUnits = 1
  MaxTime = 1
INVARIANTS
  TypeOK
  ResumedOnce
  SuspendedAreWatched
  AbortNeedsStray
PROPERTIES
  ReadsEnd
  WritesEnd
CHECK_DEADLOCK FALSE
