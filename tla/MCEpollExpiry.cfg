SPECIFICATION Spec
CONSTANTS
  h1 = h1
  h2 = h2
  Handles = {h1}
  FdOf <- MCFdOf
  OtherFds = {0}
  Timeouts = {1}
  WriteSize = 2
  MaxAwaits = 2
  MaxUnits = 1
  MaxTime = 1
INVARIANT
  ResumedOnce
CHECK_DEADLOCK FALSE
