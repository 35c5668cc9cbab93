SPECIFICATION FairSpec
CONSTANTS
  h1 = h1
  h2 = h2
  Handles = {h1, h2}
  Timeouts = {1}
  UringSize = 2
  MaxAwaits = 2
  MaxTime = 2
  MaxFailures = 0
PROPERTY
  PollReturns
