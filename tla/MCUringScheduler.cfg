SPECIFICATION FairSpec
CONSTANTS
  h1 = h1
  h2 = h2
  Handles = {h1, h2}
  Timeouts = {0, 1, 2}
  UringSize = 2
  MaxAwaits = 2
  MaxTime = 3
  MaxFailures = 2
INVARIANTS
  TypeOK
  OneAnswerPerAwait
  RingAndTableAgree
  CrashNeedsFailures
PROPERTIES
  ImplementsAsyncIo
  PollReturnsUnlessStuck
  AnswersResume
CHECK_DEADLOCK FALSE
