SPECIFICATION FairSpec
CONSTANTS
  Limit = 2
  MaxLines = 8
  MaxCrashes = 2
  MaxFailures = 1
INVARIANTS
  TypeOK
  NothingLost
PROPERTIES
  NumberedFilesAreFinal
  LongFilesRotate
CHECK_DEADLOCK FALSE
