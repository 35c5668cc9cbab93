SPECIFICATION Spec
CONSTANTS
  logInfoMaxSize = 8
  Headers = {3}
  Texts = {0, 3, 8, 9}
  Numbers = {1, 3}
  SizeT = 1024
  MaxPieces = 2
INVARIANT LineFits
CHECK_DEADLOCK FALSE
