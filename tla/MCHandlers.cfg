SPECIFICATION FairSpec
CONSTANTS
  c1 = c1
  c2 = c2
  Conns = {c1, c2}
  MaxFd = 2
  MaxRounds = 2
  Words = {"a", "b"}
  MaxWord = 1
  MaxHeaders = 1
  MaxBody = 0
INVARIANTS
  TypeOK
  OwnsWhatIsOpen
  KernelBuffersAreLive
  EveryRequestAnswered

  
CHECK_DEADLOCK FALSE
