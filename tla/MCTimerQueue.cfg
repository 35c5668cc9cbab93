SPECIFICATION Spec
CONSTANTS
  k1 = k1
  k2 = k2
  k3 = k3
  Keys = {k1, k2, k3}
  TimeMod = 8
  IdMod = 5
  Timeouts = {1, 2}
  MaxTime = 3
  MaxAdds = 4
INVARIANTS
  TypeOK
  MapsAreInverse
PROPERTIES
  ImplementsTimerSet
