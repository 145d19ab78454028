CONSTANTS
  w1 = w1
  w2 = w2
  b1 = b1
  b2 = b2
  s1 = s1
  s2 = s2
  Bar = {b1, b2}
  Values <- UpToThree
SPECIFICATION RunSpec
INVARIANTS EventsKept LastIsHeld HeldInOrder
PROPERTIES LogIsFifo ClosedEventsArrive LogIsRegister LastBarsArrive SessionsEnd
CHECK_DEADLOCK FALSE
