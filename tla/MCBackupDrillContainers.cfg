SPECIFICATION Drilling
CONSTANTS
  b1 = b1
  b2 = b2
  Run = {b1, b2}
  Attempts = 2
  LastSecond = 1
  Nothing = Nothing
CHECK_DEADLOCK FALSE
INVARIANT EveryContainerRemoved
