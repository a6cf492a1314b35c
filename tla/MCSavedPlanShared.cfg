SPECIFICATION Planning
CONSTANTS
  a1 = a1
  a2 = a2
  Planner = {a1, a2}
  LastSerial = 3
  NoPlan = NoPlan
CHECK_DEADLOCK FALSE
INVARIANT AppliedExactlyThePlanShown
