CONSTANTS
  east = east
  west = west
  t1 = t1
  t2 = t2
  t3 = t3
  Thread = {t1, t2, t3}
  Host = {east, west}
  Registries <- LoginOrders
  SharedErrs = TRUE
SPECIFICATION LoginSpec
INVARIANT NoRace
CHECK_DEADLOCK FALSE
