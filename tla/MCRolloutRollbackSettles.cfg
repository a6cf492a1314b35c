CONSTANTS
  web = web
  d = d
  e = e
  v0 = v0
  v1 = v1
  v2 = v2
  Absent = Absent
  Image = {web}
  Key = {}
  Version = {v0, v1, v2}
  Runner = {d}
  Jobs <- Alone
  Start <- StartMain
  MaxKicks = 2
  MaxMain = 3
SPECIFICATION FairSpec
PROPERTY RollbackSettles
CHECK_DEADLOCK FALSE
