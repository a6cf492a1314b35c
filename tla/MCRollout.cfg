CONSTANTS
  web = web
  d = d
  e = e
  v0 = v0
  v1 = v1
  v2 = v2
  Absent = Absent
  Image = {web}
  Key = {}
  Version = {v0, v1, v2}
  Runner = {d, e}
  Jobs <- Pairs
  Start <- StartMain
  MaxKicks = 1
  MaxMain = 3
SPECIFICATION FairSpec
INVARIANTS
  AcceptedAtOrAfterWrite
  AcceptedCommitCarriesTag
PROPERTIES
  GoesBackOnlyToAWaitedRevision
  DeploySettles
CHECK_DEADLOCK FALSE
