CONSTANTS
  web = web
  api = api
  r1 = r1
  r2 = r2
  v0 = v0
  v1 = v1
  v2 = v2
  Absent = Absent
  Image = {web, api}
  Key = {}
  Version = {v0, v1, v2}
  Reverter = {r1, r2}
  Commit <- AllHead
  Deploys <- OtherDeploys
  MaxRetries = 3
  CacheLag = 0
  Start <- BadDeploy
  MaxMain = 2
  MaxFaults = 0
SPECIFICATION Spec
INVARIANT RetriedHeadIsADeploy
CHECK_DEADLOCK FALSE
