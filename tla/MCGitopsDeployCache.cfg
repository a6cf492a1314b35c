CONSTANTS
  web = web
  api = api
  env = env
  d1 = d1
  d2 = d2
  d3 = d3
  v0 = v0
  v1 = v1
  v2 = v2
  Absent = Absent
  Image = {web, api}
  Key = {env}
  Version = {v0, v1, v2}
  Deployer = {d1, d2, d3}
  Request <- Requests
  Start <- StartTrees
  Foreign = {v0, Absent}
  MaxRetries = 2
  CacheLag = 1
  MaxMain = 2
  MaxFaults = 0
SPECIFICATION Spec
INVARIANT OkCarriedSinceCall
CHECK_DEADLOCK FALSE
