CONSTANTS
  web = web
  api = api
  r1 = r1
  r2 = r2
  v0 = v0
  v1 = v1
  v2 = v2
  Absent = Absent
  Image = {web, api}
  Key = {}
  Version = {v0, v1, v2}
  Reverter = {r1, r2}
  Commit <- PinnedAndHead
  Deploys <- OtherDeploys
  MaxRetries = 3
  CacheLag = 1
  Start <- BadDeploy
  MaxMain = 4
  MaxFaults = 1
  east = east
  west = west
  t1 = t1
  t2 = t2
  t3 = t3
  Thread = {t1, t2, t3}
  Host = {east, west}
  Registries <- LoginOrders
  SharedErrs = FALSE
SPECIFICATION RevertLogin
INVARIANTS
  TypeOK
  RevertsExactlyItsTarget
  HeadRevertRestoresParent
  PinnedRepeatsOnlyAfterReinstall
  LoginTypeOK
  LoginOncePerHost
  OkMeansLoggedIn
PROPERTIES
  RefinesGitopsUndo
  EveryCallReturns
  RefinesSharedLogins
  EveryLoginReturns
CHECK_DEADLOCK FALSE
