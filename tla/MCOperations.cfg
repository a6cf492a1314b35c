SPECIFICATION Operations
CONSTANTS
  p1 = p1
  p2 = p2
  p3 = p3
  Pipeline = {p1, p2, p3}
  Mixes <- MCMixes
  JobTries = 2
  OldCount = 2
  b1 = b1
  b2 = b2
  Run = {b1, b2}
  Attempts = 2
  LastSecond = 1
  Nothing = Nothing
  k1 = k1
  k2 = k2
  Deployer = {k1, k2}
  Workloads <- Deployments
  Latest = "latest"
  Tries = 2
  Never = Never
  a1 = a1
  a2 = a2
  Planner = {a1, a2}
  LastSerial = 3
  NoPlan = NoPlan
  r1 = r1
  r2 = r2
  r3 = r3
  Pusher = {r1, r2, r3}
  Ecr = {"ecr"}
  NoImage = NoImage
  Publisher = {r1, r2}
  Builds <- MCBuilds
  Unchecked = {"blog/post"}
  Excluded = {"faq"}
  NoPage = NoPage
  Releaser = {r1, r2}
  Modules <- MCModules
  LastCommit = 1
  Untagged = Untagged
  Builder = {r1, r2, r3}
  VersionOf <- MCVersionOf
  Platforms <- MCPlatforms
  Missing = Missing
  Node = {r1, r2}
  File = {"app", "lib", "app_test", "ext"}
  Content = {"x", "y"}
  Absent = Absent
  Imports <- MCImports
  Tests <- MCTests
  Foreign = {"ext"}
  Quoted = {"app_test"}
  Base <- MCBase
  LastEdit = 2
INVARIANTS
  TypeOK
  RollbackTargetReady
  RollbackLeavesOwn
  RollbackTargetServed
  GreenServesUnlessTied
  PassMeansRestored
  ReportedBackupStays
  NothingLeftBehind
  HealthyStays
  RollbackRestores
  AppliedWasApproved
  DeployedIsPublished
  PagesAlwaysResolve
  SuccessIsWhole
  ReleasedAtOneCommit
  ReleaseVerifies
  ReuseMeansSameInputs
