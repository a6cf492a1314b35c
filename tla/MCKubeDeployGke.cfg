SPECIFICATION Deploying
CONSTANTS
  k1 = k1
  k2 = k2
  Deployer = {k1, k2}
  Workloads <- Deployments
  Latest = "latest"
  Tries = 2
  Never = Never
CHECK_DEADLOCK FALSE
INVARIANT GkeRollbackRestores
