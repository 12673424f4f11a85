SPECIFICATION ExecutionSpec
CONSTANTS
  NoChain = NoChain
  chA = chA
  chB = chB
  chC = chC
  Chains <- MCChains
  Roots <- MCOneRoot
  Deps <- MCLine
  Priority <- MCSamePriority
  cJobs <- MCLineJobs
  cRoom <- MCRoom
  cWorkers = 3
  kNumPriorityLevels = 1
  kJobsPerFence = 1
INVARIANTS
  DepsReleased
CHECK_DEADLOCK FALSE
