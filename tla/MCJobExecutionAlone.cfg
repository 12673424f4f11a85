SPECIFICATION ExecutionSpec
CONSTANTS
  NoChain = NoChain
  chA = chA
  chB = chB
  chC = chC
  Chains <- MCChains
  Roots <- MCOneRoot
  Deps <- MCPair
  Priority <- MCSamePriority
  cJobs <- MCJobs
  cRoom <- MCRoom
  cWorkers = 1
  kNumPriorityLevels = 7
  kJobsPerFence = 1
INVARIANTS
  PublishedDone
CHECK_DEADLOCK FALSE
