SPECIFICATION SyncSpec
CONSTANTS
  t1 = t1
  t2 = t2
  t3 = t3
  Threads <- MCThreads
  kMaxReaders = 3
  MutexThreads <- MCThreads
  Signallers <- MCSignallers
  Waiters <- MCWaiters
  uMaximum = 3
  BaseCount = 1
  Counts = {1, 2}
  SemaphoreWidth = 3
  CasSwapped = FALSE
  BarrierThreads <- MCThreads
  Usages <- MCUsages
  Targets = {1, 2}
  BarrierWidth = 5
  Priorities = 7
  NormalOf = 3
  ExitValues = {0, 1}
  MaxThreads = 2
  MaxAdjusts = 1
  NoChain = NoChain
  chA = chA
  chB = chB
  chC = chC
  Chains <- MCChains
  Roots <- MCRoots
  Deps <- MCDeps
  Priority <- MCPriority
  cJobs <- MCJobs
  cRoom <- MCRoom
  cWorkers = 2
  kNumPriorityLevels = 2
  kJobsPerFence = 2
INVARIANTS
  Exclusive
  MutualExclusion
  EventMatchesLevel
  CollectionsHold
  OneThreadRuns
  CountsAgree
  AtMostOnce
  ParentFirst
  DepsReleased
  RootsDone
PROPERTIES
  WriterFirst
  ReachedPasses
  WaitReturns
CHECK_DEADLOCK FALSE
