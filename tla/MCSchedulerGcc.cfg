SPECIFICATION SchedulerSpec
CONSTANTS
  c1 = c1
  c2 = c2
  c3 = c3
  NoChain = NoChain
  Chains <- MCChains
  Levels <- MCLevels
  Priority <- MCPriority
  Threads = {t1, t2}
  kMaxChains = 3
  MaxBatch = 2
  MaxAttempts = 4
  CasSwapped = TRUE
  cWorkers = 1
  MaxFrames = 0
INVARIANTS
  NoHole
CHECK_DEADLOCK FALSE
