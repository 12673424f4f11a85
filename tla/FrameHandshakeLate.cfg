SPECIFICATION FrameFairSpec
CONSTANTS
  cWorkers = 2
  MaxFrames = 1
INVARIANTS
  OutOfFrame
CHECK_DEADLOCK FALSE
