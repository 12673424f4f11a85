SPECIFICATION FrameFairSpec
CONSTANTS
  cWorkers = 2
  MaxFrames = 1
PROPERTIES
  LeaveReturns
CHECK_DEADLOCK FALSE
