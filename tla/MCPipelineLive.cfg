CONSTANTS
  N = 3
  Threads = {t1}
  MaxNest = 1
  MaxFrames = 2
  MaxOps = 5
SPECIFICATION FairSpec
CHECK_DEADLOCK FALSE
PROPERTIES
  OperationsReturn
  FlowsAgain
