CONSTANTS
  Size = 4
  MaxMade = 7
SPECIFICATION LiveSpec
INVARIANTS
  NoLostWakeup
PROPERTIES
  ImplementsLossyQueue
  StopReturns
