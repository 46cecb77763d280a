CONSTANTS
  Size = 4
  Keeps = {1, 2}
  Skips <- OverlapOrGap
  Lens = {3}
  MaxMade = 6
SPECIFICATION LiveSpec
INVARIANTS
  CopiesApart
  FramesSlide
  NoLostWakeup
PROPERTIES
  ImplementsQueue
  StopReturns
