CONSTANTS
  Frames = {f1, f2}
  NoFrame = NoFrame
  MaxSent = 4
SPECIFICATION FairSpec
INVARIANTS
  FrameIsStable
  NoLostWakeup
  StoppedIsOutside
PROPERTIES
  ImplementsChannel
  StopReturns
  BothGetOn
