CONSTANTS
  N = 3
  Threads = {t1, t2}
  MaxNest = 1
  MaxFrames = 2
  MaxOps = 5
SPECIFICATION Spec
SYMMETRY ThreadSymmetry
CHECK_DEADLOCK FALSE
INVARIANTS
  WorkerIffRunning
  NeverTerminates
  QuietInsideBracket
  FramesConserved
PROPERTIES
  StreamsAreChannels
