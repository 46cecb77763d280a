CONSTANTS
  Managers = {m1}
  Clients = {c1, c2}
  MaxVersion = 2
  MaxCrashes = 1
  MaxFailures = 1
  MaxToggles = 1
  MaxReads = 1
SPECIFICATION FairSpec
CHECK_DEADLOCK FALSE
INVARIANTS
  FilesAreWhole
  Unreachable
  ChangeIsPending
PROPERTIES
  FileMovesForward
  ChangesAreSaved
  EverybodyReturns
