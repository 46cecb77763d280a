CONSTANTS
  Handlers = {h1, h2, h3}
  Probed = {h1, h2}
  None = None
  DeviceSets = {NoDevices, one}
  NoDevices = NoDevices
  MaxChanges = 2
  MaxFailures = 1
  DebugServer = FALSE
SPECIFICATION LiveSpec
INVARIANTS
  NoProbeIntoUnloaded
  OneSelection
  OnlySelectedStarted
PROPERTIES
  ChangesAreNoticed
